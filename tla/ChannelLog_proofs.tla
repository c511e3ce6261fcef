---------------------------- MODULE ChannelLog_proofs ----------------------------
(***************************************************************************)
(* Proofs about ChannelLog for any messages, page size, length of the log  *)
(* and number of faults: the copy follows the host as Replica says, and    *)
(* what is shown as pending is.                                            *)
(*                                                                         *)
(* Whatever is on its way to the subscriber was true of the host when it   *)
(* was sent, and the host only goes forward, so that it is never ahead of  *)
(* the host.  What the subscriber has it merges, which goes forward on its *)
(* side.  That no update is skipped is about the order of things: of what  *)
(* comes on the updates wire nothing begins behind a gap.                  *)
(*                                                                         *)
(* That the copy is the same in the end is the second invariant, SInv:     *)
(* whatever the copy or a snapshot on its way lacks of a post is said by   *)
(* an update still to come, and a post that is not there is to come with   *)
(* the backlog that is fetched; but for what is noted in lost.             *)
(***************************************************************************)
EXTENDS ChannelLog, SequenceTheorems, FiniteSetTheorems, WellFoundedInduction, TLAPS

OneFlow == [st : {"none", "asked", "live"}, arg : 0 .. MaxLog, retry : 0 .. MaxLog \cup {Never},
            down : Seq(Signs)]
Flows   == [Wires -> OneFlow]
Posts   == [Time -> Versions]

(* Version a is not ahead of b. *)
Upto(a, b) ==
    \/ a.st = "absent" \/ b.st = "dead"
    \/ a.st = "live" /\ b.st = "live" /\ a.rev <= b.rev /\ a.reacts <= b.reacts

Within(c, n) == \A i \in Time : c[i].st # "absent" => i <= n

(* An update of the log lg, and an entry of it.                               *)
UpOK(u, lg) == u.time \in 1 .. Len(lg) /\ u = lg[u.time]
EntryOK(u, t, ps) ==
    /\ u.time = t /\ u.id <= t /\ u.v.st # "absent"
    /\ u.kind # "set" => u.v.st = "live"
    /\ u.id = t => u.kind = "set" /\ u.v.st = "live"
    /\ Upto(u.v, ps[u.id])

LogOK(lg, ps) == (\A t \in 1 .. Len(lg) : EntryOK(lg[t], t, ps)) /\ Within(ps, Len(lg))

(* What is on its way was true when it was sent. *)
SignOK(q, lg, ps) ==
    /\ \A j \in 1 .. Len(q.us) : UpOK(q.us[j], lg)
    /\ q.kind # "logs" => Len(q.us) = 0
    /\ \A i \in Time : Upto(q.posts[i], ps[i])
    /\ q.at <= Len(lg) /\ Within(q.posts, q.at)

Grounded(f, r, lg, ps) ==
    /\ \A w \in Wires : \A n \in 1 .. Len(f[w].down) : SignOK(f[w].down[n], lg, ps)
    /\ \A j \in 1 .. Len(r) : UpOK(r[j], lg)

(* The update of time t comes before the n-th message of d; r is being handled. *)
Ahead(d, r, n, t) ==
    \/ \E j \in 1 .. Len(r) : r[j].time = t
    \/ \E m \in 1 .. n - 1 : \E j \in 1 .. Len(d[m].us) : d[m].us[j].time = t

(* Nothing is asked for from later than k, to which the subscriber has come,   *)
(* and no snapshot is older than s, the last one it took.                     *)
Bounded(f, k)     == \A w \in Wires : f[w].arg <= k /\ f[w].retry <= k
SnapsOK(f, k, s) ==
    /\ \A n \in 1 .. Len(f["checkpoint"].down) :
          f["checkpoint"].down[n].kind = "checkpoint" => s <= f["checkpoint"].down[n].at
    /\ \A n \in 1 .. Len(f["backlog"].down) : Within(f["backlog"].down[n].posts, k)

(* An update that does not continue what the subscriber has comes after the    *)
(* one before it, and while it watches so does the next.                      *)
RollOK(r, k) ==
    \A j \in 1 .. Len(r) : r[j].time <= k + 1 \/ (j > 1 /\ r[j - 1].time = r[j].time - 1)
StreamOK(d, r, k) ==
    \A n \in 1 .. Len(d) : \A j \in 1 .. Len(d[n].us) :
        \/ d[n].us[j].time <= k + 1
        \/ j > 1 /\ d[n].us[j - 1].time = d[n].us[j].time - 1
        \/ Ahead(d, r, n, d[n].us[j].time - 1)
TipOK(d, r, k, len) == len <= k \/ Ahead(d, r, Len(d) + 1, len)

Ordered(f, r, k, s, len) ==
    /\ Bounded(f, k) /\ SnapsOK(f, k, s) /\ RollOK(r, k) /\ StreamOK(f["updates"].down, r, k)
    /\ f["updates"].st = "live" => TipOK(f["updates"].down, r, k, len)

Reach == Larger(heard, snap)
CopyOK(c, ps, k) == (\A i \in Time : Upto(c[i], ps[i])) /\ Within(c, k)

IInv ==
    /\ TypeOK
    /\ LogOK(log, posts) /\ CopyOK(copy, posts, Reach)
    /\ Grounded(flow, rolling, log, posts) /\ Ordered(flow, rolling, Reach, snap, Len(log))
    /\ heard <= Len(log) /\ snap <= Len(log)
    /\ PendingIsTrue

-----------------------------------------------------------------------------
(* The newest and the oldest post. *)
Less == {p \in Nat \X Nat : p[1] < p[2]}

LEMMA LessWF == IsWellFoundedOn(Less, Nat)
BY NatLessThanWellFounded DEF OpToRel, Less

LEMMA SmallestOf ==
    ASSUME NEW T, T \subseteq Nat, T # {}
    PROVE  \E x \in T : \A y \in T : x <= y
<1>1. PICK x \in T : \A y \in T : ~ (<<y, x>> \in Less)
  BY LessWF, WFMin
<1>2. ASSUME NEW y \in T PROVE x <= y
  <2>1. x \in Nat /\ y \in Nat /\ <<y, x>> \in Nat \X Nat
    OBVIOUS
  <2>2. ~(y < x)
    BY <1>1, <2>1 DEF Less
  <2> QED
    BY <2>1, <2>2
<1> QED
  BY <1>2

LEMMA LargestOf ==
    ASSUME NEW n \in Nat, NEW S, S \subseteq 0 .. n, S # {}
    PROVE  \E x \in S : \A y \in S : y <= x
<1> DEFINE T == {n - i : i \in S}
<1>1. T \subseteq Nat
  <2>1. ASSUME NEW i \in S PROVE n - i \in Nat
    <3>1. i \in 0 .. n
      OBVIOUS
    <3> QED
      BY <3>1
  <2> QED
    BY <2>1
<1>2. PICK k \in T : \A y \in T : k <= y
  <2>1. T # {}
    OBVIOUS
  <2> HIDE DEF T
  <2> QED
    BY <1>1, <2>1, SmallestOf
<1>3. PICK x \in S : k = n - x
  OBVIOUS
<1>4. ASSUME NEW y \in S PROVE y <= x
  <2>1. k <= n - y
    BY <1>2
  <2>2. x \in 0 .. n /\ y \in 0 .. n
    OBVIOUS
  <2> HIDE DEF T
  <2> QED
    BY <2>1, <1>3, <2>2
<1> QED
  BY <1>4

LEMMA EndsIn ==
    ASSUME NEW c \in Posts, NEW k \in 0 .. MaxLog, Within(c, k)
    PROVE  Newest(c) \in 0 .. k /\ Oldest(c) \in 0 .. k
<1>1. Present(c) \subseteq 0 .. k /\ Present(c) \subseteq Nat /\ k \in Nat
  BY ConstantsAssumption DEF Present, Within, Time
<1>2. CASE Present(c) = {}
  BY <1>1, <1>2 DEF Newest, Oldest
<1>3. CASE Present(c) # {}
  <2>1. \E i \in Present(c) : \A j \in Present(c) : j <= i
    BY <1>1, <1>3, LargestOf
  <2>2. \E i \in Present(c) : \A j \in Present(c) : i <= j
    BY <1>1, <1>3, SmallestOf
  <2>3. Newest(c) \in Present(c) /\ Oldest(c) \in Present(c)
    BY <1>3, <2>1, <2>2 DEF Newest, Oldest
  <2> QED
    BY <1>1, <2>3
<1> QED
  BY <1>2, <1>3

-----------------------------------------------------------------------------
(* Versions: merging goes forward, and not beyond what bounds both.            *)
LEMMA AbsentTyped == Absent \in Versions /\ Empty \in Posts /\ \A n : Within(Empty, n)
BY DEF Absent, Versions, NoReply, Empty, Posts, Within

LEMMA UptoSelf == \A a \in Versions : Upto(a, a)
BY DEF Upto, Versions

LEMMA UptoTransitive ==
    ASSUME NEW a \in Versions, NEW b \in Versions, NEW c \in Versions, Upto(a, b), Upto(b, c)
    PROVE  Upto(a, c)
BY DEF Upto, Versions

LEMMA MergeFacts ==
    ASSUME NEW a \in Versions, NEW b \in Versions
    PROVE  /\ MergePost(a, b) \in Versions /\ Upto(a, MergePost(a, b))
           /\ MergePost(a, b).st # "absent" => a.st # "absent" \/ b.st # "absent"
           /\ \A c \in Versions : Upto(a, c) /\ Upto(b, c) => Upto(MergePost(a, b), c)
<1>1. CASE a.st = "dead" \/ b.st = "absent"
  BY <1>1, UptoSelf DEF MergePost
<1>2. CASE ~(a.st = "dead" \/ b.st = "absent") /\ (a.st = "absent" \/ b.st = "dead")
  BY <1>2 DEF MergePost, Upto
<1>3. CASE a.st = "live" /\ b.st = "live"
  <2> DEFINE rev    == Larger(a.rev, b.rev)
             reacts == Larger(a.reacts, b.reacts)
             reply  == MergeReply(a.reply, b.reply)
  <2>1. MergePost(a, b) = [a EXCEPT !.rev = rev, !.reacts = reacts, !.reply = reply]
    BY <1>3 DEF MergePost
  <2>2. rev \in Nat /\ reacts \in Nat /\ reply \in Int
    BY DEF Larger, MergeReply, Versions
  <2>3. /\ a.rev <= rev /\ a.reacts <= reacts
        /\ \A m \in Nat : (a.rev <= m /\ b.rev <= m => rev <= m)
                       /\ (a.reacts <= m /\ b.reacts <= m => reacts <= m)
    BY DEF Larger, Versions
  <2> HIDE DEF rev, reacts, reply
  <2>4. /\ MergePost(a, b) \in Versions /\ MergePost(a, b).st = "live"
        /\ MergePost(a, b).rev = rev /\ MergePost(a, b).reacts = reacts
    BY <1>3, <2>1, <2>2 DEF Versions
  <2>5. ASSUME NEW c \in Versions, Upto(a, c), Upto(b, c) PROVE Upto(MergePost(a, b), c)
    BY <1>3, <2>3, <2>4, <2>5 DEF Upto, Versions
  <2> QED
    BY <1>3, <2>3, <2>4, <2>5 DEF Upto
<1> QED
  BY <1>1, <1>2, <1>3 DEF Versions

LEMMA ApplyFacts ==
    ASSUME NEW a \in Versions, NEW u \in Updates, u.kind # "set" => u.v.st = "live"
    PROVE  /\ ApplyUpdate(a, u) \in Versions /\ Upto(a, ApplyUpdate(a, u))
           /\ ApplyUpdate(a, u).st # "absent" => a.st # "absent" \/ u.v.st # "absent"
           /\ \A c \in Versions : Upto(a, c) /\ Upto(u.v, c) => Upto(ApplyUpdate(a, u), c)
<1>0. u.v \in Versions
  BY DEF Updates
<1>1. CASE u.kind = "set"
  BY <1>0, <1>1, MergeFacts DEF ApplyUpdate
<1>2. CASE u.kind # "set" /\ a.st # "live"
  BY <1>0, <1>2, UptoSelf DEF ApplyUpdate
<1>3. CASE u.kind = "reacts" /\ a.st = "live"
  <2> DEFINE reacts == Larger(a.reacts, u.v.reacts)
  <2>1. ApplyUpdate(a, u) = [a EXCEPT !.reacts = reacts]
    BY <1>3 DEF ApplyUpdate
  <2>2. reacts \in Nat /\ a.reacts <= reacts
        /\ \A m \in Nat : a.reacts <= m /\ u.v.reacts <= m => reacts <= m
    BY <1>0 DEF Larger, Versions
  <2> HIDE DEF reacts
  <2>3. /\ ApplyUpdate(a, u) \in Versions /\ ApplyUpdate(a, u).st = "live"
        /\ ApplyUpdate(a, u).rev = a.rev /\ ApplyUpdate(a, u).reacts = reacts
    BY <1>3, <2>1, <2>2 DEF Versions
  <2>4. ASSUME NEW c \in Versions, Upto(a, c), Upto(u.v, c) PROVE Upto(ApplyUpdate(a, u), c)
    BY <1>0, <1>3, <2>2, <2>3, <2>4 DEF Upto, Versions
  <2> QED
    BY <1>3, <2>2, <2>3, <2>4 DEF Upto, Versions
<1>4. CASE u.kind = "reply" /\ a.st = "live"
  <2> DEFINE reply == MergeReply(a.reply, u.v.reply)
  <2>1. ApplyUpdate(a, u) = [a EXCEPT !.reply = reply]
    BY <1>4 DEF ApplyUpdate
  <2>2. reply \in Int
    BY <1>0 DEF MergeReply, Versions
  <2> HIDE DEF reply
  <2>3. /\ ApplyUpdate(a, u) \in Versions /\ ApplyUpdate(a, u).st = a.st
        /\ ApplyUpdate(a, u).rev = a.rev /\ ApplyUpdate(a, u).reacts = a.reacts
    BY <2>1, <2>2 DEF Versions
  <2> QED
    BY <1>4, <2>3 DEF Upto, Versions
<1> QED
  BY <1>1, <1>2, <1>3, <1>4 DEF Updates

-----------------------------------------------------------------------------
(* The flows: a watch that is asked for, a message added, one taken.           *)
Rewatched(f, g) ==
    g \in Flows /\ \A w \in Wires : g[w].down = f[w].down /\ g[w].st \in {f[w].st, "asked"}

LEMMA SafeWatchFacts ==
    ASSUME NEW k \in 0 .. MaxLog, NEW f \in Flows, Bounded(f, k), NEW w \in Wires, NEW arg \in 0 .. k,
           NEW delay \in BOOLEAN
    PROVE  Rewatched(f, SafeWatch(f, w, arg, delay)) /\ Bounded(SafeWatch(f, w, arg, delay), k)
<1>1. arg \in 0 .. MaxLog /\ k \in Nat
  BY ConstantsAssumption
<1>2. CASE Open(f, w) \/ f[w].retry # Never
  BY <1>2 DEF SafeWatch, Rewatched
<1>3. CASE ~(Open(f, w) \/ f[w].retry # Never) /\ delay
  <2>1. SafeWatch(f, w, arg, delay) = [f EXCEPT ![w].retry = arg]
    BY <1>3 DEF SafeWatch
  <2>2. [f EXCEPT ![w].retry = arg] \in Flows
    BY <1>1 DEF Flows, OneFlow
  <2>3. \A v \in Wires : /\ [f EXCEPT ![w].retry = arg][v].down = f[v].down
                         /\ [f EXCEPT ![w].retry = arg][v].st = f[v].st
                         /\ [f EXCEPT ![w].retry = arg][v].arg = f[v].arg
                         /\ [f EXCEPT ![w].retry = arg][v].retry = IF v = w THEN arg ELSE f[v].retry
    BY DEF Flows, OneFlow
  <2> QED
    BY <1>1, <2>1, <2>2, <2>3 DEF Rewatched, Bounded
<1>4. CASE ~(Open(f, w) \/ f[w].retry # Never) /\ ~delay
  <2> DEFINE g == [f EXCEPT ![w].st = "asked", ![w].arg = arg]
  <2>1. SafeWatch(f, w, arg, delay) = g
    BY <1>4 DEF SafeWatch
  <2>2. g[w] = [f[w] EXCEPT !.st = "asked", !.arg = arg] /\ \A v \in Wires \ {w} : g[v] = f[v]
    BY DEF Flows
  <2>5. DOMAIN g = Wires /\ g = [v \in Wires |-> g[v]] /\ f[w] \in OneFlow
    BY DEF Flows
  <2> HIDE DEF g
  <2>3. g[w] \in OneFlow /\ g[w].down = f[w].down /\ g[w].st = "asked" /\ g[w].arg = arg
        /\ g[w].retry = f[w].retry
    BY <1>1, <2>2, <2>5 DEF OneFlow
  <2>4. g \in Flows
    BY <2>2, <2>3, <2>5 DEF Flows
  <2>6. Rewatched(f, g)
    BY <2>2, <2>3, <2>4 DEF Rewatched
  <2>7. Bounded(g, k)
    <3>1. arg <= k /\ \A v \in Wires : f[v].arg <= k /\ f[v].retry <= k
      BY <1>1 DEF Bounded
    <3> QED
      BY <2>2, <2>3, <3>1 DEF Bounded
  <2> QED
    BY <2>1, <2>6, <2>7
<1> QED
  BY <1>2, <1>3, <1>4

LEMMA RewatchAgain ==
    ASSUME NEW f, NEW g, NEW h, Rewatched(f, g), Rewatched(g, h)
    PROVE  Rewatched(f, h)
BY DEF Rewatched

LEMMA StartUpdatesFacts ==
    ASSUME NEW k \in 0 .. MaxLog, NEW f \in Flows, Bounded(f, k), NEW c \in Posts, Within(c, k),
           NEW delay \in BOOLEAN
    PROVE  Rewatched(f, StartUpdates(f, c, delay)) /\ Bounded(StartUpdates(f, c, delay), k)
BY EndsIn, SafeWatchFacts DEF StartUpdates, Wires

LEMMA SyncBacklogFacts ==
    ASSUME NEW k \in 0 .. MaxLog, NEW f \in Flows, Bounded(f, k), NEW c \in Posts, Within(c, k),
           NEW delay \in BOOLEAN
    PROVE  Rewatched(f, SyncBacklog(f, c, delay)) /\ Bounded(SyncBacklog(f, c, delay), k)
<1>1. Rewatched(f, f)
  BY DEF Rewatched
<1> QED
  BY <1>1, EndsIn, SafeWatchFacts DEF SyncBacklog, Wires

LEMMA SafeSubFacts ==
    ASSUME NEW k \in 0 .. MaxLog, NEW f \in Flows, Bounded(f, k), NEW c \in Posts, Within(c, k),
           NEW delay \in BOOLEAN
    PROVE  Rewatched(f, SafeSub(f, c, delay)) /\ Bounded(SafeSub(f, c, delay), k)
<1>1. Rewatched(f, f) /\ 0 \in 0 .. k
  BY ConstantsAssumption DEF Rewatched
<1> QED
  BY <1>1, StartUpdatesFacts, SafeWatchFacts DEF SafeSub, Wires

(* What is on its way is not changed by a watch.                              *)
LEMMA RewatchKeeps ==
    ASSUME NEW f, NEW g, NEW r, NEW lg, NEW ps, NEW k, NEW s, NEW len,
           Grounded(f, r, lg, ps), Ordered(f, r, k, s, len), Rewatched(f, g), Bounded(g, k)
    PROVE  Grounded(g, r, lg, ps) /\ Ordered(g, r, k, s, len)
BY DEF Grounded, Ordered, SnapsOK, Rewatched, Wires

-----------------------------------------------------------------------------
LEMMA SignFacts ==
    ASSUME NEW kind \in {"kick", "nack", "logs", "checkpoint"}
    PROVE  /\ Sign(kind) \in Signs /\ Sign(kind).kind = kind /\ Sign(kind).us = <<>>
           /\ Sign(kind).posts = Empty /\ Sign(kind).at = 0 /\ Len(Sign(kind).us) = 0
BY AbsentTyped, ConstantsAssumption, EmptySeq DEF Sign, Signs, Posts

LEMMA SignGrounded ==
    ASSUME NEW kind \in {"kick", "nack"}, NEW lg \in Seq(Updates), NEW ps
    PROVE  SignOK(Sign(kind), lg, ps)
<1>1. Len(lg) \in Nat
  BY LenProperties
<1> QED
  BY <1>1, SignFacts, AbsentTyped DEF SignOK, Upto, Empty, Absent

LEMMA FlowSeq ==
    ASSUME NEW f \in Flows, NEW w \in Wires
    PROVE  f[w] \in OneFlow /\ f[w].down \in Seq(Signs) /\ Len(f[w].down) \in Nat
           /\ \A n \in 1 .. Len(f[w].down) : f[w].down[n] \in Signs /\ f[w].down[n].us \in Seq(Updates)
                                             /\ Len(f[w].down[n].us) \in Nat
<1>1. f[w] \in OneFlow /\ f[w].down \in Seq(Signs)
  BY DEF Flows, OneFlow
<1>2. ASSUME NEW n \in 1 .. Len(f[w].down)
      PROVE  f[w].down[n] \in Signs /\ f[w].down[n].us \in Seq(Updates)
  <2>1. f[w].down[n] \in Signs
    BY <1>1, ElementOfSeq
  <2> QED
    BY <2>1 DEF Signs
<1> QED
  BY <1>1, <1>2, LenProperties

LEMMA AheadAppend ==
    ASSUME NEW d \in Seq(Signs), NEW q \in Signs, NEW r, NEW n \in 1 .. Len(d) + 1, NEW t
    PROVE  Ahead(Append(d, q), r, n, t) <=> Ahead(d, r, n, t)
<1>1. Len(d) \in Nat /\ \A m \in 1 .. n - 1 : Append(d, q)[m] = d[m]
  BY LenProperties, AppendProperties
<1> QED
  BY <1>1 DEF Ahead

LEMMA AheadMore ==
    ASSUME NEW d, NEW r, NEW n \in Nat, NEW m \in Nat, m <= n, NEW t, Ahead(d, r, m, t)
    PROVE  Ahead(d, r, n, t)
BY DEF Ahead

(* The host adds message q to the flow of w, and its watch is then in st.      *)
Suits(q, w, d, r, k, s) ==
    /\ w = "checkpoint" /\ q.kind = "checkpoint" => s <= q.at
    /\ w = "backlog" => Within(q.posts, k)
    /\ w = "updates" => \A j \in 1 .. Len(q.us) :
            \/ q.us[j].time <= k + 1
            \/ j > 1 /\ q.us[j - 1].time = q.us[j].time - 1
            \/ Ahead(d, r, Len(d) + 1, q.us[j].time - 1)

Adds(f, g, w, q, st) == g = [f EXCEPT ![w].st = st, ![w].down = Append(@, q)]

LEMMA AddFacts ==
    ASSUME NEW f \in Flows, NEW w \in Wires, NEW q \in Signs, NEW st \in {"none", "live", "asked"},
           NEW g, Adds(f, g, w, q, st)
    PROVE  /\ g \in Flows /\ g[w].st = st /\ g[w].down = Append(f[w].down, q)
           /\ g[w].arg = f[w].arg /\ g[w].retry = f[w].retry
           /\ \A v \in Wires \ {w} : g[v] = f[v]
<1>1. f[w].down \in Seq(Signs)
  BY FlowSeq
<1> DEFINE d == Append(f[w].down, q)
<1>2. d \in Seq(Signs)
  BY <1>1, AppendProperties
<1>3. g = [f EXCEPT ![w].st = st, ![w].down = d]
  BY DEF Flows, OneFlow, Adds
<1> HIDE DEF d
<1>4. g[w] = [f[w] EXCEPT !.st = st, !.down = d] /\ \A v \in Wires \ {w} : g[v] = f[v]
  BY <1>3 DEF Flows
<1>5. g[w] \in OneFlow /\ g[w].st = st /\ g[w].down = d /\ g[w].arg = f[w].arg /\ g[w].retry = f[w].retry
  <2>1. f[w] \in OneFlow /\ d \in Seq(Signs)
    BY <1>2 DEF Flows
  <2> QED
    BY <1>4, <2>1 DEF OneFlow
<1>6. g \in Flows
  BY <1>3, <1>4, <1>5 DEF Flows
<1> QED
  BY <1>4, <1>5, <1>6 DEF d

LEMMA AddKeeps ==
    ASSUME NEW f \in Flows, NEW w \in Wires, NEW q \in Signs, NEW st \in {"none", "live", "asked"},
           NEW g, Adds(f, g, w, q, st),
           NEW r, NEW lg, NEW ps, NEW k \in Nat, NEW s \in Nat, NEW len \in Nat, NEW len1 \in Nat,
           Grounded(f, r, lg, ps), Ordered(f, r, k, s, len1), SignOK(q, lg, ps),
           Suits(q, w, f[w].down, r, k, s),
           w = "updates" /\ st = "live" => TipOK(Append(f[w].down, q), r, k, len),
           w # "updates" => f["updates"].st # "live" \/ len = len1
    PROVE  g \in Flows /\ Grounded(g, r, lg, ps) /\ Ordered(g, r, k, s, len)
<1>1. /\ g \in Flows /\ g[w].st = st /\ g[w].down = Append(f[w].down, q)
      /\ g[w].arg = f[w].arg /\ g[w].retry = f[w].retry
      /\ \A v \in Wires \ {w} : g[v] = f[v]
  BY AddFacts
<1>2. /\ f[w].down \in Seq(Signs) /\ Len(f[w].down) \in Nat
      /\ Len(g[w].down) = Len(f[w].down) + 1
      /\ \A n \in 1 .. Len(f[w].down) : g[w].down[n] = f[w].down[n]
      /\ g[w].down[Len(f[w].down) + 1] = q
  <2>1. f[w].down \in Seq(Signs) /\ Len(f[w].down) \in Nat
    BY FlowSeq
  <2> QED
    BY <1>1, <2>1, AppendProperties
<1>3. Grounded(g, r, lg, ps)
  <2>1. ASSUME NEW v \in Wires, NEW n \in 1 .. Len(g[v].down) PROVE SignOK(g[v].down[n], lg, ps)
    <3>1. CASE v # w
      BY <1>1, <3>1 DEF Grounded
    <3>2. CASE v = w /\ n = Len(f[w].down) + 1
      BY <1>2, <3>2
    <3>3. CASE v = w /\ n # Len(f[w].down) + 1
      <4>1. n \in 1 .. Len(f[w].down)
        BY <1>2, <3>3
      <4> QED
        BY <1>2, <3>3, <4>1 DEF Grounded
    <3> QED
      BY <3>1, <3>2, <3>3
  <2> QED
    BY <2>1 DEF Grounded
<1>4. Bounded(g, k)
  BY <1>1 DEF Ordered, Bounded
<1>9. \A v \in Wires : v = w => /\ Len(g[v].down) = Len(f[v].down) + 1 /\ Len(f[v].down) \in Nat
                               /\ \A n \in 1 .. Len(f[v].down) : g[v].down[n] = f[v].down[n]
  BY <1>2
<1>5. SnapsOK(g, k, s)
  <2>1. ASSUME NEW n \in 1 .. Len(g["checkpoint"].down), g["checkpoint"].down[n].kind = "checkpoint"
        PROVE  s <= g["checkpoint"].down[n].at
    <3>1. CASE w # "checkpoint"
      BY <1>1, <2>1, <3>1 DEF Ordered, SnapsOK, Wires
    <3>2. CASE w = "checkpoint" /\ n = Len(f[w].down) + 1
      BY <1>2, <2>1, <3>2 DEF Suits
    <3>3. CASE w = "checkpoint" /\ n # Len(f["checkpoint"].down) + 1
      <4>0. /\ Len(g["checkpoint"].down) = Len(f["checkpoint"].down) + 1 /\ Len(f["checkpoint"].down) \in Nat
            /\ \A m \in 1 .. Len(f["checkpoint"].down) : g["checkpoint"].down[m] = f["checkpoint"].down[m]
        BY <1>9, <3>3 DEF Wires
      <4>1. n \in 1 .. Len(f["checkpoint"].down)
        BY <3>3, <4>0
      <4> QED
        BY <2>1, <4>0, <4>1 DEF Ordered, SnapsOK
    <3> QED
      BY <3>1, <3>2, <3>3
  <2>2. ASSUME NEW n \in 1 .. Len(g["backlog"].down) PROVE Within(g["backlog"].down[n].posts, k)
    <3>1. CASE w # "backlog"
      BY <1>1, <2>2, <3>1 DEF Ordered, SnapsOK, Wires
    <3>2. CASE w = "backlog" /\ n = Len(f[w].down) + 1
      BY <1>2, <2>2, <3>2 DEF Suits
    <3>3. CASE w = "backlog" /\ n # Len(f["backlog"].down) + 1
      <4>0. /\ Len(g["backlog"].down) = Len(f["backlog"].down) + 1 /\ Len(f["backlog"].down) \in Nat
            /\ \A m \in 1 .. Len(f["backlog"].down) : g["backlog"].down[m] = f["backlog"].down[m]
        BY <1>9, <3>3 DEF Wires
      <4>1. n \in 1 .. Len(f["backlog"].down)
        BY <3>3, <4>0
      <4>2. Within(f["backlog"].down[n].posts, k)
        BY <4>1 DEF Ordered, SnapsOK
      <4>3. g["backlog"].down[n] = f["backlog"].down[n]
        BY <4>0, <4>1
      <4> QED
        BY <4>2, <4>3
    <3> QED
      BY <3>1, <3>2, <3>3
  <2> QED
    BY <2>1, <2>2 DEF SnapsOK
<1>6. StreamOK(g["updates"].down, r, k)
  <2>1. CASE w # "updates"
    BY <1>1, <2>1 DEF Ordered, Wires
  <2>2. CASE w = "updates"
    <3> DEFINE d == f["updates"].down
               e == g["updates"].down
    <3>1. ASSUME NEW n \in 1 .. Len(e), NEW j \in 1 .. Len(e[n].us)
          PROVE  \/ e[n].us[j].time <= k + 1
                 \/ j > 1 /\ e[n].us[j - 1].time = e[n].us[j].time - 1
                 \/ Ahead(e, r, n, e[n].us[j].time - 1)
      <4>1. n \in 1 .. Len(d) + 1 /\ e = Append(d, q) /\ d \in Seq(Signs)
        BY <1>1, <1>2, <2>2
      <4> HIDE DEF d, e
      <4>2. Ahead(e, r, n, e[n].us[j].time - 1) <=> Ahead(d, r, n, e[n].us[j].time - 1)
        BY <4>1, AheadAppend
      <4>3. CASE n = Len(d) + 1
        <5>1. e[n] = q /\ d = f[w].down
          BY <1>2, <2>2, <4>3 DEF d, e
        <5> QED
          BY <2>2, <4>2, <4>3, <5>1 DEF Suits
      <4>4. CASE n # Len(d) + 1
        <5>1. n \in 1 .. Len(d) /\ e[n] = d[n]
          BY <1>2, <2>2, <4>1, <4>4 DEF d, e
        <5>2. StreamOK(d, r, k)
          BY DEF Ordered, d
        <5> QED
          BY <4>2, <5>1, <5>2 DEF StreamOK
      <4> QED
        BY <4>3, <4>4
    <3> QED
      BY <3>1 DEF StreamOK
  <2> QED
    BY <2>1, <2>2
<1>7. g["updates"].st = "live" => TipOK(g["updates"].down, r, k, len)
  BY <1>1 DEF Ordered, Wires
<1> QED
  BY <1>1, <1>3, <1>4, <1>5, <1>6, <1>7 DEF Ordered

-----------------------------------------------------------------------------
(* The subscriber takes the first message of w.                               *)
Drops(f, g, w) == f[w].down # <<>> /\ g = [f EXCEPT ![w].down = Tail(@)]

LEMMA TakeFacts ==
    ASSUME NEW f \in Flows, NEW w \in Wires, NEW g, Drops(f, g, w)
    PROVE  /\ g \in Flows /\ g[w].st = f[w].st /\ g[w].down = Tail(f[w].down)
           /\ g[w].arg = f[w].arg /\ g[w].retry = f[w].retry
           /\ \A v \in Wires \ {w} : g[v] = f[v]
           /\ Head(f[w].down) = f[w].down[1] /\ Len(g[w].down) = Len(f[w].down) - 1 /\ Len(f[w].down) \in Nat \ {0}
           /\ \A n \in 1 .. Len(g[w].down) : g[w].down[n] = f[w].down[n + 1]
<1>1. f[w].down \in Seq(Signs)
  BY FlowSeq
<1> DEFINE d == Tail(f[w].down)
<1>2. /\ d \in Seq(Signs) /\ Len(d) = Len(f[w].down) - 1
      /\ \A n \in 1 .. Len(d) : d[n] = f[w].down[n + 1]
      /\ Len(f[w].down) \in Nat \ {0}
  BY <1>1, HeadTailProperties, EmptySeq DEF Drops
<1>3. Head(f[w].down) = f[w].down[1]
  BY <1>1
<1>4. g = [f EXCEPT ![w].down = d]
  BY DEF Flows, OneFlow, Drops
<1> HIDE DEF d
<1>5. g[w] = [f[w] EXCEPT !.down = d] /\ \A v \in Wires \ {w} : g[v] = f[v]
  BY <1>4 DEF Flows
<1>6. g[w] \in OneFlow /\ g[w].st = f[w].st /\ g[w].down = d /\ g[w].arg = f[w].arg /\ g[w].retry = f[w].retry
  <2>1. f[w] \in OneFlow /\ d \in Seq(Signs)
    BY <1>2 DEF Flows
  <2> QED
    BY <1>5, <2>1 DEF OneFlow
<1>7. g \in Flows
  BY <1>4, <1>5, <1>6 DEF Flows
<1> QED
  BY <1>2, <1>3, <1>5, <1>6, <1>7 DEF d

(* What was ahead still is, if what was taken is being handled or held none.   *)
LEMMA AheadTaken ==
    ASSUME NEW d, NEW e, NEW r, NEW r1, Len(d) \in Nat \ {0}, Len(e) = Len(d) - 1,
           \A n \in 1 .. Len(e) : e[n] = d[n + 1],
           \/ r1 = r /\ Len(d[1].us) = 0
           \/ Len(r) = 0 /\ r1 = d[1].us,
           NEW n \in 1 .. Len(d), NEW t, Ahead(d, r, n + 1, t)
    PROVE  Ahead(e, r1, n, t)
<1>1. CASE \E j \in 1 .. Len(r) : r[j].time = t
  <2>1. r1 = r
    BY <1>1
  <2> QED
    BY <1>1, <2>1 DEF Ahead
<1>2. ASSUME NEW m \in 1 .. n, NEW j \in 1 .. Len(d[m].us), d[m].us[j].time = t
      PROVE  Ahead(e, r1, n, t)
  <2>1. CASE m = 1
    BY <1>2, <2>1 DEF Ahead
  <2>2. CASE m # 1
    <3>1. m - 1 \in 1 .. n - 1 /\ m - 1 \in 1 .. Len(e) /\ e[m - 1] = d[m]
      BY <2>2
    <3> QED
      BY <1>2, <3>1 DEF Ahead
  <2> QED
    BY <2>1, <2>2
<1>3. CASE \E m \in 1 .. n + 1 - 1 : \E j \in 1 .. Len(d[m].us) : d[m].us[j].time = t
  <2>1. PICK m \in 1 .. n + 1 - 1 : \E j \in 1 .. Len(d[m].us) : d[m].us[j].time = t
    BY <1>3
  <2>2. m \in 1 .. n
    OBVIOUS
  <2> QED
    BY <1>2, <2>1, <2>2
<1>4. \/ \E j \in 1 .. Len(r) : r[j].time = t
      \/ \E m \in 1 .. n + 1 - 1 : \E j \in 1 .. Len(d[m].us) : d[m].us[j].time = t
  BY DEF Ahead
<1> QED
  BY <1>1, <1>3, <1>4

LEMMA TakeKeeps ==
    ASSUME NEW f \in Flows, NEW w \in Wires, NEW g, Drops(f, g, w),
           NEW r, NEW r1, NEW lg, NEW ps, NEW k \in Nat, NEW s, NEW len,
           Grounded(f, r, lg, ps), Ordered(f, r, k, s, len),
           \/ r1 = r /\ Head(f[w].down).kind # "logs"
           \/ w = "updates" /\ Len(r) = 0 /\ r1 = Head(f[w].down).us
    PROVE  g \in Flows /\ Grounded(g, r1, lg, ps) /\ Ordered(g, r1, k, s, len)
<1>1. /\ g \in Flows /\ g[w].st = f[w].st
      /\ g[w].arg = f[w].arg /\ g[w].retry = f[w].retry
      /\ \A v \in Wires \ {w} : g[v] = f[v]
      /\ Head(f[w].down) = f[w].down[1] /\ Len(g[w].down) = Len(f[w].down) - 1 /\ Len(f[w].down) \in Nat \ {0}
      /\ \A n \in 1 .. Len(g[w].down) : g[w].down[n] = f[w].down[n + 1]
  BY TakeFacts
<1>2. SignOK(f[w].down[1], lg, ps)
  BY <1>1 DEF Grounded
<1>3. Grounded(g, r1, lg, ps)
  <2>1. \A j \in 1 .. Len(r1) : UpOK(r1[j], lg)
    BY <1>1, <1>2 DEF Grounded, SignOK
  <2>2. ASSUME NEW v \in Wires, NEW n \in 1 .. Len(g[v].down) PROVE SignOK(g[v].down[n], lg, ps)
    <3>1. CASE v # w
      BY <1>1, <3>1 DEF Grounded
    <3>2. CASE v = w
      <4>1. n + 1 \in 1 .. Len(f[w].down) /\ g[v].down[n] = f[w].down[n + 1]
        <5>1. n \in 1 .. Len(g[w].down) /\ g[v].down[n] = g[w].down[n]
          BY <3>2
        <5>2. PICK x \in Nat \ {0} : x = Len(f[w].down)
          BY <1>1
        <5>3. n \in 1 .. x - 1
          BY <1>1, <5>1, <5>2
        <5>4. n + 1 \in 1 .. x
          BY <5>3
        <5> QED
          BY <1>1, <5>1, <5>2, <5>4
      <4> QED
        BY <4>1 DEF Grounded
    <3> QED
      BY <3>1, <3>2
  <2> QED
    BY <2>1, <2>2 DEF Grounded
<1>4. Bounded(g, k)
  BY <1>1 DEF Ordered, Bounded
<1>5. SnapsOK(g, k, s)
  <2>1. ASSUME NEW n \in 1 .. Len(g["checkpoint"].down), g["checkpoint"].down[n].kind = "checkpoint"
        PROVE  s <= g["checkpoint"].down[n].at
    <3>1. \E m \in 1 .. Len(f["checkpoint"].down) : g["checkpoint"].down[n] = f["checkpoint"].down[m]
      <4>1. CASE w = "checkpoint"
        <5>1. n + 1 \in 1 .. Len(f["checkpoint"].down)
          BY <1>1, <4>1
        <5> QED
          BY <1>1, <4>1, <5>1
      <4>2. CASE w # "checkpoint"
        BY <1>1, <4>2 DEF Wires
      <4> QED
        BY <4>1, <4>2
    <3> QED
      BY <2>1, <3>1 DEF Ordered, SnapsOK
  <2>2. ASSUME NEW n \in 1 .. Len(g["backlog"].down) PROVE Within(g["backlog"].down[n].posts, k)
    <3>1. \E m \in 1 .. Len(f["backlog"].down) : g["backlog"].down[n] = f["backlog"].down[m]
      <4>1. CASE w = "backlog"
        <5>1. n + 1 \in 1 .. Len(f["backlog"].down)
          BY <1>1, <4>1
        <5> QED
          BY <1>1, <4>1, <5>1
      <4>2. CASE w # "backlog"
        BY <1>1, <4>2 DEF Wires
      <4> QED
        BY <4>1, <4>2
    <3> QED
      BY <3>1 DEF Ordered, SnapsOK
  <2> QED
    BY <2>1, <2>2 DEF SnapsOK
<1>6. RollOK(r1, k) /\ StreamOK(g["updates"].down, r1, k)
      /\ (g["updates"].st = "live" => TipOK(g["updates"].down, r1, k, len))
  <2>1. CASE w # "updates"
    BY <1>1, <2>1 DEF Ordered, Wires
  <2>2. CASE w = "updates"
    <3> DEFINE d == f["updates"].down
               e == g["updates"].down
    <3>1. \/ r1 = r /\ Len(d[1].us) = 0
          \/ Len(r) = 0 /\ r1 = d[1].us
      BY <1>1, <1>2, <2>2 DEF SignOK
    <3>2. Len(d) \in Nat \ {0} /\ Len(e) = Len(d) - 1 /\ \A n \in 1 .. Len(e) : e[n] = d[n + 1]
      BY <1>1, <2>2
    <3>3. StreamOK(d, r, k) /\ RollOK(r, k) /\ (f["updates"].st = "live" => TipOK(d, r, k, len))
      BY DEF Ordered
    <3> HIDE DEF d, e
    <3>4. \A n \in 1 .. Len(d) : \A t : Ahead(d, r, n + 1, t) => Ahead(e, r1, n, t)
      BY <3>1, <3>2, AheadTaken
    <3>5. RollOK(r1, k)
      <4>1. CASE r1 = r
        BY <3>3, <4>1
      <4>2. CASE Len(r) = 0 /\ r1 = d[1].us
        <5>1. 1 \in 1 .. Len(d) /\ \A t : ~Ahead(d, r, 1, t)
          BY <3>2, <4>2 DEF Ahead
        <5> QED
          BY <3>3, <4>2, <5>1 DEF StreamOK, RollOK
      <4> QED
        BY <3>1, <4>1, <4>2
    <3>6. StreamOK(e, r1, k)
      <4>1. ASSUME NEW n \in 1 .. Len(e), NEW j \in 1 .. Len(e[n].us)
            PROVE  \/ e[n].us[j].time <= k + 1
                   \/ j > 1 /\ e[n].us[j - 1].time = e[n].us[j].time - 1
                   \/ Ahead(e, r1, n, e[n].us[j].time - 1)
        <5>1. n + 1 \in 1 .. Len(d) /\ n \in 1 .. Len(d) /\ e[n] = d[n + 1]
          BY <3>2
        <5> QED
          BY <3>3, <3>4, <5>1 DEF StreamOK
      <4> QED
        BY <4>1 DEF StreamOK
    <3>7. TipOK(d, r, k, len) => TipOK(e, r1, k, len)
      <4>1. Len(e) + 1 = Len(d) /\ Len(d) \in 1 .. Len(d)
        BY <3>2
      <4> QED
        BY <3>4, <4>1 DEF TipOK
    <3> QED
      BY <1>1, <2>2, <3>3, <3>5, <3>6, <3>7 DEF d, e
  <2> QED
    BY <2>1, <2>2
<1> QED
  BY <1>1, <1>3, <1>4, <1>5, <1>6 DEF Ordered

-----------------------------------------------------------------------------
(* The host goes forward, and what was true of it stays so.                    *)
Grows(lg, ps, lg1, ps1) ==
    /\ Len(lg) <= Len(lg1) /\ \A t \in 1 .. Len(lg) : lg1[t] = lg[t]
    /\ \A i \in Time : Upto(ps[i], ps1[i])

LEMMA GrowsSign ==
    ASSUME NEW lg \in Seq(Updates), NEW lg1 \in Seq(Updates), NEW ps \in Posts, NEW ps1 \in Posts,
           Grows(lg, ps, lg1, ps1), NEW q \in Signs, SignOK(q, lg, ps)
    PROVE  SignOK(q, lg1, ps1)
<1>1. Len(lg) \in Nat /\ Len(lg1) \in Nat
  BY LenProperties
<1>2. \A j \in 1 .. Len(q.us) : UpOK(q.us[j], lg1)
  BY <1>1 DEF SignOK, UpOK, Grows
<1>3. ASSUME NEW i \in Time PROVE Upto(q.posts[i], ps1[i])
  <2>1. q.posts[i] \in Versions /\ ps[i] \in Versions /\ ps1[i] \in Versions
    BY DEF Signs, Posts
  <2> QED
    BY <2>1, UptoTransitive DEF SignOK, Grows
<1>4. q.at <= Len(lg1)
  BY <1>1, ConstantsAssumption DEF SignOK, Grows, Signs
<1> QED
  BY <1>2, <1>3, <1>4 DEF SignOK

LEMMA GrowsKeeps ==
    ASSUME NEW lg \in Seq(Updates), NEW lg1 \in Seq(Updates), NEW ps \in Posts, NEW ps1 \in Posts,
           Grows(lg, ps, lg1, ps1), NEW f \in Flows, NEW r, Grounded(f, r, lg, ps)
    PROVE  Grounded(f, r, lg1, ps1)
<1>1. Len(lg) \in Nat /\ Len(lg1) \in Nat
  BY LenProperties
<1>2. \A j \in 1 .. Len(r) : UpOK(r[j], lg1)
  BY <1>1 DEF Grounded, UpOK, Grows
<1>3. ASSUME NEW w \in Wires, NEW n \in 1 .. Len(f[w].down) PROVE SignOK(f[w].down[n], lg1, ps1)
  <2>1. f[w].down[n] \in Signs /\ SignOK(f[w].down[n], lg, ps)
    BY FlowSeq DEF Grounded
  <2> QED
    BY <2>1, GrowsSign
<1> QED
  BY <1>2, <1>3 DEF Grounded

LEMMA GrowsCopy ==
    ASSUME NEW lg, NEW lg1, NEW ps \in Posts, NEW ps1 \in Posts,
           Grows(lg, ps, lg1, ps1), NEW c \in Posts, NEW k, CopyOK(c, ps, k)
    PROVE  CopyOK(c, ps1, k)
<1>1. ASSUME NEW i \in Time PROVE Upto(c[i], ps1[i])
  <2>1. c[i] \in Versions /\ ps[i] \in Versions /\ ps1[i] \in Versions
    BY DEF Posts
  <2> QED
    BY <2>1, UptoTransitive DEF CopyOK, Grows
<1> QED
  BY <1>1 DEF CopyOK

-----------------------------------------------------------------------------
LEMMA TypeFacts ==
    ASSUME TypeOK
    PROVE  /\ log \in Seq(Updates) /\ Len(log) \in Nat /\ Len(log) <= MaxLog
           /\ posts \in Posts /\ copy \in Posts /\ flow \in Flows
           /\ rolling \in Seq(Updates) /\ cmds \in Seq(Message)
           /\ heard \in Nat /\ snap \in Nat /\ Reach \in Nat /\ MaxLog \in Nat
           /\ heard <= Reach /\ snap <= Reach /\ Reach \in {heard, snap}
<1>1. log \in Seq(Updates) /\ Len(log) \in Nat
  BY LenProperties DEF TypeOK
<1>2. heard \in Nat /\ snap \in Nat /\ MaxLog \in Nat
  BY ConstantsAssumption DEF TypeOK
<1>3. Reach \in Nat /\ heard <= Reach /\ snap <= Reach /\ Reach \in {heard, snap}
  BY <1>2 DEF Reach, Larger
<1> QED
  BY <1>1, <1>2, <1>3 DEF TypeOK, Posts, Flows, OneFlow

LEMMA ReachIn == ASSUME IInv PROVE Reach \in 0 .. MaxLog /\ Reach <= Len(log)
BY TypeFacts DEF IInv

(* Of the host: an update is logged and, if the subscriber watches, told.      *)
Published(id, v) ==
    /\ log' \in Seq(Updates) /\ Len(log') = Len(log) + 1 /\ Len(log') <= MaxLog
    /\ log'[Len(log')].id = id /\ log'[Len(log')].v = v
    /\ \A t \in 1 .. Len(log) : log'[t] = log[t]
    /\ posts' \in Posts /\ flow' \in Flows
    /\ Grows(log, posts, log', posts') /\ LogOK(log', posts')
    /\ Grounded(flow', rolling, log', posts')
    /\ Ordered(flow', rolling, Reach, snap, Len(log'))
    /\ posts' = [posts EXCEPT ![id] = v]

LEMMA LogsFacts ==
    ASSUME NEW us \in Seq(Updates)
    PROVE  /\ Logs(us) \in Signs /\ Logs(us).kind = "logs" /\ Logs(us).us = us
           /\ Logs(us).posts = Empty /\ Logs(us).at = 0
<1>1. /\ Sign("logs") \in Signs /\ Sign("logs").kind = "logs" /\ Sign("logs").posts = Empty
      /\ Sign("logs").at = 0
  BY SignFacts
<1> QED
  BY <1>1 DEF Logs, Signs

LEMMA LogsGrounded ==
    ASSUME NEW us \in Seq(Updates), NEW lg \in Seq(Updates), NEW ps, \A j \in 1 .. Len(us) : UpOK(us[j], lg)
    PROVE  SignOK(Logs(us), lg, ps)
<1>1. Len(lg) \in Nat
  BY LenProperties
<1>2. Logs(us).kind = "logs" /\ Logs(us).us = us /\ Logs(us).posts = Empty /\ Logs(us).at = 0
  BY LogsFacts
<1>3. \A i \in Time : Empty[i].st = "absent"
  BY DEF Empty, Absent
<1> QED
  BY <1>1, <1>2, <1>3 DEF SignOK, Upto, Within

LEMMA TellAdds ==
    ASSUME NEW w \in Wires, flow \in Flows, NEW q
    PROVE  /\ Adds(flow, Tell(w, q), w, q, flow[w].st)
           /\ \A st : Adds(flow, [Tell(w, q) EXCEPT ![w].st = st], w, q, st)
BY DEF Adds, Tell, Flows, OneFlow

LEMMA UpdateFacts ==
    ASSUME IInv, NEW id \in Time, NEW kind \in {"set", "reacts", "reply"}, NEW v \in Versions,
           Update(id, kind, v), Upto(posts[id], v), v.st # "absent", kind # "set" => v.st = "live",
           id <= Len(log) + 1, id = Len(log) + 1 => kind = "set" /\ v.st = "live"
    PROVE  Published(id, v)
<1> DEFINE u == [time |-> Len(log) + 1, id |-> id, kind |-> kind, v |-> v]
<1>1. /\ Len(log) < MaxLog /\ log' = Append(log, u) /\ posts' = [posts EXCEPT ![id] = v]
      /\ flow' = IF flow["updates"].st = "live" THEN Tell("updates", Logs(<<u>>)) ELSE flow
  BY DEF Update
<1>2. /\ log \in Seq(Updates) /\ Len(log) \in Nat /\ posts \in Posts /\ flow \in Flows /\ MaxLog \in Nat
      /\ Reach \in Nat /\ snap \in Nat
  BY TypeFacts DEF IInv
<1>3. u \in Updates /\ u.time = Len(log) + 1 /\ u.id = id /\ u.kind = kind /\ u.v = v
  <2>1. Len(log) + 1 \in Time
    BY <1>1, <1>2 DEF Time
  <2> QED
    BY <2>1 DEF Updates
<1> HIDE DEF u
<1>4. /\ log' \in Seq(Updates) /\ Len(log') = Len(log) + 1 /\ log'[Len(log) + 1] = u
      /\ \A t \in 1 .. Len(log) : log'[t] = log[t]
  BY <1>1, <1>2, <1>3, AppendProperties
<1>5. posts' \in Posts /\ posts'[id] = v /\ \A i \in Time \ {id} : posts'[i] = posts[i]
  BY <1>1, <1>2 DEF Posts
<1>6. \A i \in Time : Upto(posts[i], posts'[i])
  <2>1. ASSUME NEW i \in Time PROVE Upto(posts[i], posts'[i])
    <3>1. posts[i] \in Versions
      BY <1>2 DEF Posts
    <3> QED
      BY <1>5, <3>1, UptoSelf
  <2> QED
    BY <2>1
<1>7. Grows(log, posts, log', posts')
  BY <1>2, <1>4, <1>6 DEF Grows
<1>8. LogOK(log', posts')
  <2>1. ASSUME NEW t \in 1 .. Len(log') PROVE EntryOK(log'[t], t, posts')
    <3>1. CASE t = Len(log) + 1
      <4>1. Upto(v, v)
        BY UptoSelf
      <4> QED
        BY <1>3, <1>4, <1>5, <3>1, <4>1 DEF EntryOK
    <3>2. CASE t # Len(log) + 1
      <4>1. t \in 1 .. Len(log)
        BY <1>2, <1>4, <3>2
      <4>2. EntryOK(log[t], t, posts) /\ log[t] \in Updates
        BY <1>2, <4>1, ElementOfSeq DEF IInv, LogOK
      <4>3. log[t].id \in Time /\ log[t].v \in Versions
        BY <4>2 DEF Updates
      <4>4. posts[log[t].id] \in Versions /\ posts'[log[t].id] \in Versions
        BY <1>2, <1>5, <4>3 DEF Posts
      <4>5. Upto(log[t].v, posts'[log[t].id])
        BY <1>6, <4>2, <4>3, <4>4, UptoTransitive DEF EntryOK
      <4> QED
        BY <1>4, <4>1, <4>2, <4>5 DEF EntryOK
    <3> QED
      BY <3>1, <3>2
  <2>2. Within(posts', Len(log'))
    BY <1>2, <1>4, <1>5 DEF IInv, LogOK, Within, Time
  <2> QED
    BY <2>1, <2>2 DEF LogOK
<1>9. Grounded(flow, rolling, log', posts')
  BY <1>2, <1>4, <1>5, <1>7, GrowsKeeps DEF IInv
<1>10. Ordered(flow, rolling, Reach, snap, Len(log))
  BY DEF IInv
<1>11. CASE flow["updates"].st # "live"
  BY <1>1, <1>2, <1>3, <1>4, <1>5, <1>7, <1>8, <1>9, <1>10, <1>11 DEF Published, Ordered
<1>12. CASE flow["updates"].st = "live"
  <2> DEFINE q == Logs(<<u>>)
             d == flow["updates"].down
  <2>1. <<u>> \in Seq(Updates) /\ Len(<<u>>) = 1 /\ <<u>>[1] = u
    BY <1>3
  <2>2. q \in Signs /\ q.kind = "logs" /\ q.us = <<u>>
    BY <2>1, LogsFacts
  <2>3. SignOK(q, log', posts')
    <3>1. UpOK(u, log')
      BY <1>2, <1>3, <1>4 DEF UpOK
    <3>2. \A j \in 1 .. Len(<<u>>) : UpOK(<<u>>[j], log')
      BY <2>1, <3>1
    <3> HIDE DEF q
    <3>3. SignOK(Logs(<<u>>), log', posts')
      BY <1>4, <2>1, <3>2, LogsGrounded
    <3> QED
      BY <3>3 DEF q
  <2>4. d \in Seq(Signs) /\ Len(d) \in Nat /\ "updates" \in Wires
    BY <1>2, FlowSeq DEF Wires
  <2> HIDE DEF q
  <2>5. TipOK(d, rolling, Reach, Len(log))
    BY <1>10, <1>12 DEF Ordered
  <2>6. Suits(q, "updates", d, rolling, Reach, snap)
    <3>1. u.time <= Reach + 1 \/ Ahead(d, rolling, Len(d) + 1, u.time - 1)
      <4>1. PICK n \in Nat, k \in Nat : n = Len(log) /\ k = Reach
        BY <1>2
      <4>2. u.time = n + 1
        BY <1>3, <4>1
      <4>3. n <= k \/ Ahead(d, rolling, Len(d) + 1, n)
        BY <2>5, <4>1 DEF TipOK
      <4>4. u.time - 1 = n /\ (n <= k => u.time <= k + 1)
        BY <4>1, <4>2
      <4> QED
        BY <4>1, <4>3, <4>4
    <3>2. \A j \in 1 .. Len(q.us) : q.us[j] = u
      BY <2>1, <2>2
    <3>3. \A j \in 1 .. Len(q.us) :
            q.us[j].time <= Reach + 1 \/ Ahead(d, rolling, Len(d) + 1, q.us[j].time - 1)
      BY <3>1, <3>2
    <3> QED
      BY <2>2, <3>3 DEF Suits
  <2>7. TipOK(Append(d, q), rolling, Reach, Len(log'))
    <3>1. Len(Append(d, q)) = Len(d) + 1 /\ Append(d, q)[Len(d) + 1] = q
      BY <2>2, <2>4, AppendProperties
    <3> DEFINE e == Append(d, q)
    <3>3. Len(e) = Len(d) + 1 /\ e[Len(d) + 1] = q
      BY <3>1
    <3> HIDE DEF e, d
    <3>2. Len(d) + 1 \in 1 .. Len(e) + 1 - 1 /\ 1 \in 1 .. Len(e[Len(d) + 1].us)
          /\ e[Len(d) + 1].us[1].time = Len(log')
      BY <1>3, <1>4, <2>1, <2>2, <2>4, <3>3
    <3>4. Ahead(e, rolling, Len(e) + 1, Len(log'))
      BY <3>2 DEF Ahead
    <3> QED
      BY <3>4 DEF TipOK, e
  <2>8. Adds(flow, flow', "updates", q, "live")
    BY <1>1, <1>2, <1>12, <2>4, TellAdds DEF q
  <2>9. Len(log') \in Nat
    BY <1>2, <1>4
  <2>10. flow' \in Flows /\ Grounded(flow', rolling, log', posts')
         /\ Ordered(flow', rolling, Reach, snap, Len(log'))
    BY <1>2, <1>9, <1>10, <2>2, <2>3, <2>4, <2>6, <2>7, <2>8, <2>9, AddKeeps
  <2> QED
    BY <1>1, <1>2, <1>3, <1>4, <1>5, <1>7, <1>8, <2>10 DEF Published
<1> QED
  BY <1>11, <1>12


-----------------------------------------------------------------------------
(* What is pending stays true if nothing of it is heard or dropped.            *)
LEMMA PendingStill ==
    ASSUME PendingIsTrue, log \in Seq(Updates), log' \in Seq(Updates), Len(log) <= Len(log'),
           \A t \in 1 .. Len(log) : log'[t] = log[t],
           pending' \subseteq pending, cmds' = cmds, refused \subseteq refused',
           \A t \in 1 .. Len(log) : \A m \in pending' :
              t \in Posting(m) /\ (t > heard \/ t <= snap) => t > heard' \/ t <= snap'
    PROVE  PendingIsTrue'
<1>1. /\ DOMAIN log = 1 .. Len(log) /\ DOMAIN log' = 1 .. Len(log')
      /\ Len(log) \in Nat /\ Len(log') \in Nat
  BY LenProperties
<1>2. ASSUME NEW m \in pending', NEW t \in Posting(m), t > heard \/ t <= snap
      PROVE  \E t1 \in Posting(m)' : t1 > heard' \/ t1 <= snap'
  <2>1. t \in 1 .. Len(log) /\ t \in 1 .. Len(log') /\ log'[t] = log[t]
    BY <1>1 DEF Posting
  <2>2. t \in Posting(m)'
    BY <1>1, <2>1 DEF Posting
  <2> QED
    BY <1>2, <2>1, <2>2
<1> QED
  BY <1>2 DEF PendingIsTrue

LEMMA TombstoneFacts ==
    ASSUME NEW v \in Versions PROVE Tombstone(v) \in Versions /\ Tombstone(v).st = "dead"
<1> PICK a \in Versions : a = Absent
  BY AbsentTyped
<1> PICK w : w = [a EXCEPT !.st = "dead", !.seq = v.seq]
  OBVIOUS
<1>1. w \in Versions /\ w.st = "dead"
  BY DEF Versions
<1>2. Tombstone(v) = w
  BY Zenon DEF Tombstone
<1> QED
  BY <1>1, <1>2

LEMMA AddPublishes ==
    ASSUME IInv, NEW m \in Message \cup {NoMessage}, Add(m)
    PROVE  /\ Len(log) + 1 \in Time /\ total' \in Nat
           /\ \E v \in Versions : v.msg = m /\ Published(Len(log) + 1, v)
<1> DEFINE v == [Absent EXCEPT !.st = "live", !.seq = total + 1, !.msg = m]
<1>1. Len(log) \in Nat /\ MaxLog \in Nat /\ total \in Nat /\ posts \in Posts /\ Within(posts, Len(log))
  BY TypeFacts DEF IInv, TypeOK, LogOK
<1>2. total' = total + 1 /\ Update(Len(log) + 1, "set", v) /\ Len(log) < MaxLog
  BY DEF Add, Update
<1>3. v \in Versions /\ v.st = "live" /\ v.msg = m
  <2> PICK a \in Versions : a = Absent
    BY AbsentTyped
  <2> PICK n \in Nat : n = total + 1
    BY <1>1
  <2> PICK w : w = [a EXCEPT !.st = "live", !.seq = n, !.msg = m]
    OBVIOUS
  <2>1. w \in Versions /\ w.st = "live" /\ w.msg = m
    BY DEF Versions
  <2>2. v = w
    BY Zenon
  <2> HIDE DEF v
  <2> QED
    BY <2>1, <2>2
<1> HIDE DEF v
<1>4. Len(log) + 1 \in Time
  BY <1>1, <1>2 DEF Time
<1>5. posts[Len(log) + 1].st = "absent"
  BY <1>1, <1>4 DEF Within
<1>6. Published(Len(log) + 1, v)
  BY <1>2, <1>3, <1>4, <1>5, <1>1, UpdateFacts DEF Upto
<1> QED
  BY <1>1, <1>2, <1>3, <1>4, <1>6

LEMMA RevisedPublishes ==
    ASSUME IInv, NEW id \in Time, posts[id].st = "live", Revised(id)
    PROVE  \E v \in Versions : Published(id, v)
<1> DEFINE v == posts[id]
<1>1. v \in Versions /\ v.st = "live" /\ id <= Len(log) /\ Len(log) \in Nat /\ Upto(v, v)
  BY TypeFacts, UptoSelf DEF IInv, LogOK, Within, Posts
<1>2. id <= Len(log) + 1 /\ id # Len(log) + 1
  BY <1>1 DEF Time
<1> HIDE DEF v
<1>3. \/ Update(id, "set", [v EXCEPT !.rev = @ + 1])
      \/ Update(id, "set", Tombstone(v))
      \/ Update(id, "reacts", [v EXCEPT !.reacts = @ + 1])
      \/ \E reply \in Int : Update(id, "reply", [v EXCEPT !.reply = reply])
  <2>1. v.reply + 1 \in Int /\ Deleted \in Int
    BY <1>1 DEF Versions, Deleted
  <2> QED
    BY <2>1 DEF Revised, v
<1>4. CASE Update(id, "set", [v EXCEPT !.rev = @ + 1])
  <2> DEFINE w == [v EXCEPT !.rev = @ + 1]
  <2>1. w \in Versions /\ w.st = "live" /\ w.rev = v.rev + 1 /\ w.reacts = v.reacts
    BY <1>1 DEF Versions
  <2> HIDE DEF w
  <2>2. Upto(v, w)
    BY <1>1, <2>1 DEF Upto, Versions
  <2> QED
    BY <1>2, <1>4, <2>1, <2>2, UpdateFacts DEF v, w
<1>5. CASE Update(id, "set", Tombstone(v))
  <2>1. Tombstone(v) \in Versions /\ Tombstone(v).st = "dead"
    BY <1>1, TombstoneFacts
  <2>2. Upto(v, Tombstone(v))
    BY <2>1 DEF Upto
  <2> QED
    BY <1>2, <1>5, <2>1, <2>2, UpdateFacts DEF v
<1>6. CASE Update(id, "reacts", [v EXCEPT !.reacts = @ + 1])
  <2> DEFINE w == [v EXCEPT !.reacts = @ + 1]
  <2>1. w \in Versions /\ w.st = "live" /\ w.rev = v.rev /\ w.reacts = v.reacts + 1
    BY <1>1 DEF Versions
  <2> HIDE DEF w
  <2>2. Upto(v, w)
    BY <1>1, <2>1 DEF Upto, Versions
  <2> QED
    BY <1>2, <1>6, <2>1, <2>2, UpdateFacts DEF v, w
<1>7. ASSUME NEW reply \in Int, Update(id, "reply", [v EXCEPT !.reply = reply])
      PROVE  \E w \in Versions : Published(id, w)
  <2> DEFINE w == [v EXCEPT !.reply = reply]
  <2>1. w \in Versions /\ w.st = "live" /\ w.rev = v.rev /\ w.reacts = v.reacts
    BY <1>1 DEF Versions
  <2> HIDE DEF w
  <2>2. Upto(v, w)
    BY <1>1, <2>1 DEF Upto, Versions
  <2> QED
    BY <1>2, <1>7, <2>1, <2>2, UpdateFacts DEF v, w
<1> QED
  BY <1>3, <1>4, <1>5, <1>6, <1>7

(* An update of the host that leaves the subscriber alone.                     *)
LEMMA PublishedKeeps ==
    ASSUME IInv, NEW id, NEW v, Published(id, v), total' \in Nat, cmds' \in Seq(Message),
           UNCHANGED <<allowed, sub, user, news, history, counts>>, PendingIsTrue'
    PROVE  IInv'
<1>1. Reach' = Reach
  BY DEF Reach, history
<1>2. TypeOK'
  BY DEF IInv, TypeOK, Published, Posts, Flows, OneFlow, sub, user, history, counts
<1>3. CopyOK(copy', posts', Reach')
  BY <1>1, TypeFacts, GrowsCopy DEF IInv, Published, sub
<1>4. heard' <= Len(log') /\ snap' <= Len(log')
  BY TypeFacts DEF IInv, Published, history
<1> QED
  BY <1>1, <1>2, <1>3, <1>4 DEF IInv, Published, sub, history

LEMMA HostPostsKeeps == IInv /\ HostPosts => IInv'
<1> SUFFICES ASSUME IInv, HostPosts PROVE IInv'
  OBVIOUS
<1>1. PICK v \in Versions : Published(Len(log) + 1, v)
  BY AddPublishes DEF HostPosts
<1>2. total' \in Nat
  BY AddPublishes DEF HostPosts
<1>3. PendingIsTrue'
  BY <1>1, TypeFacts, PendingStill DEF IInv, HostPosts, Published, user, history
<1> QED
  BY <1>1, <1>2, <1>3, TypeFacts, PublishedKeeps DEF IInv, HostPosts

LEMMA HostRevisesKeeps == ASSUME NEW id \in Time PROVE IInv /\ HostRevises(id) => IInv'
<1> SUFFICES ASSUME IInv, HostRevises(id) PROVE IInv'
  OBVIOUS
<1>1. PICK v \in Versions : Published(id, v)
  BY RevisedPublishes DEF HostRevises
<1>2. total' \in Nat
  BY DEF HostRevises, IInv, TypeOK
<1>3. PendingIsTrue'
  BY <1>1, TypeFacts, PendingStill DEF IInv, HostRevises, Published, user, history
<1> QED
  BY <1>1, <1>2, <1>3, TypeFacts, PublishedKeeps DEF IInv, HostRevises

(* What is taken from the commands is posted or refused.                       *)
LEMMA HostTakesKeeps == IInv /\ HostTakes => IInv'
<1> SUFFICES ASSUME IInv, HostTakes PROVE IInv'
  OBVIOUS
<1>1. /\ cmds \in Seq(Message) /\ cmds # <<>> /\ cmds' = Tail(cmds) /\ log \in Seq(Updates)
      /\ Len(log) \in Nat /\ total \in Nat /\ heard \in Nat /\ heard <= Len(log)
  BY TypeFacts DEF IInv, TypeOK, HostTakes
<1> PICK m : m = Head(cmds)
  OBVIOUS
<1>2. /\ m \in Message /\ cmds' \in Seq(Message)
      /\ \A i \in DOMAIN cmds : cmds[i] = m \/ \E j \in DOMAIN cmds' : cmds'[j] = cmds[i]
  <2>1. /\ m = cmds[1] /\ m \in Message /\ cmds' \in Seq(Message) /\ Len(cmds) \in Nat
        /\ Len(cmds') = Len(cmds) - 1 /\ \A i \in 1 .. Len(cmds') : cmds'[i] = cmds[i + 1]
        /\ DOMAIN cmds = 1 .. Len(cmds) /\ DOMAIN cmds' = 1 .. Len(cmds')
    BY <1>1, HeadTailProperties, LenProperties
  <2>2. ASSUME NEW i \in DOMAIN cmds, i # 1 PROVE \E j \in DOMAIN cmds' : cmds'[j] = cmds[i]
    <3>1. i - 1 \in DOMAIN cmds' /\ cmds'[i - 1] = cmds[i]
      BY <2>1, <2>2
    <3> QED
      BY <3>1
  <2> QED
    BY <2>1, <2>2
<1>3. CASE Add(m) /\ UNCHANGED <<allowed, refused>>
  <2>1. PICK v \in Versions : v.msg = m /\ Published(Len(log) + 1, v)
    BY <1>2, <1>3, AddPublishes
  <2>2. total' \in Nat
    BY <1>2, <1>3, AddPublishes
  <2> DEFINE t == Len(log) + 1
  <2>3. /\ log' \in Seq(Updates) /\ Len(log') = t /\ log'[t].id = t /\ log'[t].v = v
        /\ \A n \in 1 .. Len(log) : log'[n] = log[n]
    BY <2>1 DEF Published
  <2>4. /\ DOMAIN log = 1 .. Len(log) /\ DOMAIN log' = 1 .. t
        /\ pending' = pending /\ heard' = heard /\ snap' = snap /\ refused' = refused
    BY <1>1, <1>3, <2>3, LenProperties DEF HostTakes, user
  <2>5. t \in Posting(m)' /\ t > heard'
    BY <1>1, <2>1, <2>3, <2>4 DEF Posting
  <2>6. \A n : Posting(n) \subseteq Posting(n)'
    BY <1>1, <2>3, <2>4 DEF Posting
  <2>7. PendingIsTrue'
    <3>1. ASSUME NEW n \in pending PROVE
            \/ \E i \in DOMAIN cmds' : cmds'[i] = n
            \/ n \in refused
            \/ \E x \in Posting(n)' : x > heard \/ x <= snap
      <4>1. CASE \E i \in DOMAIN cmds : cmds[i] = n
        BY <1>2, <2>4, <2>5, <4>1
      <4> QED
        BY <2>6, <4>1 DEF IInv, PendingIsTrue
    <3> QED
      BY <2>4, <3>1 DEF PendingIsTrue
  <2> QED
    BY <1>2, <1>3, <2>1, <2>2, <2>7, PublishedKeeps DEF HostTakes, history
<1>4. CASE /\ refused' = refused \cup {m}
           /\ total' \in {total, total + 1}
           /\ UNCHANGED <<log, posts, allowed, flow>>
  <2>1. PendingIsTrue'
    <3>1. /\ pending' = pending /\ heard' = heard /\ snap' = snap /\ log' = log
          /\ \A n : Posting(n)' = Posting(n)
      BY <1>4 DEF HostTakes, user, Posting
    <3> QED
      BY <1>2, <1>4, <3>1 DEF IInv, PendingIsTrue
  <2>2. TypeOK'
    BY <1>1, <1>2, <1>4 DEF IInv, TypeOK, HostTakes, sub, user, counts
  <2>3. Reach' = Reach
    BY DEF HostTakes, Reach
  <2> QED
    BY <1>4, <2>1, <2>2, <2>3 DEF IInv, HostTakes, sub
<1> QED
  BY <1>3, <1>4 DEF HostTakes

-----------------------------------------------------------------------------
(* A step that neither adds to the log nor to the copy.                        *)
Flowing(f) ==
    /\ f \in Flows /\ Grounded(f, rolling, log, posts)
    /\ Ordered(f, rolling, Reach, snap, Len(log))

LEMMA FlowChanges ==
    ASSUME IInv, \E f : Flowing(f) /\ flow' = f,
           UNCHANGED <<log, posts, total, copy, count, rolling, pending, cmds, snap, heard, refused>>,
           allowed' \in BOOLEAN, joined' \in BOOLEAN, load' \in BOOLEAN, stalled' \in BOOLEAN,
           news' \in Seq(BOOLEAN), debounce' \subseteq Message, lost' \subseteq 0 .. MaxLog,
           sends' \in 0 .. MaxSends, faults' \in 0 .. MaxFaults
    PROVE  IInv'
<1>1. Reach' = Reach
  BY DEF Reach
<1>2. TypeOK'
  BY DEF IInv, TypeOK, Flowing, Flows, OneFlow
<1>3. PendingIsTrue'
  BY TypeFacts, PendingStill DEF IInv
<1> QED
  BY <1>1, <1>2, <1>3 DEF IInv, Flowing

LEMMA SignSuits ==
    ASSUME NEW kind \in {"kick", "nack"}, NEW w, NEW d, NEW r, NEW k, NEW s
    PROVE  Suits(Sign(kind), w, d, r, k, s)
<1>1. \A j \in 1 .. Len(Sign(kind).us) : FALSE
  BY SignFacts
<1>2. Sign(kind).kind # "checkpoint" /\ Within(Sign(kind).posts, k)
  BY SignFacts, AbsentTyped
<1> QED
  BY <1>1, <1>2 DEF Suits

LEMMA EndKeeps ==
    ASSUME IInv, NEW w \in Wires, NEW kind \in {"kick", "nack"}
    PROVE  Flowing(End(w, Sign(kind)))
<1>1. /\ flow \in Flows /\ Reach \in Nat /\ snap \in Nat /\ Len(log) \in Nat /\ log \in Seq(Updates)
      /\ Grounded(flow, rolling, log, posts) /\ Ordered(flow, rolling, Reach, snap, Len(log))
  BY TypeFacts DEF IInv
<1>2. /\ Sign(kind) \in Signs /\ SignOK(Sign(kind), log, posts)
      /\ Suits(Sign(kind), w, flow[w].down, rolling, Reach, snap)
  BY <1>1, SignFacts, SignGrounded, SignSuits
<1>3. Adds(flow, End(w, Sign(kind)), w, Sign(kind), "none")
  BY DEF Adds, End
<1> QED
  BY <1>1, <1>2, <1>3, AddKeeps DEF Flowing

LEMMA CheckpointFacts ==
    ASSUME IInv, NEW ids
    PROVE  /\ Checkpoint(ids) \in Signs /\ Checkpoint(ids).kind = "checkpoint"
           /\ Checkpoint(ids).us = <<>> /\ Checkpoint(ids).at = Len(log)
           /\ \A i \in Time : Checkpoint(ids).posts[i] = IF i \in ids THEN posts[i] ELSE Absent
           /\ SignOK(Checkpoint(ids), log, posts)
<1>1. /\ Sign("checkpoint") \in Signs /\ Sign("checkpoint").kind = "checkpoint"
      /\ Sign("checkpoint").us = <<>>
  BY SignFacts
<1>2. /\ posts \in Posts /\ Absent \in Versions /\ total \in Nat /\ Len(log) \in 0 .. MaxLog
      /\ Within(posts, Len(log))
  BY TypeFacts, AbsentTyped DEF IInv, TypeOK, LogOK
<1> DEFINE ps == [i \in Time |-> IF i \in ids THEN posts[i] ELSE Absent]
<1>3. ps \in Posts /\ Absent.st = "absent"
  BY <1>2 DEF Posts, Absent
<1>4. \A i \in Time : ps[i] = IF i \in ids THEN posts[i] ELSE Absent
  OBVIOUS
<1>5. Checkpoint(ids) = [Sign("checkpoint") EXCEPT !.posts = ps, !.count = total, !.at = Len(log)]
  BY DEF Checkpoint
<1> HIDE DEF ps
<1>6. /\ Checkpoint(ids) \in Signs /\ Checkpoint(ids).kind = "checkpoint"
      /\ Checkpoint(ids).us = <<>> /\ Checkpoint(ids).at = Len(log) /\ Checkpoint(ids).posts = ps
  <2> PICK q : q = Sign("checkpoint")
    OBVIOUS
  <2>1. q \in Signs /\ q.kind = "checkpoint" /\ q.us = <<>>
    BY <1>1
  <2>2. Checkpoint(ids) = [q EXCEPT !.posts = ps, !.count = total, !.at = Len(log)]
    BY <1>5
  <2>3. ps \in [Time -> Versions] /\ Len(log) \in 0 .. MaxLog /\ total \in Nat
    BY <1>2, <1>3 DEF Posts
  <2> QED
    BY <2>1, <2>2, <2>3 DEF Signs
<1>7. ASSUME NEW i \in Time PROVE Upto(ps[i], posts[i]) /\ (ps[i].st # "absent" => i <= Len(log))
  <2>1. posts[i] \in Versions
    BY <1>2 DEF Posts
  <2> QED
    BY <1>2, <1>3, <1>4, <2>1, UptoSelf DEF Upto, Within
<1>8. \A j \in 1 .. Len(Checkpoint(ids).us) : FALSE
  BY <1>6
<1>9. Len(log) <= Len(log) /\ Len(Checkpoint(ids).us) = 0
  BY <1>2, <1>6
<1> QED
  BY <1>4, <1>6, <1>7, <1>8, <1>9 DEF SignOK, Within

(* The snapshot, then the kick.                                               *)
LEMMA SnapshotKeeps ==
    ASSUME IInv, NEW w \in {"checkpoint", "backlog"}, NEW ids,
           w = "backlog" => \A i \in ids : i <= Reach
    PROVE  Flowing([flow EXCEPT ![w].st = "none", ![w].down = @ \o <<Checkpoint(ids), Sign("kick")>>])
<1> DEFINE q == Checkpoint(ids)
           e == Sign("kick")
           d == flow[w].down
           f == [flow EXCEPT ![w].st = "none", ![w].down = Append(@, q)]
           g == [f EXCEPT ![w].st = "none", ![w].down = Append(@, e)]
<1>1. /\ flow \in Flows /\ Reach \in Nat /\ snap \in Nat /\ Len(log) \in Nat /\ log \in Seq(Updates)
      /\ Grounded(flow, rolling, log, posts) /\ Ordered(flow, rolling, Reach, snap, Len(log))
      /\ w \in Wires /\ snap <= Len(log)
  BY TypeFacts DEF IInv, Wires
<1>2. q \in Signs /\ SignOK(q, log, posts)
  BY CheckpointFacts
<1>3. Suits(q, w, d, rolling, Reach, snap)
  <2>1. q.at = Len(log) /\ \A i \in Time : q.posts[i] = IF i \in ids THEN posts[i] ELSE Absent
    BY CheckpointFacts
  <2> HIDE DEF q
  <2>2. w = "backlog" => Within(q.posts, Reach)
    BY <2>1 DEF Within, Absent
  <2> QED
    BY <1>1, <2>1, <2>2 DEF Suits
<1>4. e \in Signs /\ SignOK(e, log, posts)
  BY <1>1, SignFacts, SignGrounded
<1>5. Suits(e, w, f[w].down, rolling, Reach, snap)
  BY SignSuits
<1>6. Adds(flow, f, w, q, "none") /\ Adds(f, g, w, e, "none")
  BY DEF Adds
<1>7. d \in Seq(Signs) /\ d \o <<q, e>> = Append(Append(d, q), e)
  <2>1. d \in Seq(Signs)
    BY <1>1, FlowSeq
  <2> HIDE DEF d, q, e
  <2> QED
    BY <1>2, <1>4, <2>1
<1>8. [flow EXCEPT ![w].st = "none", ![w].down = @ \o <<q, e>>] = g
  <2>1. flow = [v \in Wires |-> flow[v]] /\ flow[w] \in OneFlow
    BY <1>1 DEF Flows
  <2>2. f[w] = [flow[w] EXCEPT !.st = "none", !.down = Append(d, q)]
    BY <1>1, <2>1 DEF Flows
  <2> HIDE DEF q, e
  <2>3. g = [flow EXCEPT ![w] = [flow[w] EXCEPT !.st = "none", !.down = Append(Append(d, q), e)]]
    BY <1>1, <2>1, <2>2 DEF Flows, OneFlow
  <2>4. [flow EXCEPT ![w].st = "none", ![w].down = @ \o <<q, e>>]
          = [flow EXCEPT ![w] = [flow[w] EXCEPT !.st = "none", !.down = d \o <<q, e>>]]
    BY <1>1, <2>1 DEF Flows, OneFlow
  <2> QED
    BY <1>7, <2>3, <2>4
<1> HIDE DEF q, e, d, f, g
<1>9. f \in Flows /\ Grounded(f, rolling, log, posts) /\ Ordered(f, rolling, Reach, snap, Len(log))
  BY <1>1, <1>2, <1>3, <1>6, AddKeeps DEF d
<1>10. g \in Flows /\ Grounded(g, rolling, log, posts) /\ Ordered(g, rolling, Reach, snap, Len(log))
  BY <1>1, <1>4, <1>5, <1>6, <1>9, AddKeeps
<1> QED
  BY <1>8, <1>10 DEF Flowing, q, e

(* The updates of the log from a time that the subscriber has come to.         *)
LEMMA SuffixFacts ==
    ASSUME NEW S, NEW s \in Seq(S), NEW t \in Nat
    PROVE  /\ SubSeq(s, t + 1, Len(s)) \in Seq(S)
           /\ Len(SubSeq(s, t + 1, Len(s))) = IF t + 1 <= Len(s) THEN Len(s) - t ELSE 0
           /\ \A j \in 1 .. Len(SubSeq(s, t + 1, Len(s))) : SubSeq(s, t + 1, Len(s))[j] = s[t + j]
<1> DEFINE us == SubSeq(s, t + 1, Len(s))
<1>1. t + 1 \in Int /\ Len(s) \in Nat
  BY LenProperties
<1>2. \A i \in t + 1 .. Len(s) : s[i] \in S
  BY <1>1, ElementOfSeq
<1>3. /\ us \in Seq(S) /\ Len(us) = IF t + 1 <= Len(s) THEN Len(s) - (t + 1) + 1 ELSE 0
      /\ \A i \in 1 .. Len(s) - (t + 1) + 1 : us[i] = s[(t + 1) + i - 1]
  BY <1>1, <1>2, SubSeqProperties
<1> HIDE DEF us
<1>4. Len(us) = IF t + 1 <= Len(s) THEN Len(s) - t ELSE 0
  BY <1>1, <1>3
<1>5. ASSUME NEW j \in 1 .. Len(us) PROVE us[j] = s[t + j]
  <2>1. j \in 1 .. Len(s) - (t + 1) + 1 /\ (t + 1) + j - 1 = t + j
    BY <1>1, <1>4
  <2> QED
    BY <1>3, <2>1
<1> QED
  BY <1>3, <1>4, <1>5 DEF us

LEMMA LogAfterKeeps ==
    ASSUME IInv
    PROVE  Flowing([Tell("updates", Logs(LogAfter(flow["updates"].arg))) EXCEPT !["updates"].st = "live"])
<1> DEFINE t  == flow["updates"].arg
           us == LogAfter(t)
           d  == flow["updates"].down
           q  == Logs(us)
           g  == [Tell("updates", q) EXCEPT !["updates"].st = "live"]
<1>1. /\ flow \in Flows /\ Reach \in Nat /\ snap \in Nat /\ Len(log) \in Nat /\ log \in Seq(Updates)
      /\ Grounded(flow, rolling, log, posts) /\ Ordered(flow, rolling, Reach, snap, Len(log))
      /\ "updates" \in Wires /\ MaxLog \in Nat
  BY TypeFacts DEF IInv, Wires
<1>2. t \in Nat /\ t <= Reach /\ d \in Seq(Signs) /\ Len(d) \in Nat
  <2>1. flow["updates"] \in OneFlow
    BY <1>1 DEF Flows
  <2>2. t \in Nat
    BY <1>1, <2>1 DEF OneFlow
  <2> QED
    BY <1>1, <2>2, FlowSeq DEF Ordered, Bounded
<1>3. /\ us \in Seq(Updates)
      /\ Len(us) = IF t + 1 <= Len(log) THEN Len(log) - t ELSE 0
      /\ \A j \in 1 .. Len(us) : us[j] = log[t + j]
  BY <1>1, <1>2, SuffixFacts DEF LogAfter
<1>4. ASSUME NEW j \in 1 .. Len(us) PROVE us[j].time = t + j /\ UpOK(us[j], log)
  <2>1. t + j \in 1 .. Len(log) /\ us[j] = log[t + j]
    <3>1. PICK n \in Nat, m \in Nat : n = Len(log) /\ m = t
      BY <1>1, <1>2, LenProperties
    <3>2. j \in 1 .. IF m + 1 <= n THEN n - m ELSE 0
      BY <1>3, <3>1
    <3>3. m + j \in 1 .. n
      BY <3>2
    <3> QED
      BY <1>3, <3>1, <3>3
  <2>2. log[t + j].time = t + j
    BY <2>1 DEF IInv, LogOK, EntryOK
  <2> QED
    BY <2>1, <2>2 DEF UpOK
<1> HIDE DEF t, us, d
<1>5. q \in Signs /\ q.us = us /\ q.kind = "logs"
  BY <1>3, LogsFacts
<1>6. SignOK(q, log, posts)
  BY <1>1, <1>3, <1>4, LogsGrounded
<1> HIDE DEF q
<1>7. Suits(q, "updates", d, rolling, Reach, snap)
  <2>1. ASSUME NEW j \in 1 .. Len(us)
        PROVE  us[j].time <= Reach + 1 \/ (j > 1 /\ us[j - 1].time = us[j].time - 1)
    <3>1. Len(us) \in Nat
      BY <1>3, LenProperties
    <3>2. CASE j = 1
      BY <1>1, <1>2, <1>4, <3>2
    <3>3. CASE j # 1
      <4>1. j - 1 \in 1 .. Len(us) /\ j > 1
        BY <3>1, <3>3
      <4> QED
        BY <1>2, <1>4, <4>1
    <3> QED
      BY <3>2, <3>3
  <2> QED
    BY <1>5, <2>1 DEF Suits
<1>8. TipOK(Append(d, q), rolling, Reach, Len(log))
  <2> SUFFICES ASSUME ~(Len(log) <= Reach) PROVE Ahead(Append(d, q), rolling, Len(Append(d, q)) + 1, Len(log))
    BY DEF TipOK
  <2> DEFINE e == Append(d, q)
  <2>1. Len(e) = Len(d) + 1 /\ e[Len(d) + 1] = q
    BY <1>2, <1>5, AppendProperties
  <2> HIDE DEF e
  <2>2. Len(us) \in 1 .. Len(us) /\ us[Len(us)].time = Len(log)
    <3>1. Len(us) = Len(log) - t /\ Len(us) \in Nat \ {0}
      BY <1>1, <1>2, <1>3
    <3> QED
      BY <1>1, <1>2, <1>4, <3>1
  <2>3. Len(d) + 1 \in 1 .. Len(e) + 1 - 1 /\ Len(us) \in 1 .. Len(e[Len(d) + 1].us)
    BY <1>2, <1>5, <2>1, <2>2
  <2>4. e[Len(d) + 1].us[Len(us)].time = Len(log)
    BY <1>5, <2>1, <2>2
  <2> QED
    BY <2>3, <2>4 DEF Ahead, e
<1>9. Adds(flow, g, "updates", q, "live")
  BY <1>1, TellAdds
<1> HIDE DEF g
<1>10. g \in Flows /\ Grounded(g, rolling, log, posts) /\ Ordered(g, rolling, Reach, snap, Len(log))
  <2>1. /\ Suits(q, "updates", flow["updates"].down, rolling, Reach, snap)
        /\ TipOK(Append(flow["updates"].down, q), rolling, Reach, Len(log))
    BY <1>7, <1>8 DEF d
  <2> PICK st \in {"none", "live", "asked"} : st = "live"
    OBVIOUS
  <2>2. Adds(flow, g, "updates", q, st)
    BY <1>9
  <2> QED
    BY <1>1, <1>5, <1>6, <2>1, <2>2, AddKeeps
<1> QED
  BY <1>10 DEF Flowing, g, q, us, t

LEMMA WatchArrivesKeeps == ASSUME NEW w \in Wires PROVE IInv /\ WatchArrives(w) => IInv'
<1> SUFFICES ASSUME IInv, WatchArrives(w) PROVE IInv'
  OBVIOUS
<1>1. Flowing(flow')
  <2>1. CASE ~allowed
    BY <2>1, EndKeeps DEF WatchArrives
  <2>2. CASE allowed /\ w = "updates"
    BY <2>2, LogAfterKeeps DEF WatchArrives
  <2>3. CASE allowed /\ w = "checkpoint"
    <3>1. flow' = [flow EXCEPT ![w].st = "none", ![w].down = @ \o <<Checkpoint(Page(PageSize)), Sign("kick")>>]
      BY <2>3 DEF WatchArrives
    <3> QED
      BY <2>3, <3>1, SnapshotKeeps
  <2>4. CASE allowed /\ w = "backlog"
    <3>1. flow' = [flow EXCEPT ![w].st = "none",
                               ![w].down = @ \o <<Checkpoint(Before(flow[w].arg)), Sign("kick")>>]
      BY <2>4 DEF WatchArrives
    <3>2. ASSUME NEW i \in Before(flow[w].arg) PROVE i <= Reach
      <4>1. flow[w] \in OneFlow /\ flow[w].arg <= Reach /\ Reach \in Nat /\ MaxLog \in Nat
        BY TypeFacts DEF IInv, Ordered, Bounded, Flows
      <4>2. i \in Time /\ i < flow[w].arg
        BY DEF Before, Present
      <4> QED
        BY <4>1, <4>2 DEF OneFlow, Time
    <3> QED
      BY <2>4, <3>1, <3>2, SnapshotKeeps
  <2> QED
    BY <2>1, <2>2, <2>3, <2>4 DEF Wires
<1> QED
  BY <1>1, FlowChanges DEF WatchArrives, host, sub, user, history, counts, IInv, TypeOK

-----------------------------------------------------------------------------
LEMMA FlowingNow ==
    ASSUME IInv
    PROVE  /\ Flowing(flow) /\ Reach \in 0 .. MaxLog /\ flow \in Flows /\ copy \in Posts
           /\ Within(copy, Reach) /\ Empty \in Posts /\ Within(Empty, Reach)
BY TypeFacts, ReachIn, AbsentTyped DEF IInv, Flowing, CopyOK

LEMMA FaultTyped == ASSUME TypeOK, Fault PROVE faults' \in 0 .. MaxFaults
BY ConstantsAssumption DEF TypeOK, Fault

LEMMA SubscribeKeeps ==
    ASSUME IInv, NEW f, Flowing(f), NEW c \in Posts, Within(c, Reach), NEW delay \in BOOLEAN
    PROVE  Flowing(SafeSub(f, c, delay)) /\ Flowing(StartUpdates(f, c, delay))
           /\ Flowing(SyncBacklog(f, c, delay))
<1>1. Reach \in 0 .. MaxLog /\ f \in Flows /\ Bounded(f, Reach)
  BY FlowingNow DEF Flowing, Ordered
<1>2. ASSUME NEW g, Rewatched(f, g), Bounded(g, Reach) PROVE Flowing(g)
  <2>1. Grounded(g, rolling, log, posts) /\ Ordered(g, rolling, Reach, snap, Len(log))
    BY <1>2, RewatchKeeps DEF Flowing
  <2> QED
    BY <1>2, <2>1 DEF Flowing, Rewatched
<1>3. Rewatched(f, SafeSub(f, c, delay)) /\ Bounded(SafeSub(f, c, delay), Reach)
  BY <1>1, SafeSubFacts
<1>4. Rewatched(f, StartUpdates(f, c, delay)) /\ Bounded(StartUpdates(f, c, delay), Reach)
  BY <1>1, StartUpdatesFacts
<1>5. Rewatched(f, SyncBacklog(f, c, delay)) /\ Bounded(SyncBacklog(f, c, delay), Reach)
  BY <1>1, SyncBacklogFacts
<1> QED
  BY <1>2, <1>3, <1>4, <1>5

(* A watch that is given up takes along what was on its way.                   *)
LEMMA ClosedKeeps ==
    ASSUME NEW f \in Flows, NEW S \in SUBSET Wires, NEW g, g = [w \in Wires |-> IF w \in S THEN Closed ELSE f[w]],
           NEW r, NEW lg, NEW ps, NEW k \in Nat, NEW s, NEW s1, NEW len,
           Grounded(f, r, lg, ps), Ordered(f, r, k, s, len), s1 = s \/ "checkpoint" \in S
    PROVE  g \in Flows /\ Grounded(g, r, lg, ps) /\ Ordered(g, r, k, s1, len)
<1>1. \A w \in Wires : IF w \in S THEN g[w] = Closed ELSE g[w] = f[w]
  OBVIOUS
<1>2. /\ Closed.down = <<>> /\ Closed.st = "none" /\ Closed.arg = 0 /\ Closed.retry = Never
      /\ Never < 0 /\ Len(Closed.down) = 0
  BY DEF Closed, Never
<1>3. g \in Flows
  <2>1. Closed \in OneFlow
    BY ConstantsAssumption, EmptySeq DEF Closed, OneFlow
  <2> QED
    BY <2>1 DEF Flows
<1>4. \A w \in S : Len(g[w].down) = 0
  BY <1>1, <1>2
<1>5. Grounded(g, r, lg, ps)
  <2>1. ASSUME NEW w \in Wires, NEW n \in 1 .. Len(g[w].down) PROVE SignOK(g[w].down[n], lg, ps)
    <3>1. w \notin S /\ g[w] = f[w]
      <4>1. w \in S => n \in 1 .. 0
        BY <1>4
      <4> QED
        BY <1>1, <4>1
    <3> QED
      BY <2>1, <3>1 DEF Grounded
  <2> QED
    BY <2>1 DEF Grounded
<1>6. Bounded(g, k)
  <2>1. ASSUME NEW w \in Wires PROVE g[w].arg <= k /\ g[w].retry <= k
    <3>1. Closed.arg <= k /\ Closed.retry <= k
      BY <1>2 DEF Never
    <3>2. f[w].arg <= k /\ f[w].retry <= k
      BY DEF Bounded, Ordered
    <3> QED
      BY <1>1, <3>1, <3>2
  <2> QED
    BY <2>1 DEF Bounded
<1>7. SnapsOK(g, k, s1)
  <2>1. "checkpoint" \in Wires /\ "backlog" \in Wires
    BY DEF Wires
  <2>2. ASSUME NEW n \in 1 .. Len(g["checkpoint"].down), g["checkpoint"].down[n].kind = "checkpoint"
        PROVE  s1 <= g["checkpoint"].down[n].at
    <3>1. "checkpoint" \notin S
      <4>1. "checkpoint" \in S => n \in 1 .. 0
        BY <1>4
      <4> QED
        BY <4>1
    <3>2. g["checkpoint"] = f["checkpoint"] /\ s1 = s
      BY <1>1, <2>1, <3>1
    <3> QED
      BY <2>2, <3>2 DEF Ordered, SnapsOK
  <2>3. ASSUME NEW n \in 1 .. Len(g["backlog"].down) PROVE Within(g["backlog"].down[n].posts, k)
    <3>1. "backlog" \notin S
      <4>1. "backlog" \in S => n \in 1 .. 0
        BY <1>4
      <4> QED
        BY <4>1
    <3>2. g["backlog"] = f["backlog"]
      BY <1>1, <2>1, <3>1
    <3> QED
      BY <2>3, <3>2 DEF Ordered, SnapsOK
  <2> QED
    BY <2>2, <2>3 DEF SnapsOK
<1>8. StreamOK(g["updates"].down, r, k) /\ (g["updates"].st = "live" => TipOK(g["updates"].down, r, k, len))
  <2>1. "updates" \in Wires
    BY DEF Wires
  <2> QED
    BY <1>1, <1>2, <1>4, <2>1 DEF Ordered, StreamOK
<1> QED
  BY <1>3, <1>5, <1>6, <1>7, <1>8 DEF Ordered

LEMMA DropKeeps ==
    ASSUME IInv, NEW w \in Wires, flow[w].down # <<>>, Head(flow[w].down).kind # "logs"
    PROVE  Flowing([flow EXCEPT ![w].down = Tail(@)])
<1>1. Drops(flow, [flow EXCEPT ![w].down = Tail(@)], w)
  BY DEF Drops
<1> DEFINE g == [flow EXCEPT ![w].down = Tail(@)]
<1>2. /\ flow \in Flows /\ Reach \in Nat /\ Grounded(flow, rolling, log, posts)
      /\ Ordered(flow, rolling, Reach, snap, Len(log))
  BY TypeFacts DEF IInv
<1> HIDE DEF g
<1>3. Drops(flow, g, w)
  BY <1>1 DEF g
<1>4. g \in Flows /\ Grounded(g, rolling, log, posts) /\ Ordered(g, rolling, Reach, snap, Len(log))
  BY <1>2, <1>3, TakeKeeps
<1> QED
  BY <1>4 DEF Flowing, g

-----------------------------------------------------------------------------
LEMMA RevokeKeeps == IInv /\ Revoke => IInv'
<1> SUFFICES ASSUME IInv, Revoke PROVE IInv'
  OBVIOUS
<1>1. Flowing(flow')
  BY EndKeeps, FlowingNow DEF Revoke, Wires
<1>2. news' \in Seq(BOOLEAN) /\ faults' \in 0 .. MaxFaults
  BY FaultTyped, AppendProperties DEF Revoke, IInv, TypeOK
<1> QED
  BY <1>1, <1>2, FlowChanges DEF Revoke, sub, user, history, IInv, TypeOK

LEMMA RestoreKeeps == IInv /\ Restore => IInv'
<1> SUFFICES ASSUME IInv, Restore PROVE IInv'
  OBVIOUS
<1>1. Flowing(flow) /\ flow' = flow
  BY FlowingNow DEF Restore
<1>2. news' \in Seq(BOOLEAN)
  BY AppendProperties DEF Restore, IInv, TypeOK
<1> QED
  BY <1>1, <1>2, FlowChanges DEF Restore, sub, user, history, counts, IInv, TypeOK

LEMMA ClogKeeps == ASSUME NEW w \in Wires PROVE IInv /\ Clog(w) => IInv'
<1> SUFFICES ASSUME IInv, Clog(w) PROVE IInv'
  OBVIOUS
<1>1. Flowing(flow')
  BY EndKeeps DEF Clog
<1>2. faults' \in 0 .. MaxFaults
  BY FaultTyped DEF Clog, IInv
<1> QED
  BY <1>1, <1>2, FlowChanges DEF Clog, host, sub, user, history, IInv, TypeOK

LEMMA SubscribesFacts ==
    ASSUME IInv, NEW f, Flowing(f), NEW delay \in BOOLEAN, Subscribes(f, delay)
    PROVE  Flowing(flow') /\ load' \in BOOLEAN /\ stalled' \in BOOLEAN
BY SubscribeKeeps, FlowingNow DEF Subscribes

LEMMA JoinKeeps == IInv /\ Join => IInv'
<1> SUFFICES ASSUME IInv, Join PROVE IInv'
  OBVIOUS
<1>1. Flowing(flow') /\ load' \in BOOLEAN /\ stalled' \in BOOLEAN /\ joined' \in BOOLEAN
  <2>1. CASE joined
    BY <2>1, FlowingNow, SubscribesFacts DEF Join, IInv, TypeOK
  <2>2. CASE ~joined
    BY <2>2, FlowingNow, SubscribeKeeps DEF Join
  <2> QED
    BY <2>1, <2>2
<1> QED
  BY <1>1, FlowChanges DEF Join, host, user, counts, IInv, TypeOK

LEMMA RecheckKeeps == IInv /\ Recheck => IInv'
<1> SUFFICES ASSUME IInv, Recheck PROVE IInv'
  OBVIOUS
<1>1. Flowing(flow') /\ load' \in BOOLEAN /\ stalled' \in BOOLEAN
  <2>1. CASE joined /\ Head(news)
    BY <2>1, FlowingNow, SubscribesFacts DEF Recheck
  <2>2. CASE ~(joined /\ Head(news))
    BY <2>2, FlowingNow DEF Recheck, IInv, TypeOK
  <2> QED
    BY <2>1, <2>2
<1>2. news' \in Seq(BOOLEAN)
  BY HeadTailProperties DEF Recheck, IInv, TypeOK
<1> QED
  BY <1>1, <1>2, FlowChanges DEF Recheck, host, user, counts, IInv, TypeOK

LEMMA MissingTyped == Missing \subseteq 0 .. MaxLog /\ Skipped \subseteq 0 .. MaxLog
BY ConstantsAssumption DEF Missing, Skipped, Present, Time

LEMMA OnLoadKeeps == IInv /\ OnLoad => IInv'
<1> SUFFICES ASSUME IInv, OnLoad PROVE IInv'
  OBVIOUS
<1> DEFINE given == {w \in Wires : w # "updates" /\ Open(flow, w)}
           f     == SafeSub(flow, copy, FALSE)
           h     == IF joined THEN f ELSE flow
<1>1. Flowing(h)
  BY FlowingNow, SubscribeKeeps
<1>2. flow' = [w \in Wires |-> IF w \in given THEN Closed ELSE h[w]]
  BY Zenon DEF OnLoad
<1>3. given \in SUBSET Wires
  OBVIOUS
<1> HIDE DEF given, h
<1>4. Flowing(flow')
  <2>1. Reach \in Nat
    BY TypeFacts DEF IInv
  <2>2. h \in Flows /\ Grounded(h, rolling, log, posts) /\ Ordered(h, rolling, Reach, snap, Len(log))
    BY <1>1 DEF Flowing
  <2>3. /\ flow' \in Flows /\ Grounded(flow', rolling, log, posts)
        /\ Ordered(flow', rolling, Reach, snap, Len(log))
    BY <1>2, <1>3, <2>1, <2>2, ClosedKeeps
  <2> QED
    BY <2>3 DEF Flowing
<1>5. load' \in BOOLEAN /\ stalled' \in BOOLEAN
  BY Zenon DEF OnLoad, IInv, TypeOK
<1>6. lost' \subseteq 0 .. MaxLog /\ faults' \in 0 .. MaxFaults
  BY MissingTyped, FaultTyped DEF OnLoad, IInv, TypeOK
<1> QED
  BY <1>4, <1>5, <1>6, FlowChanges DEF OnLoad, host, IInv, TypeOK

LEMMA WakeKeeps == ASSUME NEW w \in Wires PROVE IInv /\ Wake(w) => IInv'
<1> SUFFICES ASSUME IInv, Wake(w) PROVE IInv'
  OBVIOUS
<1>1. flow \in Flows /\ flow[w] \in OneFlow /\ Grounded(flow, rolling, log, posts)
      /\ Ordered(flow, rolling, Reach, snap, Len(log)) /\ Reach \in Nat
  BY TypeFacts DEF IInv, Flows
<1>2. /\ flow'[w] = [flow[w] EXCEPT !.st = "asked", !.arg = flow[w].retry, !.retry = Never]
      /\ \A v \in Wires \ {w} : flow'[v] = flow[v]
      /\ flow' = [v \in Wires |-> flow'[v]]
  BY <1>1 DEF Wake, Flows
<1>3. flow[w].retry \in 0 .. MaxLog /\ Never \in Int /\ Never <= Reach
  BY <1>1 DEF OneFlow, Wake, Never
<1>4. /\ flow'[w] \in OneFlow /\ flow'[w].down = flow[w].down /\ flow'[w].st = "asked"
      /\ flow'[w].arg = flow[w].retry /\ flow'[w].retry = Never
  BY <1>1, <1>2, <1>3 DEF OneFlow
<1>5. flow' \in Flows
  BY <1>1, <1>2, <1>4 DEF Flows
<1>6. Rewatched(flow, flow')
  BY <1>2, <1>4, <1>5 DEF Rewatched
<1>7. Bounded(flow', Reach)
  <2>1. \A v \in Wires : flow[v].arg <= Reach /\ flow[v].retry <= Reach
    BY <1>1 DEF Ordered, Bounded
  <2> QED
    BY <1>2, <1>3, <1>4, <2>1 DEF Bounded
<1>8. Grounded(flow', rolling, log, posts) /\ Ordered(flow', rolling, Reach, snap, Len(log))
  BY <1>1, <1>6, <1>7, RewatchKeeps
<1>9. Flowing(flow')
  BY <1>5, <1>8 DEF Flowing
<1> QED
  BY <1>9, FlowChanges DEF Wake, host, sub, user, history, counts, IInv, TypeOK

LEMMA TakeKickKeeps == ASSUME NEW w \in Wires PROVE IInv /\ TakeKick(w) => IInv'
<1> SUFFICES ASSUME IInv, TakeKick(w) PROVE IInv'
  OBVIOUS
<1> DEFINE f == [flow EXCEPT ![w].down = Tail(@)]
<1>1. Flowing(f)
  BY DropKeeps DEF TakeKick
<1>2. \/ flow' = (IF w = "backlog" THEN SyncBacklog(f, copy, TRUE) ELSE f) /\ UNCHANGED <<load, stalled>>
      \/ Subscribes(f, TRUE)
  BY Zenon DEF TakeKick
<1> HIDE DEF f
<1>4. lost' \subseteq 0 .. MaxLog
  BY MissingTyped DEF TakeKick, IInv, TypeOK
<1>3. Flowing(flow') /\ load' \in BOOLEAN /\ stalled' \in BOOLEAN
  <2>1. CASE flow' = (IF w = "backlog" THEN SyncBacklog(f, copy, TRUE) ELSE f) /\ UNCHANGED <<load, stalled>>
    BY <1>1, <2>1, FlowingNow, SubscribeKeeps DEF IInv, TypeOK
  <2>2. CASE Subscribes(f, TRUE)
    BY <1>1, <2>2, SubscribesFacts
  <2> QED
    BY <1>2, <2>1, <2>2
<1> QED
  BY <1>3, <1>4, FlowChanges DEF TakeKick, host, user, counts, IInv, TypeOK

LEMMA TakeNackKeeps == ASSUME NEW w \in Wires PROVE IInv /\ TakeNack(w) => IInv'
<1> SUFFICES ASSUME IInv, TakeNack(w) PROVE IInv'
  OBVIOUS
<1>1. Flowing(flow')
  BY DropKeeps DEF TakeNack
<1>2. stalled' \in BOOLEAN
  BY Zenon DEF TakeNack, IInv, TypeOK
<1>3. lost' \subseteq 0 .. MaxLog
  BY MissingTyped DEF TakeNack, IInv, TypeOK
<1> QED
  BY <1>1, <1>2, <1>3, FlowChanges DEF TakeNack, host, sub, user, counts, IInv, TypeOK

-----------------------------------------------------------------------------
LEMMA SendKeeps == ASSUME NEW m \in Message PROVE IInv /\ Send(m) => IInv'
<1> SUFFICES ASSUME IInv, Send(m) PROVE IInv'
  OBVIOUS
<1>1. /\ cmds \in Seq(Message) /\ cmds' \in Seq(Message) /\ Len(cmds) \in Nat
      /\ DOMAIN cmds = 1 .. Len(cmds) /\ DOMAIN cmds' = 1 .. Len(cmds) + 1
      /\ cmds'[Len(cmds) + 1] = m /\ \A i \in 1 .. Len(cmds) : cmds'[i] = cmds[i]
  <2>1. cmds \in Seq(Message) /\ cmds' = Append(cmds, m)
    BY TypeFacts DEF IInv, Send
  <2>2. cmds' \in Seq(Message) /\ Len(cmds') = Len(cmds) + 1
    BY <2>1, AppendProperties
  <2> QED
    BY <2>1, <2>2, AppendProperties, LenProperties
<1>2. sends' \in 0 .. MaxSends
  BY ConstantsAssumption DEF IInv, TypeOK, Send
<1>3. TypeOK'
  BY <1>1, <1>2 DEF IInv, TypeOK, Send, host, sub, history
<1>4. PendingIsTrue'
  <2>1. /\ pending' = pending \cup {m} /\ refused' = refused /\ heard' = heard /\ snap' = snap
        /\ \A n : Posting(n)' = Posting(n)
    BY DEF Send, host, history, Posting
  <2>2. \A i \in DOMAIN cmds : i \in DOMAIN cmds' /\ cmds'[i] = cmds[i]
    BY <1>1
  <2>3. Len(cmds) + 1 \in DOMAIN cmds'
    BY <1>1
  <2> QED
    BY <1>1, <2>1, <2>2, <2>3 DEF IInv, PendingIsTrue
<1>5. Reach' = Reach
  BY DEF Reach, Send, history
<1> QED
  BY <1>3, <1>4, <1>5 DEF IInv, Send, host, sub, history

LEMMA LeaveKeeps == IInv /\ Leave => IInv'
<1> SUFFICES ASSUME IInv, Leave PROVE IInv'
  OBVIOUS
<1>1. Reach' = 0 /\ MaxLog \in Nat
  BY ConstantsAssumption DEF Leave, Reach, Larger
<1>2. Empty \in Posts /\ Within(Empty, 0) /\ \A i \in Time : Empty[i].st = "absent"
  BY AbsentTyped DEF Empty, Absent
<1>3. /\ Closed \in OneFlow /\ Closed.arg = 0 /\ Closed.retry <= 0 /\ Len(Closed.down) = 0
      /\ Closed.st # "live"
  BY ConstantsAssumption, EmptySeq DEF Closed, OneFlow, Never
<1>4. flow' \in Flows /\ \A w \in Wires : flow'[w] = Closed
  BY <1>3 DEF Leave, Flows
<1>5. rolling = <<>> /\ rolling' = <<>> /\ Len(rolling) = 0
  BY DEF Leave, Idle
<1>6. faults' \in 0 .. MaxFaults
  BY FaultTyped DEF Leave, IInv
<1>7. TypeOK'
  <2>1. /\ joined' = FALSE /\ load' = FALSE /\ copy' \in Posts /\ count' = 0 /\ pending' = {}
        /\ snap' = 0 /\ heard' = 0 /\ lost' = {} /\ stalled' = FALSE
        /\ UNCHANGED <<log, posts, total, allowed, rolling, debounce, cmds, news, refused, sends>>
    BY <1>2 DEF Leave, host
  <2>2. 0 \in 0 .. MaxLog /\ flow' \in Flows
    BY <1>1, <1>4
  <2> QED
    BY <1>6, <2>1, <2>2 DEF IInv, TypeOK, Flows, OneFlow, Posts
<1>8. Grounded(flow', rolling', log', posts')
  BY <1>3, <1>4, <1>5 DEF Grounded
<1>9. Ordered(flow', rolling', Reach', snap', Len(log'))
  <2>1. "updates" \in Wires /\ "checkpoint" \in Wires /\ "backlog" \in Wires
    BY DEF Wires
  <2>2. Bounded(flow', 0)
    BY <1>3, <1>4 DEF Bounded
  <2>3. SnapsOK(flow', 0, snap')
    BY <1>3, <1>4, <2>1 DEF SnapsOK
  <2>4. RollOK(rolling', 0) /\ StreamOK(flow'["updates"].down, rolling', 0)
    BY <1>3, <1>4, <1>5, <2>1 DEF RollOK, StreamOK
  <2> QED
    BY <1>1, <1>3, <1>4, <2>1, <2>2, <2>3, <2>4 DEF Ordered
<1>10. CopyOK(copy', posts', Reach')
  BY <1>1, <1>2 DEF Leave, CopyOK, Upto
<1>11. PendingIsTrue'
  BY DEF Leave, PendingIsTrue
<1> QED
  BY <1>7, <1>8, <1>9, <1>10, <1>11, TypeFacts DEF IInv, Leave, host

LEMMA TakeLogsKeeps == IInv /\ TakeLogs => IInv'
<1> SUFFICES ASSUME IInv, TakeLogs PROVE IInv'
  OBVIOUS
<1> DEFINE w == "updates"
           d == flow["updates"].down
<1>1. /\ flow \in Flows /\ Reach \in Nat /\ "updates" \in Wires
      /\ Grounded(flow, rolling, log, posts) /\ Ordered(flow, rolling, Reach, snap, Len(log))
  BY TypeFacts DEF IInv, Wires
<1>2. Drops(flow, flow', "updates") /\ rolling' = Head(d).us
  BY DEF TakeLogs, Drops
<1>3. Len(rolling) = 0
  BY DEF TakeLogs, Idle
<1>4. flow' \in Flows /\ Grounded(flow', rolling', log, posts) /\ Ordered(flow', rolling', Reach, snap, Len(log))
  <2> PICK r1 : r1 = Head(d).us
    OBVIOUS
  <2>1. w = "updates" /\ Len(rolling) = 0 /\ r1 = Head(flow[w].down).us
    BY <1>3
  <2> HIDE DEF d, w
  <2>2. flow' \in Flows /\ Grounded(flow', r1, log, posts) /\ Ordered(flow', r1, Reach, snap, Len(log))
    BY <1>1, <1>2, <2>1, TakeKeeps
  <2> QED
    BY <1>2, <2>2
<1>5. rolling' \in Seq(Updates)
  <2>1. Head(d) = d[1] /\ 1 \in 1 .. Len(d)
    BY <1>1, <1>2, TakeFacts
  <2> QED
    BY <1>1, <1>2, <2>1, FlowSeq
<1>6. TypeOK'
  BY <1>4, <1>5 DEF IInv, TypeOK, TakeLogs, host, user, history, counts, Flows, OneFlow
<1>7. PendingIsTrue'
  BY TypeFacts, PendingStill DEF IInv, TakeLogs, host, user, history
<1>8. Reach' = Reach
  BY DEF Reach, TakeLogs, history
<1> QED
  BY <1>4, <1>6, <1>7, <1>8 DEF IInv, TakeLogs, host, history

-----------------------------------------------------------------------------
(* The steps that change the copy.                                            *)
LEMMA CopyChanges ==
    ASSUME IInv, copy' \in Posts, CopyOK(copy', posts, Reach'), rolling' \in Seq(Updates),
           flow' \in Flows, Grounded(flow', rolling', log, posts),
           Ordered(flow', rolling', Reach', snap', Len(log)),
           count' \in Nat, load' \in BOOLEAN, heard' \in 0 .. Len(log), snap' \in 0 .. Len(log),
           pending' \subseteq pending, lost' \subseteq 0 .. MaxLog,
           UNCHANGED <<host, joined, debounce, cmds, news, refused, stalled, counts>>, PendingIsTrue'
    PROVE  IInv'
<1>1. heard' \in 0 .. MaxLog /\ snap' \in 0 .. MaxLog /\ heard' <= Len(log) /\ snap' <= Len(log)
  BY TypeFacts DEF IInv
<1>2. TypeOK'
  BY <1>1 DEF IInv, TypeOK, host, counts, Posts, Flows, OneFlow
<1> QED
  BY <1>1, <1>2 DEF IInv, host

LEMMA OrderedMore ==
    ASSUME NEW f, NEW r \in Seq(Updates), NEW k \in Nat, NEW k1 \in Nat, k <= k1, NEW s, NEW len \in Nat,
           f \in Flows, Ordered(f, r, k, s, len)
    PROVE  Ordered(f, r, k1, s, len)
<1>1. Bounded(f, k1)
  <2>1. ASSUME NEW w \in Wires PROVE f[w].arg <= k1 /\ f[w].retry <= k1
    <3>1. f[w].arg \in Int /\ f[w].retry \in Int
      BY ConstantsAssumption DEF Flows, OneFlow, Never
    <3>2. f[w].arg <= k /\ f[w].retry <= k
      BY DEF Ordered, Bounded
    <3> QED
      BY <3>1, <3>2
  <2> QED
    BY <2>1 DEF Bounded
<1>2. SnapsOK(f, k1, s)
  <2>1. \A c : Within(c, k) => Within(c, k1)
    BY DEF Within, Time
  <2> QED
    BY <2>1 DEF Ordered, SnapsOK
<1>3. RollOK(r, k1)
  <2>1. \A j \in 1 .. Len(r) : r[j].time \in Int
    <3>1. \A j \in 1 .. Len(r) : r[j] \in Updates
      BY ElementOfSeq
    <3> QED
      BY <3>1 DEF Updates, Time
  <2> QED
    BY <2>1 DEF Ordered, RollOK
<1>4. StreamOK(f["updates"].down, r, k1)
  <2> DEFINE d == f["updates"].down
  <2>1. \A n \in 1 .. Len(d) : \A j \in 1 .. Len(d[n].us) : d[n].us[j].time \in Int
    <3>1. ASSUME NEW n \in 1 .. Len(d), NEW j \in 1 .. Len(d[n].us) PROVE d[n].us[j].time \in Int
      <4>1. d[n].us \in Seq(Updates)
        BY FlowSeq DEF Wires
      <4>2. d[n].us[j] \in Updates
        BY <4>1, ElementOfSeq
      <4> QED
        BY <4>2 DEF Updates, Time
    <3> QED
      BY <3>1
  <2>2. StreamOK(d, r, k)
    BY DEF Ordered
  <2> HIDE DEF d
  <2>3. StreamOK(d, r, k1)
    BY <2>1, <2>2 DEF StreamOK
  <2> QED
    BY <2>3 DEF d
<1>5. f["updates"].st = "live" => TipOK(f["updates"].down, r, k1, len)
  BY DEF Ordered, TipOK
<1> QED
  BY <1>1, <1>2, <1>3, <1>4, <1>5 DEF Ordered

LEMMA MergedFacts ==
    ASSUME NEW c \in Posts, NEW ps \in Posts, NEW hp \in Posts, NEW k \in Nat,
           CopyOK(c, hp, k), \A i \in Time : Upto(ps[i], hp[i]), Within(ps, k)
    PROVE  /\ Merged(c, ps) \in Posts /\ CopyOK(Merged(c, ps), hp, k)
           /\ \A i \in Time : Upto(c[i], Merged(c, ps)[i])
<1>1. ASSUME NEW i \in Time
      PROVE  /\ Merged(c, ps)[i] \in Versions /\ Upto(Merged(c, ps)[i], hp[i])
             /\ Merged(c, ps)[i].st # "absent" => i <= k
             /\ Upto(c[i], Merged(c, ps)[i])
  <2>1. c[i] \in Versions /\ ps[i] \in Versions /\ hp[i] \in Versions
    BY DEF Posts
  <2>2. Merged(c, ps)[i] = MergePost(c[i], ps[i])
    BY DEF Merged
  <2>3. Upto(c[i], hp[i]) /\ Upto(ps[i], hp[i])
    BY DEF CopyOK
  <2>4. c[i].st # "absent" \/ ps[i].st # "absent" => i <= k
    BY DEF CopyOK, Within
  <2> QED
    BY <2>1, <2>2, <2>3, <2>4, MergeFacts
<1>2. Merged(c, ps) \in Posts
  BY <1>1 DEF Merged, Posts
<1> QED
  BY <1>1, <1>2 DEF CopyOK, Within

(* What is at the head of a flow.                                             *)
LEMMA HeadFacts ==
    ASSUME IInv, NEW w \in Wires, flow[w].down # <<>>
    PROVE  /\ Head(flow[w].down) = flow[w].down[1] /\ 1 \in 1 .. Len(flow[w].down)
           /\ Head(flow[w].down) \in Signs /\ SignOK(Head(flow[w].down), log, posts)
<1>1. flow \in Flows /\ flow[w].down \in Seq(Signs) /\ Len(flow[w].down) \in Nat
  BY FlowSeq, TypeFacts DEF IInv
<1>2. Head(flow[w].down) = flow[w].down[1] /\ Len(flow[w].down) # 0
  BY <1>1, EmptySeq
<1>3. 1 \in 1 .. Len(flow[w].down)
  BY <1>1, <1>2
<1> QED
  BY <1>1, <1>2, <1>3, FlowSeq DEF IInv, Grounded

LEMMA TakeCheckpointKeeps ==
    ASSUME IInv, TakeCheckpoint
    PROVE  IInv' /\ \A i \in Time : Upto(copy[i], copy'[i])
<1> PICK q : q = Head(flow["checkpoint"].down)
  OBVIOUS
<1> PICK f : f = StartUpdates(flow, copy', FALSE)
  OBVIOUS
<1> PICK h : h = SyncBacklog(f, copy', FALSE)
  OBVIOUS
<1>1. /\ Idle /\ flow["checkpoint"].down # <<>> /\ q.kind = "checkpoint"
      /\ copy' = Merged(copy, q.posts) /\ count' = q.count /\ load' = TRUE
      /\ flow' = [h EXCEPT !["checkpoint"] = Closed]
      /\ snap' = q.at
      /\ UNCHANGED <<host, joined, rolling, user, cmds, news, heard, lost, refused, stalled, counts>>
  BY DEF TakeCheckpoint, Applies
<1>2. /\ flow \in Flows /\ Reach \in Nat /\ snap \in Nat /\ heard \in Nat /\ Len(log) \in Nat
      /\ MaxLog \in Nat /\ Len(log) <= MaxLog /\ heard <= Len(log)
      /\ rolling \in Seq(Updates) /\ copy \in Posts /\ posts \in Posts
      /\ Grounded(flow, rolling, log, posts) /\ Ordered(flow, rolling, Reach, snap, Len(log))
      /\ CopyOK(copy, posts, Reach)
  BY TypeFacts DEF IInv
<1>3. /\ q \in Signs /\ SignOK(q, log, posts) /\ snap <= q.at
  <2>1. "checkpoint" \in Wires
    BY DEF Wires
  <2> QED
    BY <1>1, <2>1, HeadFacts DEF IInv, Ordered, SnapsOK
<1>4. /\ q.posts \in Posts /\ q.count \in Nat /\ q.at \in 0 .. Len(log) /\ Within(q.posts, q.at)
      /\ \A i \in Time : Upto(q.posts[i], posts[i])
  BY <1>2, <1>3 DEF Signs, SignOK, Posts
<1> DEFINE k == Larger(heard, q.at)
<1>5. k \in Nat /\ Reach <= k /\ q.at <= k /\ k \in 0 .. MaxLog /\ Reach' = k
  <2>1. q.at \in Nat /\ q.at <= MaxLog /\ heard <= MaxLog
    BY <1>2, <1>4
  <2>2. k \in {heard, q.at} /\ heard <= k /\ q.at <= k /\ k \in Nat
    BY <1>2, <2>1 DEF Larger
  <2>3. Reach \in {heard, snap}
    BY DEF Reach, Larger
  <2>4. Reach' = k
    BY <1>1 DEF Reach
  <2> HIDE DEF k
  <2> QED
    BY <1>2, <1>3, <2>1, <2>2, <2>3, <2>4
<1> HIDE DEF k
<1>6. Within(q.posts, k) /\ CopyOK(copy, posts, k)
  <2>1. Within(q.posts, q.at) /\ Within(copy, Reach) /\ q.at \in Nat
    BY <1>2, <1>4 DEF CopyOK
  <2>2. \A c, n : n \in Nat /\ n <= k /\ Within(c, n) => Within(c, k)
    BY <1>5 DEF Within, Time
  <2> QED
    BY <1>2, <1>5, <2>1, <2>2 DEF CopyOK
<1>7. copy' \in Posts /\ CopyOK(copy', posts, k) /\ \A i \in Time : Upto(copy[i], copy'[i])
  BY <1>1, <1>2, <1>4, <1>5, <1>6, MergedFacts
<1>8. Within(copy', k) /\ Ordered(flow, rolling, k, snap, Len(log)) /\ Bounded(flow, k)
  <2>1. Ordered(flow, rolling, k, snap, Len(log))
    BY <1>2, <1>5, OrderedMore
  <2> QED
    BY <1>7, <2>1 DEF CopyOK, Ordered
<1>9. Rewatched(flow, f) /\ Bounded(f, k)
  BY <1>2, <1>5, <1>7, <1>8, StartUpdatesFacts
<1>10. f \in Flows /\ Grounded(f, rolling, log, posts) /\ Ordered(f, rolling, k, snap, Len(log))
  BY <1>2, <1>8, <1>9, RewatchKeeps DEF Rewatched
<1>11. Rewatched(f, h) /\ Bounded(h, k)
  BY <1>5, <1>7, <1>8, <1>9, <1>10, SyncBacklogFacts
<1>12. h \in Flows /\ Grounded(h, rolling, log, posts) /\ Ordered(h, rolling, k, snap, Len(log))
  BY <1>10, <1>11, RewatchKeeps DEF Rewatched
<1>13. flow' = [v \in Wires |-> IF v \in {"checkpoint"} THEN Closed ELSE h[v]] /\ {"checkpoint"} \in SUBSET Wires
  BY <1>1, <1>12 DEF Flows, Wires
<1>14. /\ flow' \in Flows /\ Grounded(flow', rolling, log, posts)
       /\ Ordered(flow', rolling, k, q.at, Len(log))
  BY <1>5, <1>12, <1>13, ClosedKeeps
<1>15. PendingIsTrue'
  <2>1. /\ pending' = pending /\ heard' = heard /\ snap <= snap' /\ snap' \in Nat
        /\ refused' = refused /\ log' = log /\ cmds' = cmds
    BY <1>1, <1>2, <1>3, <1>4 DEF user, host
  <2> QED
    BY <1>2, <2>1, TypeFacts, PendingStill DEF IInv
<1>16. pending' \subseteq pending /\ lost' \subseteq 0 .. MaxLog /\ heard' \in 0 .. Len(log) /\ debounce' = debounce
  BY <1>1, <1>2 DEF user, IInv, TypeOK
<1>17. rolling' = rolling /\ snap' = q.at
  BY <1>1
<1> QED
  BY <1>1, <1>2, <1>4, <1>5, <1>7, <1>14, <1>15, <1>16, <1>17, CopyChanges

LEMMA OvertakenTyped == \A q \in Signs : Overtaken(q) \subseteq 0 .. MaxLog
BY ConstantsAssumption DEF Overtaken, Present, Time

LEMMA TakeBacklogKeeps ==
    ASSUME IInv, TakeBacklog
    PROVE  IInv' /\ \A i \in Time : Upto(copy[i], copy'[i])
<1> PICK q : q = Head(flow["backlog"].down)
  OBVIOUS
<1>1. /\ flow["backlog"].down # <<>>
      /\ copy' = Merged(copy, q.posts) /\ count' = q.count
      /\ flow' = [flow EXCEPT !["backlog"] = Closed]
      /\ lost' = lost \cup Overtaken(q)
      /\ UNCHANGED <<host, joined, load, rolling, user, cmds, news, snap, heard, refused, stalled, counts>>
  BY DEF TakeBacklog, Applies
<1>2. /\ flow \in Flows /\ Reach \in Nat /\ snap \in 0 .. Len(log) /\ heard \in 0 .. Len(log)
      /\ rolling \in Seq(Updates) /\ copy \in Posts /\ posts \in Posts
      /\ Grounded(flow, rolling, log, posts) /\ Ordered(flow, rolling, Reach, snap, Len(log))
      /\ CopyOK(copy, posts, Reach)
  BY TypeFacts DEF IInv
<1>3. q \in Signs /\ SignOK(q, log, posts) /\ Within(q.posts, Reach)
  <2>1. "backlog" \in Wires
    BY DEF Wires
  <2> QED
    BY <1>1, <2>1, HeadFacts DEF IInv, Ordered, SnapsOK
<1>4. q.posts \in Posts /\ q.count \in Nat /\ \A i \in Time : Upto(q.posts[i], posts[i])
  BY <1>3 DEF Signs, SignOK, Posts
<1>5. copy' \in Posts /\ CopyOK(copy', posts, Reach) /\ \A i \in Time : Upto(copy[i], copy'[i])
  BY <1>1, <1>2, <1>3, <1>4, MergedFacts
<1>6. flow' = [v \in Wires |-> IF v \in {"backlog"} THEN Closed ELSE flow[v]] /\ {"backlog"} \in SUBSET Wires
  BY <1>1, <1>2 DEF Flows, Wires
<1>7. /\ flow' \in Flows /\ Grounded(flow', rolling, log, posts)
      /\ Ordered(flow', rolling, Reach, snap, Len(log))
  BY <1>2, <1>6, ClosedKeeps
<1>8. PendingIsTrue'
  BY <1>1, TypeFacts, PendingStill DEF IInv, user, host
<1>9. /\ lost' \subseteq 0 .. MaxLog /\ pending' \subseteq pending /\ load' \in BOOLEAN
      /\ debounce' = debounce
  BY <1>1, <1>3, OvertakenTyped DEF IInv, TypeOK, user
<1>10. Reach' = Reach /\ rolling' = rolling /\ snap' = snap
  BY <1>1 DEF Reach
<1> QED
  BY <1>1, <1>2, <1>4, <1>5, <1>7, <1>8, <1>9, <1>10, CopyChanges

LEMMA RollOrder ==
    ASSUME NEW f \in Flows, NEW r \in Seq(Updates), r # <<>>, NEW k \in Nat, NEW s, NEW len \in Nat,
           Ordered(f, r, k, s, len)
    PROVE  /\ Head(r).time <= k + 1
           /\ Ordered(f, Tail(r), Larger(k, Head(r).time), s, len)
<1> DEFINE u  == Head(r)
           r1 == Tail(r)
           k1 == Larger(k, u.time)
<1>1. /\ u = r[1] /\ Len(r) \in Nat \ {0} /\ Len(r1) = Len(r) - 1
      /\ \A j \in 1 .. Len(r1) : r1[j] = r[j + 1]
      /\ r1 \in Seq(Updates) /\ \A j \in 1 .. Len(r) : r[j] \in Updates /\ r[j].time \in Nat
  <2>1. \A j \in 1 .. Len(r) : r[j] \in Updates
    BY ElementOfSeq
  <2> QED
    BY <2>1, HeadTailProperties, EmptySeq DEF Updates, Time
<1> HIDE DEF r1, u
<1>2. u.time \in Nat /\ u.time <= k + 1 /\ k1 \in Nat /\ k <= k1 /\ u.time <= k1
  <2>1. 1 \in 1 .. Len(r)
    BY <1>1
  <2> QED
    BY <1>1, <2>1 DEF Ordered, RollOK, Larger
<1> HIDE DEF k1
<1>3. \A t \in Int : t - 1 = u.time => t <= k1 + 1
  <2>1. \A x \in Nat, y \in Nat : x <= y => \A t \in Int : t - 1 = x => t <= y + 1
    OBVIOUS
  <2> QED
    BY <1>2, <2>1
<1>4. Ordered(f, r, k1, s, len)
  BY <1>2, OrderedMore
<1>5. RollOK(r1, k1)
  <2>1. ASSUME NEW j \in 1 .. Len(r1)
        PROVE  r1[j].time <= k1 + 1 \/ (j > 1 /\ r1[j - 1].time = r1[j].time - 1)
    <3>1. j + 1 \in 1 .. Len(r) /\ r1[j] = r[j + 1] /\ j \in Nat
      BY <1>1
    <3>2. r[j + 1].time <= k1 + 1 \/ r[j].time = r[j + 1].time - 1
      BY <1>4, <3>1 DEF Ordered, RollOK
    <3>3. CASE j = 1
      BY <1>1, <1>2, <3>1, <3>2, <3>3
    <3>4. CASE j # 1
      <4>1. j - 1 \in 1 .. Len(r1) /\ r1[j - 1] = r[j] /\ j > 1
        BY <1>1, <3>4
      <4> QED
        BY <3>1, <3>2, <4>1
    <3> QED
      BY <3>3, <3>4
  <2> QED
    BY <2>1 DEF RollOK
<1> DEFINE d == f["updates"].down
<1>6. ASSUME NEW n, NEW t, Ahead(d, r, n, t) PROVE t = u.time \/ Ahead(d, r1, n, t)
  <2>1. ASSUME NEW j \in 1 .. Len(r), r[j].time = t PROVE t = u.time \/ Ahead(d, r1, n, t)
    <3>1. CASE j = 1
      BY <1>1, <2>1, <3>1
    <3>2. CASE j # 1
      <4>1. j - 1 \in 1 .. Len(r1) /\ r1[j - 1] = r[j]
        BY <1>1, <3>2
      <4> QED
        BY <2>1, <4>1 DEF Ahead
    <3> QED
      BY <3>1, <3>2
  <2> QED
    BY <1>6, <2>1 DEF Ahead
<1>7. \A n \in 1 .. Len(d) : \A j \in 1 .. Len(d[n].us) : d[n].us[j].time \in Int
  <2>1. ASSUME NEW n \in 1 .. Len(d), NEW j \in 1 .. Len(d[n].us) PROVE d[n].us[j].time \in Int
    <3>1. d[n].us \in Seq(Updates)
      BY FlowSeq DEF Wires
    <3>2. d[n].us[j] \in Updates
      BY <3>1, ElementOfSeq
    <3>3. d[n].us[j].time \in Time
      BY <3>2 DEF Updates
    <3> QED
      BY <3>3 DEF Time
  <2> QED
    BY <2>1
<1>8. StreamOK(d, r, k1) /\ (f["updates"].st = "live" => TipOK(d, r, k1, len))
  BY <1>4 DEF Ordered
<1> HIDE DEF d
<1>9. StreamOK(d, r1, k1)
  <2>1. ASSUME NEW n \in 1 .. Len(d), NEW j \in 1 .. Len(d[n].us)
        PROVE  \/ d[n].us[j].time <= k1 + 1
               \/ j > 1 /\ d[n].us[j - 1].time = d[n].us[j].time - 1
               \/ Ahead(d, r1, n, d[n].us[j].time - 1)
    <3>1. CASE Ahead(d, r, n, d[n].us[j].time - 1)
      <4> PICK t \in Int : t = d[n].us[j].time
        BY <1>7
      <4>1. t - 1 = u.time \/ Ahead(d, r1, n, t - 1)
        BY <1>6, <3>1
      <4> QED
        BY <1>3, <4>1
    <3> QED
      BY <1>8, <3>1 DEF StreamOK
  <2> QED
    BY <2>1 DEF StreamOK
<1>10. TipOK(d, r, k1, len) => TipOK(d, r1, k1, len)
  BY <1>2, <1>6 DEF TipOK
<1>11. Ordered(f, r1, k1, s, len)
  BY <1>4, <1>5, <1>8, <1>9, <1>10 DEF Ordered, d
<1> QED
  BY <1>2, <1>11 DEF r1, k1, u

(* The next update: what continues the copy is not in it yet, so that a         *)
(* message is cleared when its post is heard of first.                        *)
LEMMA RollKeeps ==
    ASSUME IInv, Roll
    PROVE  IInv' /\ \A i \in Time : Upto(copy[i], copy'[i])
<1> PICK u : u = Head(rolling)
  OBVIOUS
<1>1. /\ rolling # <<>> /\ rolling' = Tail(rolling)
      /\ copy' = [copy EXCEPT ![u.id] = ApplyUpdate(@, u)]
      /\ count' = IF u.kind = "set" /\ copy[u.id].st = "absent" THEN Larger(count, u.v.seq) ELSE count
      /\ pending' = Cleared(u)
      /\ heard' = Larger(heard, u.time)
      /\ lost' = IF count' # count THEN lost \ {0} ELSE lost
      /\ UNCHANGED <<host, joined, load, debounce, flow, cmds, news, snap, refused, stalled, counts>>
  BY DEF Roll
<1>2. /\ flow \in Flows /\ Reach \in Nat /\ snap \in 0 .. Len(log) /\ heard \in 0 .. Len(log)
      /\ Len(log) \in Nat /\ log \in Seq(Updates)
      /\ rolling \in Seq(Updates) /\ copy \in Posts /\ posts \in Posts
      /\ Grounded(flow, rolling, log, posts) /\ Ordered(flow, rolling, Reach, snap, Len(log))
      /\ CopyOK(copy, posts, Reach)
  BY TypeFacts DEF IInv
<1>3. /\ rolling' \in Seq(Updates) /\ u = rolling[1] /\ Len(rolling) \in Nat \ {0}
      /\ Len(rolling') = Len(rolling) - 1
      /\ \A j \in 1 .. Len(rolling') : rolling'[j] = rolling[j + 1]
  BY <1>1, <1>2, HeadTailProperties, EmptySeq
<1>4. UpOK(u, log) /\ \A j \in 1 .. Len(rolling') : UpOK(rolling'[j], log)
  <2>1. 1 \in 1 .. Len(rolling) /\ \A j \in 1 .. Len(rolling') : j + 1 \in 1 .. Len(rolling)
    BY <1>3
  <2> QED
    BY <1>2, <1>3, <2>1 DEF Grounded
<1> PICK t : t = u.time
  OBVIOUS
<1>5. /\ t \in 1 .. Len(log) /\ u = log[t] /\ u \in Updates /\ EntryOK(u, t, posts)
  <2>1. t \in 1 .. Len(log) /\ u = log[t]
    BY <1>4 DEF UpOK
  <2> QED
    BY <1>2, <2>1, ElementOfSeq DEF IInv, LogOK
<1>6. /\ u.id \in Time /\ u.v \in Versions /\ u.id <= t /\ Upto(u.v, posts[u.id])
      /\ (u.kind # "set" => u.v.st = "live") /\ u.v.st # "absent"
      /\ (u.id = t => u.kind = "set" /\ u.v.st = "live")
  BY <1>5 DEF Updates, EntryOK
<1> DEFINE k == Larger(Reach, t)
<1>7. k \in Nat /\ Reach <= k /\ t <= k /\ Reach' = k /\ heard' \in 0 .. Len(log)
      /\ (heard' = heard \/ heard' = t)
  BY <1>1, <1>2, <1>5 DEF Reach, Larger
<1>8. t <= Reach + 1 /\ Ordered(flow, rolling', k, snap, Len(log))
  BY <1>1, <1>2, RollOrder
<1> HIDE DEF k
<1>9. Grounded(flow, rolling', log, posts)
  BY <1>2, <1>4 DEF Grounded
<1>10. /\ copy' \in Posts /\ CopyOK(copy', posts, k)
       /\ \A i \in Time : Upto(copy[i], copy'[i])
  <2> PICK v : v = ApplyUpdate(copy[u.id], u)
    OBVIOUS
  <2>1. copy[u.id] \in Versions /\ posts[u.id] \in Versions /\ \A i \in Time : copy[i] \in Versions
    BY <1>2, <1>6 DEF Posts
  <2>2. Upto(copy[u.id], posts[u.id])
    BY <1>2, <1>6 DEF CopyOK
  <2>3. v \in Versions /\ Upto(copy[u.id], v) /\ Upto(v, posts[u.id])
    BY <1>5, <1>6, <2>1, <2>2, ApplyFacts
  <2>4. copy' = [copy EXCEPT ![u.id] = v]
    BY <1>1
  <2>5. copy' \in Posts /\ copy'[u.id] = v /\ \A i \in Time \ {u.id} : copy'[i] = copy[i]
    BY <1>2, <1>6, <2>3, <2>4 DEF Posts
  <2>6. \A i \in Time : Upto(copy[i], copy'[i])
    BY <2>1, <2>3, <2>5, UptoSelf
  <2>7. \A i \in Time : Upto(copy'[i], posts[i])
    BY <1>2, <2>3, <2>5 DEF CopyOK
  <2>8. Within(copy', k)
    <3>1. SUFFICES ASSUME NEW i \in Time, copy'[i].st # "absent" PROVE i <= k
      BY DEF Within
    <3>2. Reach \in Int /\ t \in Int /\ i \in Int
      BY <1>2, <1>5 DEF Time
    <3>3. CASE i = u.id
      BY <1>6, <1>7, <3>2, <3>3
    <3>4. CASE i # u.id
      <4>1. i <= Reach
        BY <1>2, <2>5, <3>1, <3>4 DEF CopyOK, Within
      <4> QED
        BY <1>7, <3>2, <4>1
    <3> QED
      BY <3>3, <3>4
  <2> QED
    BY <2>5, <2>6, <2>7, <2>8 DEF CopyOK
<1>11. pending' \subseteq pending
  BY <1>1 DEF Cleared
<1>12. PendingIsTrue'
  <2>1. ASSUME NEW x \in 1 .. Len(log), NEW m \in pending', x \in Posting(m), x > heard \/ x <= snap
        PROVE  x > heard' \/ x <= snap'
    <3> SUFFICES ASSUME ~(x > heard'), ~(x <= snap) PROVE FALSE
      BY <1>1
    <3>1. x = t /\ x > Reach
      BY <1>2, <1>5, <1>7, <1>8, <2>1 DEF Reach, Larger
    <3>2. u.id = t /\ u.v.msg = m
      BY <1>5, <2>1, <3>1 DEF Posting
    <3>3. u.kind = "set" /\ u.v.st = "live" /\ copy[u.id].st = "absent"
      BY <1>2, <1>6, <3>1, <3>2 DEF CopyOK, Within, Time
    <3> QED
      BY <1>1, <3>2, <3>3 DEF Cleared
  <2> QED
    BY <1>1, <1>2, <1>11, <2>1, PendingStill DEF IInv, host
<1>13. count' \in Nat
  <2>1. count \in Nat /\ u.v.seq \in Nat
    BY <1>6 DEF IInv, TypeOK, Versions
  <2> QED
    BY <1>1, <2>1 DEF Larger
<1>14. lost' \subseteq 0 .. MaxLog /\ load' \in BOOLEAN
  BY <1>1 DEF IInv, TypeOK
<1>15. flow' = flow /\ snap' = snap /\ debounce' = debounce
  BY <1>1
<1> QED
  BY <1>1, <1>2, <1>3, <1>7, <1>8, <1>9, <1>10, <1>11, <1>12, <1>13, <1>14, <1>15, CopyChanges

-----------------------------------------------------------------------------
(* A step adds to the log or to the copy, or forgets the copy, or neither.     *)
Moves ==
    \/ copy' = copy /\ \A i \in Time : Upto(posts[i], posts'[i])
    \/ posts' = posts /\ \A i \in Time : Upto(copy[i], copy'[i])
    \/ posts' = posts /\ copy' = Empty

LEMMA InitIInv == Init => IInv
<1> SUFFICES ASSUME Init PROVE IInv
  OBVIOUS
<1>1. Empty \in Posts /\ (\A n : Within(Empty, n)) /\ \A i \in Time : Empty[i].st = "absent"
  BY AbsentTyped DEF Empty, Absent
<1>2. /\ Closed \in OneFlow /\ Closed.arg = 0 /\ Closed.retry <= 0 /\ Len(Closed.down) = 0
      /\ Closed.st # "live"
  BY ConstantsAssumption, EmptySeq DEF Closed, OneFlow, Never
<1>3. flow \in Flows /\ \A w \in Wires : flow[w] = Closed
  BY <1>2 DEF Init, Flows
<1>4. Len(log) = 0 /\ Len(rolling) = 0 /\ Reach = 0 /\ <<>> \in Seq(Updates)
      /\ <<>> \in Seq(Message) /\ <<>> \in Seq(BOOLEAN)
  BY DEF Init, Reach, Larger
<1>5. TypeOK
  <2>1. 0 \in 0 .. MaxLog /\ 0 <= MaxLog /\ 0 \in 0 .. MaxSends /\ 0 \in 0 .. MaxFaults
    BY ConstantsAssumption
  <2> QED
    BY <1>1, <1>3, <1>4, <2>1 DEF Init, TypeOK, Flows, OneFlow, Posts
<1>6. LogOK(log, posts) /\ CopyOK(copy, posts, Reach)
  BY <1>1, <1>4 DEF Init, LogOK, CopyOK, Upto
<1>7. Grounded(flow, rolling, log, posts)
  BY <1>2, <1>3, <1>4 DEF Grounded
<1>8. Ordered(flow, rolling, Reach, snap, Len(log))
  <2>1. "updates" \in Wires /\ "checkpoint" \in Wires /\ "backlog" \in Wires
    BY DEF Wires
  <2>2. Bounded(flow, 0)
    BY <1>2, <1>3 DEF Bounded
  <2>3. SnapsOK(flow, 0, snap)
    BY <1>2, <1>3, <2>1 DEF SnapsOK
  <2>4. RollOK(rolling, 0) /\ StreamOK(flow["updates"].down, rolling, 0)
    BY <1>2, <1>3, <1>4, <2>1 DEF RollOK, StreamOK
  <2> QED
    BY <1>2, <1>3, <1>4, <2>1, <2>2, <2>3, <2>4 DEF Ordered
<1>9. PendingIsTrue /\ heard <= Len(log) /\ snap <= Len(log)
  BY <1>4 DEF Init, PendingIsTrue
<1> QED
  BY <1>5, <1>6, <1>7, <1>8, <1>9 DEF IInv

LEMMA NextIInv == IInv /\ [Next]_vars => IInv'
<1> SUFFICES ASSUME IInv, [Next]_vars PROVE IInv'
  OBVIOUS
<1>1. CASE HostPosts
  BY <1>1, HostPostsKeeps
<1>2. CASE \E id \in Time : HostRevises(id)
  BY <1>2, HostRevisesKeeps
<1>3. CASE HostTakes
  BY <1>3, HostTakesKeeps
<1>4. CASE Revoke
  BY <1>4, RevokeKeeps
<1>5. CASE Restore
  BY <1>5, RestoreKeeps
<1>6. ASSUME NEW w \in Wires, WatchArrives(w) \/ Clog(w) \/ Wake(w) PROVE IInv'
  BY <1>6, WatchArrivesKeeps, ClogKeeps, WakeKeeps
<1>7. ASSUME NEW w \in Wires, Takes(w) PROVE IInv'
  BY <1>7, TakeKickKeeps, TakeNackKeeps, TakeLogsKeeps, TakeCheckpointKeeps, TakeBacklogKeeps DEF Takes
<1>8. CASE Roll
  BY <1>8, RollKeeps
<1>9. CASE Join
  BY <1>9, JoinKeeps
<1>10. CASE Leave
  BY <1>10, LeaveKeeps
<1>11. CASE OnLoad
  BY <1>11, OnLoadKeeps
<1>12. CASE Recheck
  BY <1>12, RecheckKeeps
<1>13. CASE \E m \in Message : Send(m)
  BY <1>13, SendKeeps
<1>14. CASE UNCHANGED vars
  <2>1. UNCHANGED <<log, posts, total, copy, count, rolling, pending, cmds, snap, heard, refused,
                    allowed, joined, load, stalled, news, debounce, lost, sends, faults, flow>>
    BY <1>14 DEF vars, host, sub, user, history, counts
  <2> QED
    BY <2>1, FlowingNow, FlowChanges DEF IInv, TypeOK
<1> QED
  BY <1>1, <1>2, <1>3, <1>4, <1>5, <1>6, <1>7, <1>8, <1>9, <1>10, <1>11, <1>12, <1>13, <1>14 DEF Next

LEMMA NextMoves == IInv /\ [Next]_vars => Moves
<1> SUFFICES ASSUME IInv, [Next]_vars PROVE Moves
  OBVIOUS
<1>1. ASSUME NEW id, NEW v, Published(id, v), copy' = copy PROVE Moves
  BY <1>1 DEF Published, Grows, Moves
<1>2. CASE posts' = posts /\ copy' = copy
  <2>1. \A i \in Time : Upto(posts[i], posts'[i])
    BY <1>2, TypeFacts, UptoSelf DEF IInv, Posts
  <2> QED
    BY <1>2, <2>1 DEF Moves
<1>3. CASE HostPosts
  <2>1. copy' = copy /\ Add(NoMessage)
    BY <1>3 DEF HostPosts, sub
  <2> QED
    BY <1>1, <2>1, AddPublishes
<1>4. ASSUME NEW id \in Time, HostRevises(id) PROVE Moves
  <2>1. copy' = copy /\ posts[id].st = "live" /\ Revised(id)
    BY <1>4 DEF HostRevises, sub
  <2> QED
    BY <1>1, <2>1, RevisedPublishes
<1>5. CASE HostTakes
  <2>1. copy' = copy /\ Head(cmds) \in Message
    BY <1>5, TypeFacts, HeadTailProperties DEF HostTakes, sub, IInv
  <2>2. Add(Head(cmds)) \/ posts' = posts
    BY <1>5 DEF HostTakes
  <2>3. CASE Add(Head(cmds))
    BY <1>1, <2>1, <2>3, AddPublishes
  <2> QED
    BY <1>2, <2>1, <2>2, <2>3
<1>6. CASE Revoke \/ Restore \/ Join \/ OnLoad \/ Recheck
  BY <1>2, <1>6 DEF Revoke, Restore, Join, OnLoad, Recheck, host, sub
<1>7. ASSUME NEW w \in Wires, WatchArrives(w) \/ Clog(w) \/ Wake(w) PROVE Moves
  BY <1>2, <1>7 DEF WatchArrives, Clog, Wake, host, sub
<1>8. ASSUME NEW w \in Wires, Takes(w) PROVE Moves
  <2>1. CASE TakeKick(w) \/ TakeNack(w) \/ TakeLogs
    BY <1>2, <2>1 DEF TakeKick, TakeNack, TakeLogs, host, sub
  <2>2. CASE TakeCheckpoint
    BY <2>2, TakeCheckpointKeeps DEF TakeCheckpoint, Moves, host
  <2>3. CASE TakeBacklog
    BY <2>3, TakeBacklogKeeps DEF TakeBacklog, Moves, host
  <2> QED
    BY <1>8, <2>1, <2>2, <2>3 DEF Takes
<1>9. CASE Roll
  BY <1>9, RollKeeps DEF Roll, Moves, host
<1>10. CASE Leave
  BY <1>10 DEF Leave, Moves, host
<1>11. ASSUME NEW m \in Message, Send(m) PROVE Moves
  BY <1>2, <1>11 DEF Send, host, sub
<1>12. CASE UNCHANGED vars
  BY <1>2, <1>12 DEF vars, host, sub
<1> QED
  BY <1>3, <1>4, <1>5, <1>6, <1>7, <1>8, <1>9, <1>10, <1>11, <1>12 DEF Next

-----------------------------------------------------------------------------
(* IInv is an invariant: what is on its way was true of the host when it was    *)
(* sent (channels-server.hoon), and is in an order that skips nothing.         *)
THEOREM Invariance == Spec => []IInv
<1> QED
  BY InitIInv, NextIInv, PTL DEF Spec

(* The state keeps its types, for any messages, page size and bounds.          *)
THEOREM TypeCorrect == Spec => []TypeOK
<1>1. IInv => TypeOK
  BY DEF IInv
<1> QED
  BY <1>1, Invariance, PTL

(* A message is shown as pending only while its command or its post is on its   *)
(* way, or it was refused, or it came with the checkpoint (ca-u-post).          *)
THEOREM PendingStaysTrue == Spec => []PendingIsTrue
<1>1. IInv => PendingIsTrue
  BY DEF IInv
<1> QED
  BY <1>1, Invariance, PTL

LEMMA UptoIsLeq ==
    ASSUME NEW a \in Versions, NEW b \in Versions, Upto(a, b) PROVE Feed!Leq(Plain(a), Plain(b))
BY DEF Upto, Versions, Plain, Feed!Leq

LEMMA UptoIsForward ==
    ASSUME NEW c \in Posts, NEW d \in Posts, \A i \in Time : Upto(c[i], d[i])
    PROVE  Feed!Forward([i \in Time |-> Plain(c[i])], [i \in Time |-> Plain(d[i])])
<1>1. \A i \in Time : Feed!Leq(Plain(c[i]), Plain(d[i]))
  BY UptoIsLeq DEF Posts
<1> QED
  BY <1>1 DEF Feed!Forward

LEMMA PlainEmpty == [i \in Time |-> Plain(Empty[i])] = Feed!Empty
BY DEF Empty, Absent, Plain, Feed!Empty, Feed!Absent

LEMMA NextFollows == IInv /\ IInv' /\ [Next]_vars => [Feed!Next]_(Feed!vars)
<1> SUFFICES ASSUME IInv, IInv', [Next]_vars PROVE Feed!Next
  OBVIOUS
<1>1. posts \in Posts /\ copy \in Posts /\ posts' \in Posts /\ copy' \in Posts
  BY DEF IInv, TypeOK, Posts
<1>2. \A i \in Time : Upto(copy'[i], posts'[i])
  BY DEF IInv, CopyOK
<1>3. Moves
  BY NextMoves
<1>4. CASE copy' = copy /\ \A i \in Time : Upto(posts[i], posts'[i])
  BY <1>1, <1>4, UptoIsForward DEF Feed!Next, Feed!Publish
<1>5. CASE posts' = posts /\ \A i \in Time : Upto(copy[i], copy'[i])
  BY <1>1, <1>2, <1>5, UptoIsForward DEF Feed!Next, Feed!Learn
<1>6. CASE posts' = posts /\ copy' = Empty
  BY <1>6, PlainEmpty DEF Feed!Next, Feed!Forget
<1> QED
  BY <1>3, <1>4, <1>5, <1>6 DEF Moves

(* The copy follows the host (Replica): it only goes forward, and it never      *)
(* knows what the host did not publish, however its facts are repeated, lost    *)
(* with a watch, or overtaken by those of another.                            *)
THEOREM CopyFollows == Spec => ReplicaSpec
<1>1. Init => Feed!Init
  BY PlainEmpty DEF Init, Feed!Init
<1>2. IInv /\ IInv' /\ [Next]_vars => [Feed!Next]_(Feed!vars)
  BY NextFollows
<1> QED
  BY <1>1, <1>2, Invariance, PTL DEF Spec, ReplicaSpec, Feed!Spec

-----------------------------------------------------------------------------
(* That the copy is the same in the end: what it lacks, it will be told.       *)
ReplyUpto(a, b) == a = NoReply \/ b = Deleted \/ (a > NoReply /\ b > NoReply)

(* v and p are versions of one post, p the newest.                            *)
Alike(v, p) ==
    /\ v.seq = p.seq
    /\ p.st = "live" => v.msg = p.msg /\ ReplyUpto(v.reply, p.reply)
    /\ v.st = "dead" => v = Tombstone(p)

(* What v lacks of p, the log lg says of the post i at one of the times C.     *)
Says(t, i, kinds, lg) == lg[t].id = i /\ lg[t].kind \in kinds
Told(v, p, i, lg, C) ==
    IF p.st = "dead"
    THEN v.st = "dead" \/ \E t \in C : Says(t, i, {"set"}, lg) /\ lg[t].v.st = "dead"
    ELSE /\ v.rev = p.rev \/ \E t \in C : Says(t, i, {"set"}, lg) /\ lg[t].v.rev = p.rev
         /\ v.reacts = p.reacts \/ \E t \in C : Says(t, i, {"set", "reacts"}, lg) /\ lg[t].v.reacts = p.reacts
         /\ v.reply = p.reply \/ \E t \in C : Says(t, i, {"set", "reply"}, lg) /\ lg[t].v.reply = p.reply

Agree(C, lg, lg1) == \A t \in C : lg1[t] = lg[t]

LEMMA ToldMore ==
    ASSUME NEW v, NEW p, NEW i, NEW lg, NEW lg1, NEW C, NEW D, C \subseteq D, Agree(C, lg, lg1),
           Told(v, p, i, lg, C)
    PROVE  Told(v, p, i, lg1, D)
<1>1. CASE p.st = "dead"
  BY <1>1 DEF Told, Says, Agree
<1>2. CASE p.st # "dead"
  BY <1>2 DEF Told, Says, Agree
<1> QED
  BY <1>1, <1>2

(* Nothing is lacking if nothing is still to be said.                         *)
LEMMA ToldAll ==
    ASSUME NEW v \in Versions, NEW p \in Versions, NEW i, NEW lg, v.st # "absent", p.st # "absent",
           Upto(v, p), Alike(v, p), Alike(p, p), Told(v, p, i, lg, {})
    PROVE  v = p
<1>1. CASE p.st = "dead"
  <2>1. v.st = "dead"
    BY <1>1 DEF Told
  <2> QED
    BY <1>1, <2>1 DEF Alike
<1>2. CASE p.st = "live"
  <2>1. v.st = "live" /\ v.seq = p.seq /\ v.msg = p.msg
    BY <1>2 DEF Alike, Upto
  <2>2. v.rev = p.rev /\ v.reacts = p.reacts /\ v.reply = p.reply
    BY <1>2 DEF Told
  <2> QED
    BY <1>2, <2>1, <2>2 DEF Versions
<1> QED
  BY <1>1, <1>2 DEF Versions

LEMMA LargerReaches ==
    ASSUME NEW a \in Nat, NEW b \in Nat, NEW p \in Nat, a <= p, b <= p, a = p \/ b = p
    PROVE  Larger(a, b) = p
BY DEF Larger

LEMMA LiveMerged ==
    ASSUME NEW a \in Versions, NEW b \in Versions, a.st = "live", b.st = "live"
    PROVE  /\ MergePost(a, b).st = "live" /\ MergePost(a, b).seq = a.seq /\ MergePost(a, b).msg = a.msg
           /\ MergePost(a, b).rev = Larger(a.rev, b.rev)
           /\ MergePost(a, b).reacts = Larger(a.reacts, b.reacts)
           /\ MergePost(a, b).reply = MergeReply(a.reply, b.reply)
<1> DEFINE rev    == Larger(a.rev, b.rev)
           reacts == Larger(a.reacts, b.reacts)
           reply  == MergeReply(a.reply, b.reply)
<1>1. MergePost(a, b) = [a EXCEPT !.rev = rev, !.reacts = reacts, !.reply = reply]
  BY DEF MergePost
<1> HIDE DEF rev, reacts, reply
<1>2. MergePost(a, b).st = a.st /\ MergePost(a, b).seq = a.seq /\ MergePost(a, b).msg = a.msg
      /\ MergePost(a, b).rev = rev /\ MergePost(a, b).reacts = reacts /\ MergePost(a, b).reply = reply
  BY <1>1 DEF Versions
<1> QED
  BY <1>2 DEF rev, reacts, reply

LEMMA ReplyMerged ==
    ASSUME NEW a \in Int, NEW b \in Int, NEW p \in Int, ReplyUpto(a, p), ReplyUpto(b, p), ReplyUpto(p, p)
    PROVE  /\ ReplyUpto(MergeReply(a, b), p)
           /\ b = p => MergeReply(a, b) = p
           /\ a = p /\ MergeReply(a, b) = a => MergeReply(a, b) = p
           /\ MergeReply(a, b) \in {a, b}
BY DEF ReplyUpto, MergeReply, NoReply, Deleted

LEMMA MergeAlike ==
    ASSUME NEW a \in Versions, NEW b \in Versions, NEW p \in Versions,
           a.st # "absent", b.st # "absent", p.st # "absent",
           Upto(a, p), Upto(b, p), Alike(a, p), Alike(b, p), Alike(p, p)
    PROVE  Alike(MergePost(a, b), p)
<1>1. CASE a.st = "dead" \/ b.st = "dead"
  BY <1>1 DEF MergePost
<1>2. CASE a.st = "live" /\ b.st = "live"
  <2>1. a.reply \in Int /\ b.reply \in Int /\ p.reply \in Int
    BY DEF Versions
  <2>2. p.st = "live" => ReplyUpto(MergeReply(a.reply, b.reply), p.reply)
    BY <2>1, ReplyMerged DEF Alike
  <2> QED
    BY <1>2, <2>2, LiveMerged DEF Alike
<1> QED
  BY <1>1, <1>2 DEF Versions

(* What is merged lacks no more than the new version.                         *)
LEMMA MergeTellsNew ==
    ASSUME NEW a \in Versions, NEW b \in Versions, NEW p \in Versions, NEW i, NEW lg, NEW C,
           a.st # "absent", b.st # "absent", p.st # "absent",
           Upto(a, p), Upto(b, p), Alike(a, p), Alike(b, p), Alike(p, p), Told(b, p, i, lg, C)
    PROVE  Told(MergePost(a, b), p, i, lg, C)
<1>1. CASE p.st = "dead"
  <2>1. CASE a.st = "dead" \/ b.st = "dead"
    BY <1>1, <2>1 DEF MergePost, Told
  <2>2. CASE a.st # "dead" /\ b.st # "dead"
    BY <1>1, <2>2 DEF Told
  <2> QED
    BY <2>1, <2>2
<1>2. CASE p.st = "live"
  <2>1. a.st = "live" /\ b.st = "live"
    BY <1>2 DEF Upto
  <2>2. a.reply \in Int /\ b.reply \in Int /\ p.reply \in Int
    BY DEF Versions
  <2>3. b.reply = p.reply => MergePost(a, b).reply = p.reply
    BY <1>2, <2>1, <2>2, ReplyMerged, LiveMerged DEF Alike
  <2>4. /\ a.rev <= p.rev /\ b.rev <= p.rev /\ a.reacts <= p.reacts /\ b.reacts <= p.reacts
        /\ {a.rev, b.rev, p.rev, a.reacts, b.reacts, p.reacts} \subseteq Nat
    BY <1>2, <2>1 DEF Upto, Versions
  <2>5. b.rev = p.rev => MergePost(a, b).rev = p.rev
    BY <2>1, <2>4, LargerReaches, LiveMerged
  <2>6. b.reacts = p.reacts => MergePost(a, b).reacts = p.reacts
    BY <2>1, <2>4, LargerReaches, LiveMerged
  <2> QED
    BY <1>2, <2>3, <2>5, <2>6 DEF Told
<1> QED
  BY <1>1, <1>2 DEF Versions

(* ... nor than the old one, if that keeps its reply.                         *)
LEMMA MergeTellsOld ==
    ASSUME NEW a \in Versions, NEW b \in Versions, NEW p \in Versions, NEW i, NEW lg, NEW C,
           a.st # "absent", b.st # "absent", p.st # "absent",
           Upto(a, p), Upto(b, p), Alike(a, p), Alike(b, p), Alike(p, p), Told(a, p, i, lg, C),
           MergePost(a, b).reply = a.reply
    PROVE  Told(MergePost(a, b), p, i, lg, C)
<1>1. CASE p.st = "dead"
  <2>1. CASE a.st = "dead" \/ b.st = "dead"
    BY <1>1, <2>1 DEF MergePost, Told
  <2>2. CASE a.st # "dead" /\ b.st # "dead"
    BY <1>1, <2>2 DEF Told
  <2> QED
    BY <2>1, <2>2
<1>2. CASE p.st = "live"
  <2>1. a.st = "live" /\ b.st = "live"
    BY <1>2 DEF Upto
  <2>4. /\ a.rev <= p.rev /\ b.rev <= p.rev /\ a.reacts <= p.reacts /\ b.reacts <= p.reacts
        /\ {a.rev, b.rev, p.rev, a.reacts, b.reacts, p.reacts} \subseteq Nat
    BY <1>2, <2>1 DEF Upto, Versions
  <2>5. a.rev = p.rev => MergePost(a, b).rev = p.rev
    BY <2>1, <2>4, LargerReaches, LiveMerged
  <2>6. a.reacts = p.reacts => MergePost(a, b).reacts = p.reacts
    BY <2>1, <2>4, LargerReaches, LiveMerged
  <2> QED
    BY <1>2, <2>5, <2>6 DEF Told
<1> QED
  BY <1>1, <1>2 DEF Versions

LEMMA ReactsApplied ==
    ASSUME NEW a \in Versions, NEW u \in Updates, u.kind = "reacts", a.st = "live"
    PROVE  /\ ApplyUpdate(a, u).st = "live" /\ ApplyUpdate(a, u).seq = a.seq /\ ApplyUpdate(a, u).msg = a.msg
           /\ ApplyUpdate(a, u).rev = a.rev /\ ApplyUpdate(a, u).reply = a.reply
           /\ ApplyUpdate(a, u).reacts = Larger(a.reacts, u.v.reacts)
<1> DEFINE reacts == Larger(a.reacts, u.v.reacts)
<1>1. ApplyUpdate(a, u) = [a EXCEPT !.reacts = reacts]
  BY DEF ApplyUpdate
<1> HIDE DEF reacts
<1>2. ApplyUpdate(a, u).st = a.st /\ ApplyUpdate(a, u).seq = a.seq /\ ApplyUpdate(a, u).msg = a.msg
      /\ ApplyUpdate(a, u).rev = a.rev /\ ApplyUpdate(a, u).reply = a.reply /\ ApplyUpdate(a, u).reacts = reacts
  BY <1>1 DEF Versions
<1> QED
  BY <1>2 DEF reacts

LEMMA ReplyApplied ==
    ASSUME NEW a \in Versions, NEW u \in Updates, u.kind = "reply", a.st = "live"
    PROVE  /\ ApplyUpdate(a, u).st = "live" /\ ApplyUpdate(a, u).seq = a.seq /\ ApplyUpdate(a, u).msg = a.msg
           /\ ApplyUpdate(a, u).rev = a.rev /\ ApplyUpdate(a, u).reacts = a.reacts
           /\ ApplyUpdate(a, u).reply = MergeReply(a.reply, u.v.reply)
<1> DEFINE reply == MergeReply(a.reply, u.v.reply)
<1>1. ApplyUpdate(a, u) = [a EXCEPT !.reply = reply]
  BY DEF ApplyUpdate
<1> HIDE DEF reply
<1>2. ApplyUpdate(a, u).st = a.st /\ ApplyUpdate(a, u).seq = a.seq /\ ApplyUpdate(a, u).msg = a.msg
      /\ ApplyUpdate(a, u).rev = a.rev /\ ApplyUpdate(a, u).reply = reply /\ ApplyUpdate(a, u).reacts = a.reacts
  BY <1>1 DEF Versions
<1> QED
  BY <1>2 DEF reply

(* An update is applied: what the copy lacks is said by the updates that were   *)
(* to come, C, but for this one, and by those after it, D.                     *)
LEMMA ApplyTells ==
    ASSUME NEW a \in Versions, NEW p \in Versions, NEW lg, NEW s, NEW u \in Updates, u = lg[s],
           NEW C, NEW D, NEW E, C \ {s} \subseteq E, D \subseteq E,
           a.st # "absent", u.v.st # "absent", p.st # "absent", u.kind # "set" => u.v.st = "live",
           Upto(a, p), Upto(u.v, p), Alike(a, p), Alike(u.v, p), Alike(p, p),
           Told(a, p, u.id, lg, C), Told(u.v, p, u.id, lg, D)
    PROVE  Alike(ApplyUpdate(a, u), p) /\ Told(ApplyUpdate(a, u), p, u.id, lg, E)
<1>0. u.v \in Versions /\ u.kind \in {"set", "reacts", "reply"} /\ Told(u.v, p, u.id, lg, E)
  <2>1. u.v \in Versions /\ u.kind \in {"set", "reacts", "reply"}
    BY DEF Updates
  <2> QED
    BY <2>1, ToldMore DEF Agree
<1>1. CASE u.kind = "set"
  BY <1>0, <1>1, MergeAlike, MergeTellsNew DEF ApplyUpdate
<1>2. CASE u.kind # "set" /\ a.st = "dead"
  BY <1>2 DEF ApplyUpdate, Told, Upto
<1>3. CASE u.kind # "set" /\ a.st = "live" /\ p.st = "dead"
  <2>1. /\ ApplyUpdate(a, u).st = "live" /\ ApplyUpdate(a, u).seq = a.seq
    BY <1>0, <1>3, ReactsApplied, ReplyApplied
  <2> QED
    BY <1>0, <1>3, <2>1 DEF Told, Alike
<1>4. CASE u.kind = "reacts" /\ a.st = "live" /\ p.st = "live"
  <2>1. /\ a.reacts <= p.reacts /\ u.v.reacts <= p.reacts
        /\ a.reacts \in Nat /\ u.v.reacts \in Nat /\ p.reacts \in Nat
    BY <1>0, <1>4 DEF Upto, Versions
  <2>2. u.v.reacts = p.reacts => ApplyUpdate(a, u).reacts = p.reacts
    BY <1>4, <2>1, LargerReaches, ReactsApplied
  <2>3. ~Says(s, u.id, {"set"}, lg) /\ ~Says(s, u.id, {"set", "reply"}, lg)
    BY <1>4 DEF Says
  <2>4. a.rev = p.rev \/ \E t \in E : Says(t, u.id, {"set"}, lg) /\ lg[t].v.rev = p.rev
    BY <1>4, <2>3 DEF Told
  <2>5. a.reply = p.reply \/ \E t \in E : Says(t, u.id, {"set", "reply"}, lg) /\ lg[t].v.reply = p.reply
    BY <1>4, <2>3 DEF Told
  <2>6. u.v.reacts = p.reacts \/ \E t \in E : Says(t, u.id, {"set", "reacts"}, lg) /\ lg[t].v.reacts = p.reacts
    BY <1>0, <1>4 DEF Told
  <2> QED
    BY <1>4, <2>2, <2>4, <2>5, <2>6, ReactsApplied DEF Told, Alike
<1>5. CASE u.kind = "reply" /\ a.st = "live" /\ p.st = "live"
  <2>1. a.reply \in Int /\ u.v.reply \in Int /\ p.reply \in Int
    BY <1>0 DEF Versions
  <2>2. ReplyUpto(ApplyUpdate(a, u).reply, p.reply) /\ (u.v.reply = p.reply => ApplyUpdate(a, u).reply = p.reply)
    BY <1>5, <2>1, ReplyMerged, ReplyApplied DEF Alike
  <2>3. ~Says(s, u.id, {"set"}, lg) /\ ~Says(s, u.id, {"set", "reacts"}, lg)
    BY <1>5 DEF Says
  <2>4. a.rev = p.rev \/ \E t \in E : Says(t, u.id, {"set"}, lg) /\ lg[t].v.rev = p.rev
    BY <1>5, <2>3 DEF Told
  <2>5. a.reacts = p.reacts \/ \E t \in E : Says(t, u.id, {"set", "reacts"}, lg) /\ lg[t].v.reacts = p.reacts
    BY <1>5, <2>3 DEF Told
  <2>6. u.v.reply = p.reply \/ \E t \in E : Says(t, u.id, {"set", "reply"}, lg) /\ lg[t].v.reply = p.reply
    BY <1>0, <1>5 DEF Told
  <2> QED
    BY <1>5, <2>2, <2>4, <2>5, <2>6, ReplyApplied DEF Told, Alike
<1> QED
  BY <1>0, <1>1, <1>2, <1>3, <1>4, <1>5 DEF Versions


-----------------------------------------------------------------------------
(* The host: what an entry of its log lacks, a later one says.                 *)
After(t, lg) == t + 1 .. Len(lg)

HostOK(lg, ps, n) ==
    /\ \A i \in Time : ps[i].st = "absent" => ps[i] = Absent
    /\ \A i \in Present(ps) : i <= Len(lg) /\ lg[i].id = i /\ ps[i].seq <= n /\ Alike(ps[i], ps[i])
    /\ \A i, j \in Present(ps) : i < j => ps[i].seq < ps[j].seq
    /\ \A t \in 1 .. Len(lg) : /\ Alike(lg[t].v, ps[lg[t].id])
                               /\ Told(lg[t].v, ps[lg[t].id], lg[t].id, lg, After(t, lg))

(* An update of the given kind makes p1 of the post p.                         *)
Revises(kind, p, p1) ==
    /\ p.st = "live" /\ p1.st # "absent" /\ Alike(p, p1) /\ Alike(p1, p1)
    /\ p1.st = "dead" => kind = "set"
    /\ p1.st = "live" => /\ kind = "set" \/ p1.rev = p.rev
                         /\ kind \in {"set", "reacts"} \/ p1.reacts = p.reacts
                         /\ kind \in {"set", "reply"} \/ p1.reply = p.reply

Extends(u, lg, ps, n, lg1, ps1, n1) ==
    /\ Len(lg1) = Len(lg) + 1 /\ lg1[Len(lg) + 1] = u /\ \A t \in 1 .. Len(lg) : lg1[t] = lg[t]
    /\ ps1[u.id] = u.v /\ \A i \in Time \ {u.id} : ps1[i] = ps[i]
    /\ \/ Revises(u.kind, ps[u.id], u.v) /\ n1 = n
       \/ /\ u.id = Len(lg) + 1 /\ u.kind = "set" /\ u.v.st = "live" /\ Alike(u.v, u.v)
          /\ n1 = n + 1 /\ u.v.seq = n1

LEMMA AlikeLater ==
    ASSUME NEW v \in Versions, NEW p \in Versions, NEW p1 \in Versions, NEW kind,
           v.st # "absent", Upto(v, p), Alike(v, p), Revises(kind, p, p1)
    PROVE  Alike(v, p1)
<1>1. v.st = "live" /\ p.st = "live" /\ v.seq = p1.seq
  BY DEF Upto, Revises, Alike
<1>2. ASSUME p1.st = "live" PROVE v.msg = p1.msg /\ ReplyUpto(v.reply, p1.reply)
  <2>1. ReplyUpto(v.reply, p.reply) /\ ReplyUpto(p.reply, p1.reply) /\ v.msg = p1.msg
    BY <1>1, <1>2 DEF Revises, Alike
  <2>2. v.reply \in Int /\ p.reply \in Int /\ p1.reply \in Int
    BY DEF Versions
  <2> QED
    BY <2>1, <2>2 DEF ReplyUpto, NoReply, Deleted
<1> QED
  BY <1>1, <1>2 DEF Alike

LEMMA ToldLater ==
    ASSUME NEW v, NEW p, NEW u, Revises(u.kind, p, u.v), u.v \in Versions,
           NEW lg, NEW lg1, NEW C, NEW D, NEW s, C \subseteq D, s \in D,
           Agree(C, lg, lg1), lg1[s] = u, Told(v, p, u.id, lg, C)
    PROVE  Told(v, u.v, u.id, lg1, D)
<1>1. Told(v, p, u.id, lg1, D) /\ p.st = "live"
  BY ToldMore DEF Revises
<1>2. CASE u.v.st = "dead"
  BY <1>2 DEF Revises, Told, Says
<1>4. CASE u.v.st = "live"
  <2>1. v.rev = u.v.rev \/ \E t \in D : Says(t, u.id, {"set"}, lg1) /\ lg1[t].v.rev = u.v.rev
    BY <1>1, <1>4 DEF Revises, Told, Says
  <2>2. v.reacts = u.v.reacts \/ \E t \in D : Says(t, u.id, {"set", "reacts"}, lg1) /\ lg1[t].v.reacts = u.v.reacts
    BY <1>1, <1>4 DEF Revises, Told, Says
  <2>3. v.reply = u.v.reply \/ \E t \in D : Says(t, u.id, {"set", "reply"}, lg1) /\ lg1[t].v.reply = u.v.reply
    BY <1>1, <1>4 DEF Revises, Told, Says
  <2> QED
    BY <1>4, <2>1, <2>2, <2>3 DEF Told
<1> QED
  BY <1>2, <1>4 DEF Revises, Versions

LEMMA VersionLater ==
    ASSUME NEW lg \in Seq(Updates), NEW ps \in Posts, NEW n \in Nat, HostOK(lg, ps, n),
           NEW u \in Updates, NEW lg1, NEW ps1 \in Posts, NEW n1, Extends(u, lg, ps, n, lg1, ps1, n1),
           NEW i \in Time, NEW v \in Versions, v.st # "absent", Upto(v, ps[i]), Alike(v, ps[i]),
           NEW C \in SUBSET (1 .. Len(lg)), NEW D, C \subseteq D, Len(lg) + 1 \in D
    PROVE  Alike(v, ps1[i]) /\ (Told(v, ps[i], i, lg, C) => Told(v, ps1[i], i, lg1, D))
<1>1. /\ Len(lg) \in Nat /\ lg1[Len(lg) + 1] = u /\ Agree(C, lg, lg1)
      /\ ps[i] \in Versions /\ ps1[i] \in Versions /\ u.v \in Versions /\ u.id \in Time
  BY LenProperties DEF Extends, Posts, Updates, Agree
<1>2. CASE i # u.id
  <2>1. ps1[i] = ps[i]
    BY <1>2 DEF Extends
  <2>2. ASSUME Told(v, ps[i], i, lg, C) PROVE Told(v, ps[i], i, lg1, D)
    BY <1>1, <2>2, ToldMore
  <2> QED
    BY <2>1, <2>2
<1>3. CASE i = u.id
  <2>1. ps[i].st # "absent"
    BY <1>1 DEF Upto
  <2>2. i <= Len(lg)
    BY <2>1 DEF HostOK, Present
  <2>3. Revises(u.kind, ps[i], u.v) /\ ps1[i] = u.v
    BY <1>1, <1>3, <2>2 DEF Extends, Time
  <2>4. Alike(v, u.v)
    BY <1>1, <2>3, AlikeLater
  <2>5. ASSUME Told(v, ps[u.id], u.id, lg, C) PROVE Told(v, u.v, u.id, lg1, D)
    <3>1. Revises(u.kind, ps[u.id], u.v) /\ u.v \in Versions
      BY <1>1, <1>3, <2>3
    <3>2. C \subseteq D /\ Len(lg) + 1 \in D /\ Agree(C, lg, lg1) /\ lg1[Len(lg) + 1] = u
      BY <1>1
    <3> DEFINE p == ps[u.id]
               s == Len(lg) + 1
    <3> HIDE DEF p, s
    <3>3. Revises(u.kind, p, u.v) /\ Told(v, p, u.id, lg, C) /\ s \in D /\ lg1[s] = u
      BY <2>5, <3>1, <3>2 DEF p, s
    <3> QED
      BY <3>1, <3>2, <3>3, ToldLater
  <2> QED
    BY <1>3, <2>3, <2>4, <2>5
<1> QED
  BY <1>2, <1>3

LEMMA HostExtends ==
    ASSUME NEW lg \in Seq(Updates), NEW ps \in Posts, NEW n \in Nat, HostOK(lg, ps, n), LogOK(lg, ps),
           NEW u \in Updates, NEW lg1 \in Seq(Updates), NEW ps1 \in Posts, NEW n1 \in Nat,
           Extends(u, lg, ps, n, lg1, ps1, n1)
    PROVE  HostOK(lg1, ps1, n1) /\ n <= n1
<1>1. /\ Len(lg) \in Nat /\ u.id \in Time /\ u.v \in Versions /\ u.v.st # "absent" /\ n <= n1
      /\ Len(lg1) = Len(lg) + 1 /\ lg1[Len(lg) + 1] = u /\ (\A t \in 1 .. Len(lg) : lg1[t] = lg[t])
      /\ ps1[u.id] = u.v /\ (\A i \in Time \ {u.id} : ps1[i] = ps[i]) /\ Alike(u.v, u.v)
  BY LenProperties DEF Extends, Updates, Revises
<1>2. \A i \in Time : ps1[i].st = "absent" => ps1[i] = Absent
  BY <1>1 DEF HostOK
<1>3. ASSUME NEW i \in Present(ps1)
      PROVE  i <= Len(lg1) /\ lg1[i].id = i /\ ps1[i].seq <= n1 /\ Alike(ps1[i], ps1[i])
  <2>1. i \in Time /\ i \in Int
    BY DEF Present, Time
  <2>2. CASE i \in Present(ps)
    <3>1. i \in 1 .. Len(lg) /\ lg[i].id = i /\ ps[i].seq <= n /\ Alike(ps[i], ps[i])
      BY <2>1, <2>2 DEF HostOK, Time
    <3>2. ps1[i].seq \in Nat /\ ps[i].seq \in Nat
      BY <2>1 DEF Posts, Versions
    <3>3. CASE i = u.id
      <4>1. Revises(u.kind, ps[u.id], u.v) /\ n1 = n
        BY <1>1, <3>1, <3>3 DEF Extends
      <4> QED
        BY <1>1, <3>1, <3>3, <4>1 DEF Revises, Alike
    <3>4. CASE i # u.id
      BY <1>1, <2>1, <3>1, <3>2, <3>4
    <3> QED
      BY <3>3, <3>4
  <2>3. CASE i \notin Present(ps)
    <3>1. i = u.id /\ ps[i].st = "absent"
      BY <1>1, <2>1, <2>3 DEF Present
    <3>2. u.id = Len(lg) + 1 /\ u.v.seq = n1
      BY <3>1 DEF Extends, Revises
    <3> QED
      BY <1>1, <3>1, <3>2
  <2> QED
    BY <2>2, <2>3
<1>4. ASSUME NEW i \in Present(ps1), NEW j \in Present(ps1), i < j PROVE ps1[i].seq < ps1[j].seq
  <2>1. i \in Time /\ j \in Time /\ i \in Int /\ j \in Int
    BY DEF Present, Time
  <2>2. CASE Revises(u.kind, ps[u.id], u.v)
    <3>1. i \in Present(ps) /\ j \in Present(ps) /\ ps1[i].seq = ps[i].seq /\ ps1[j].seq = ps[j].seq
      BY <1>1, <2>1, <2>2 DEF Present, Revises, Alike
    <3> QED
      BY <1>4, <3>1 DEF HostOK
  <2>3. CASE u.id = Len(lg) + 1 /\ n1 = n + 1 /\ u.v.seq = n1
    <3>1. i <= Len(lg) + 1 /\ j <= Len(lg) + 1
      BY <1>1, <1>3
    <3>2. i # u.id /\ ps1[i] = ps[i] /\ i \in Present(ps)
      BY <1>1, <1>4, <2>1, <2>3, <3>1 DEF Present
    <3>3. ps[i].seq <= n /\ ps[i].seq \in Nat
      BY <2>1, <3>2 DEF HostOK, Posts, Versions
    <3>4. CASE j = u.id
      BY <1>1, <2>3, <3>2, <3>3, <3>4
    <3>5. CASE j # u.id
      <4>1. ps1[j] = ps[j] /\ j \in Present(ps)
        BY <1>1, <2>1, <3>5 DEF Present
      <4> QED
        BY <1>4, <3>2, <4>1 DEF HostOK
    <3> QED
      BY <3>4, <3>5
  <2> QED
    BY <2>2, <2>3 DEF Extends
<1>5. ASSUME NEW t \in 1 .. Len(lg1)
      PROVE  Alike(lg1[t].v, ps1[lg1[t].id]) /\ Told(lg1[t].v, ps1[lg1[t].id], lg1[t].id, lg1, After(t, lg1))
  <2>1. CASE t = Len(lg) + 1
    <3>1. Told(u.v, u.v, u.id, lg1, After(t, lg1))
      BY DEF Told
    <3> QED
      BY <1>1, <2>1, <3>1
  <2>2. CASE t # Len(lg) + 1
    <3>1. t \in 1 .. Len(lg) /\ lg1[t] = lg[t] /\ lg[t] \in Updates
      BY <1>1, <2>2, ElementOfSeq
    <3> DEFINE v == lg[t].v
               i == lg[t].id
    <3>2. v \in Versions /\ i \in Time /\ v.st # "absent" /\ Upto(v, ps[i])
      BY <3>1 DEF Updates, LogOK, EntryOK
    <3>3. Alike(v, ps[i]) /\ Told(v, ps[i], i, lg, After(t, lg))
      BY <3>1 DEF HostOK
    <3>4. /\ After(t, lg) \in SUBSET (1 .. Len(lg)) /\ After(t, lg) \subseteq After(t, lg1)
          /\ Len(lg) + 1 \in After(t, lg1)
      BY <1>1, <3>1 DEF After
    <3> HIDE DEF v, i
    <3>5. Alike(v, ps1[i]) /\ Told(v, ps1[i], i, lg1, After(t, lg1))
      BY <3>2, <3>3, <3>4, VersionLater
    <3> QED
      BY <3>1, <3>5 DEF v, i
  <2> QED
    BY <2>1, <2>2
<1> QED
  BY <1>1, <1>2, <1>3, <1>4, <1>5 DEF HostOK

-----------------------------------------------------------------------------
(* What holds between the host and the copy while facts are on their way.      *)
Late(c, ps, k) == {i \in Present(ps) : i <= k /\ c[i].st = "absent"}
Busy(f, w) == Open(f, w) \/ f[w].retry # Never

(* A snapshot of the host, and a page of it: the newest posts.                 *)
SnapOK(q, lg, ps, n) ==
    /\ \A i \in Present(q.posts) : /\ Alike(q.posts[i], ps[i])
                                   /\ Told(q.posts[i], ps[i], i, lg, After(q.at, lg))
    /\ q.count <= n /\ \A i \in Present(ps) : i <= q.at => ps[i].seq <= q.count
PageOK(q, ps) ==
    \A i \in Present(ps) : i <= q.at =>
        q.posts[i].st # "absent" \/ (Present(q.posts) # {} /\ i < Oldest(q.posts))

SnapshotOK(q, w, lg, ps, n, s, L) ==
    q.kind = "checkpoint" => /\ SnapOK(q, lg, ps, n)
                             /\ w = "checkpoint" => PageOK(q, ps)
                             /\ w = "backlog" => s <= q.at /\ \A i \in L : i <= q.at
Snapshots(f, lg, ps, n, s, L) ==
    \A w \in Wires : \A m \in 1 .. Len(f[w].down) : SnapshotOK(f[w].down[m], w, lg, ps, n, s, L)

(* A watch that waits to be made again is not open, and of the backlog nothing  *)
(* follows but the kick.                                                      *)
Shapely(f) ==
    /\ \A w \in Wires : /\ f[w].retry # Never => ~Open(f, w)
                        /\ f[w].st = "asked" => f[w].down = <<>>
    /\ f["backlog"].down # <<>> => /\ f["backlog"].st = "none"
                                   /\ f["backlog"].down[1].kind = "checkpoint" \/ Len(f["backlog"].down) = 1

(* First the checkpoint, then the rest. *)
Phased(f, r, c, k, j) ==
    /\ Busy(f, "checkpoint") => Present(c) = {} /\ ~Busy(f, "updates") /\ r = <<>>
    /\ Busy(f, "backlog") \/ f["updates"].retry # Never => Present(c) # {}
    /\ f["updates"].st = "asked" => r = <<>>
    /\ ~j => Present(c) = {} /\ r = <<>> /\ \A w \in Wires : ~Busy(f, w)
    /\ Present(c) = {} => k = 0

(* The posts that are not there yet are fetched.                              *)
Fetches(b, i) ==
    \/ b.st = "asked" /\ i < b.arg
    \/ b.retry # Never /\ i < b.retry
    \/ b.down # <<>> /\ (b.down[1].kind = "checkpoint" => b.down[1].posts[i].st # "absent")
Covered(f, c, ps, k, l) == \A i \in Late(c, ps, k) \ l : i < Newest(c) /\ Fetches(f["backlog"], i)

(* The updates on their way are in order, and from the first on complete.      *)
InStream(d, r, t) == Ahead(d, r, Len(d) + 1, t)
Rising(us) == \A k \in 1 .. Len(us) : \A j \in 1 .. k - 1 : us[j].time < us[k].time
Whole(d, r, k) ==
    /\ Rising(r)
    /\ \A n \in 1 .. Len(d) : /\ Rising(d[n].us)
                              /\ \A x \in 1 .. Len(d[n].us) : \A t \in Time : Ahead(d, r, n, t) => t < d[n].us[x].time
    /\ \A t \in Time : InStream(d, r, t) => \A t1 \in t + 1 .. k : InStream(d, r, t1)

Coming(d, r, k, lg) == {t \in 1 .. Len(lg) : t > k \/ InStream(d, r, t)}
CopyTold(c, ps, lg, l, C) ==
    \A i \in Time : IF c[i].st = "absent" THEN c[i] = Absent
                    ELSE Alike(c[i], ps[i]) /\ (i \in l \/ Told(c[i], ps[i], i, lg, C))

Counted(m, n, ps, c, k, l) ==
    /\ m <= n
    /\ 0 \in l \/ \A i \in Present(ps) : i <= k => ps[i].seq <= m
    /\ \A i \in Late(c, ps, k) : ps[i].seq <= m

(* The second invariant: what the copy lacks is still to be told or fetched.    *)
SInv ==
    /\ HostOK(log, posts, total) /\ Counted(count, total, posts, copy, Reach, lost)
    /\ Shapely(flow) /\ Phased(flow, rolling, copy, Reach, joined)
    /\ Covered(flow, copy, posts, Reach, lost)
    /\ Snapshots(flow, log, posts, total, snap, Late(copy, posts, Reach))
    /\ Whole(flow["updates"].down, rolling, Reach)
    /\ CopyTold(copy, posts, log, lost, Coming(flow["updates"].down, rolling, Reach, log))

(* The streams.                                                               *)
LEMMA AheadBack ==
    ASSUME NEW d, NEW e, NEW r, NEW r1, Len(d) \in Nat \ {0}, Len(e) = Len(d) - 1,
           \A n \in 1 .. Len(e) : e[n] = d[n + 1],
           \/ r1 = r /\ Len(d[1].us) = 0
           \/ Len(r) = 0 /\ r1 = d[1].us,
           NEW n \in 1 .. Len(d), NEW t, Ahead(e, r1, n, t)
    PROVE  Ahead(d, r, n + 1, t)
<1>1. CASE \E j \in 1 .. Len(r1) : r1[j].time = t
  <2>1. CASE r1 = r
    BY <1>1, <2>1 DEF Ahead
  <2>2. CASE r1 = d[1].us
    <3>1. 1 \in 1 .. n + 1 - 1
      OBVIOUS
    <3> QED
      BY <1>1, <2>2, <3>1 DEF Ahead
  <2> QED
    BY <2>1, <2>2
<1>2. CASE \E m \in 1 .. n - 1 : \E j \in 1 .. Len(e[m].us) : e[m].us[j].time = t
  <2> PICK m \in 1 .. n - 1 : \E j \in 1 .. Len(e[m].us) : e[m].us[j].time = t
    BY <1>2
  <2>1. m \in 1 .. Len(e) /\ m + 1 \in 1 .. n + 1 - 1
    OBVIOUS
  <2>2. e[m] = d[m + 1]
    BY <2>1
  <2>3. \E j \in 1 .. Len(d[m + 1].us) : d[m + 1].us[j].time = t
    BY <2>2
  <2> QED
    BY <2>1, <2>3 DEF Ahead
<1> QED
  BY <1>1, <1>2 DEF Ahead

Follows(e, r1, d, r, k) == Whole(e, r1, k) /\ \A t : InStream(e, r1, t) <=> InStream(d, r, t)

LEMMA TakenWhole ==
    ASSUME NEW d, NEW e, NEW r, NEW r1, Len(d) \in Nat \ {0}, Len(e) = Len(d) - 1,
           \A n \in 1 .. Len(e) : e[n] = d[n + 1],
           \/ r1 = r /\ Len(d[1].us) = 0
           \/ Len(r) = 0 /\ r1 = d[1].us,
           NEW k, Whole(d, r, k)
    PROVE  Follows(e, r1, d, r, k)
<1>1. \A n \in 1 .. Len(d) : \A t : Ahead(e, r1, n, t) <=> Ahead(d, r, n + 1, t)
  BY AheadTaken, AheadBack
<1>2. Len(e) + 1 = Len(d) /\ Len(d) \in 1 .. Len(d) /\ 1 \in 1 .. Len(d)
  OBVIOUS
<1>3. \A t : InStream(e, r1, t) <=> InStream(d, r, t)
  BY <1>1, <1>2 DEF InStream
<1>4. Rising(r1)
  BY <1>2 DEF Whole
<1>5. ASSUME NEW n \in 1 .. Len(e)
      PROVE  /\ Rising(e[n].us)
             /\ \A x \in 1 .. Len(e[n].us) : \A t \in Time : Ahead(e, r1, n, t) => t < e[n].us[x].time
  <2>1. n + 1 \in 1 .. Len(d) /\ n \in 1 .. Len(d) /\ e[n] = d[n + 1]
    OBVIOUS
  <2> QED
    BY <1>1, <2>1 DEF Whole
<1>6. \A t \in Time : InStream(e, r1, t) => \A t1 \in t + 1 .. k : InStream(e, r1, t1)
  BY <1>3 DEF Whole
<1> QED
  BY <1>3, <1>4, <1>5, <1>6 DEF Whole, Follows

(* A message is added: without updates, or with some that are later than all.  *)
LEMMA AddedWhole ==
    ASSUME NEW d \in Seq(Signs), NEW q \in Signs, NEW r, NEW k, Whole(d, r, k), Rising(q.us),
           \A x \in 1 .. Len(q.us) : \A t \in Time : InStream(d, r, t) => t < q.us[x].time,
           \A x \in 1 .. Len(q.us) : \A t \in q.us[x].time + 1 .. k : \E y \in 1 .. Len(q.us) : q.us[y].time = t
    PROVE  /\ Whole(Append(d, q), r, k)
           /\ \A t : InStream(Append(d, q), r, t) <=> InStream(d, r, t) \/ \E x \in 1 .. Len(q.us) : q.us[x].time = t
<1> DEFINE e == Append(d, q)
<1>1. /\ Len(d) \in Nat /\ Len(e) = Len(d) + 1 /\ e[Len(d) + 1] = q
      /\ \A n \in 1 .. Len(d) : e[n] = d[n]
  BY LenProperties, AppendProperties
<1>2. \A n \in 1 .. Len(d) + 1 : \A t : Ahead(e, r, n, t) <=> Ahead(d, r, n, t)
  BY AheadAppend
<1> HIDE DEF e
<1>3. ASSUME NEW t
      PROVE  InStream(e, r, t) <=> InStream(d, r, t) \/ \E x \in 1 .. Len(q.us) : q.us[x].time = t
  <2>1. PICK n \in Nat : n = Len(d)
    BY <1>1
  <2>2. /\ 1 .. Len(e) + 1 - 1 = (1 .. n) \cup {n + 1} /\ 1 .. Len(d) + 1 - 1 = 1 .. n
        /\ e[n + 1] = q /\ \A m \in 1 .. n : e[m] = d[m]
    BY <1>1, <2>1
  <2>3. InStream(e, r, t) <=> (\E j \in 1 .. Len(r) : r[j].time = t)
                              \/ \E m \in (1 .. n) \cup {n + 1} : \E j \in 1 .. Len(e[m].us) : e[m].us[j].time = t
    <3>1. InStream(e, r, t) <=> (\E j \in 1 .. Len(r) : r[j].time = t)
                                \/ \E m \in 1 .. Len(e) + 1 - 1 : \E j \in 1 .. Len(e[m].us) : e[m].us[j].time = t
      BY DEF InStream, Ahead
    <3>2. 1 .. Len(e) + 1 - 1 = (1 .. n) \cup {n + 1}
      BY <2>2
    <3> QED
      BY <3>1, <3>2
  <2>4. InStream(d, r, t) <=> (\E j \in 1 .. Len(r) : r[j].time = t)
                              \/ \E m \in 1 .. n : \E j \in 1 .. Len(d[m].us) : d[m].us[j].time = t
    <3>1. InStream(d, r, t) <=> (\E j \in 1 .. Len(r) : r[j].time = t)
                                \/ \E m \in 1 .. Len(d) + 1 - 1 : \E j \in 1 .. Len(d[m].us) : d[m].us[j].time = t
      BY DEF InStream, Ahead
    <3>2. 1 .. Len(d) + 1 - 1 = 1 .. n
      BY <2>2
    <3> QED
      BY <3>1, <3>2
  <2>5. (\E m \in (1 .. n) \cup {n + 1} : \E j \in 1 .. Len(e[m].us) : e[m].us[j].time = t)
            <=> (\E m \in 1 .. n : \E j \in 1 .. Len(d[m].us) : d[m].us[j].time = t)
                \/ \E x \in 1 .. Len(q.us) : q.us[x].time = t
    <3> DEFINE Has(x) == \E j \in 1 .. Len(x.us) : x.us[j].time = t
    <3>1. /\ \A m \in 1 .. n : Has(e[m]) <=> Has(d[m])
          /\ Has(e[n + 1]) <=> Has(q)
      BY <2>2
    <3> HIDE DEF Has
    <3>2. (\E m \in (1 .. n) \cup {n + 1} : Has(e[m])) <=> (\E m \in 1 .. n : Has(d[m])) \/ Has(q)
      BY <3>1
    <3> QED
      BY <3>2 DEF Has
  <2> QED
    BY <2>3, <2>4, <2>5
<1>4. ASSUME NEW n \in 1 .. Len(e)
      PROVE  /\ Rising(e[n].us)
             /\ \A x \in 1 .. Len(e[n].us) : \A t \in Time : Ahead(e, r, n, t) => t < e[n].us[x].time
  <2>1. CASE n = Len(d) + 1
    BY <1>1, <1>2, <2>1 DEF InStream
  <2>2. CASE n # Len(d) + 1
    <3>1. n \in 1 .. Len(d) /\ n \in 1 .. Len(d) + 1 /\ e[n] = d[n]
      BY <1>1, <2>2
    <3> QED
      BY <1>2, <3>1 DEF Whole
  <2> QED
    BY <2>1, <2>2
<1>5. \A t \in Time : InStream(e, r, t) => \A t1 \in t + 1 .. k : InStream(e, r, t1)
  BY <1>3 DEF Whole
<1>6. Whole(e, r, k)
  BY <1>4, <1>5 DEF Whole
<1> QED
  BY <1>3, <1>6 DEF e

-----------------------------------------------------------------------------
(* The steps that change nothing but the flows.                               *)
Carried(f, r, k, lg, ps, n, s, L) == Snapshots(f, lg, ps, n, s, L) /\ Whole(f["updates"].down, r, k)
SameDown(f, g) == \A w \in Wires : g[w].down = f[w].down
SameBacklog(f, g) == g["backlog"] = f["backlog"]
Streams(f, g, r) == \A t : InStream(f["updates"].down, r, t) => InStream(g["updates"].down, r, t)

LEMMA CopyToldMore ==
    ASSUME NEW c, NEW ps, NEW lg, NEW l, NEW l1, NEW C, NEW D, l \subseteq l1, C \subseteq D,
           CopyTold(c, ps, lg, l, C)
    PROVE  CopyTold(c, ps, lg, l1, D)
<1>1. ASSUME NEW i \in Time, Told(c[i], ps[i], i, lg, C) PROVE Told(c[i], ps[i], i, lg, D)
  BY <1>1, ToldMore DEF Agree
<1> QED
  BY <1>1 DEF CopyTold

LEMMA FlowSounds ==
    ASSUME SInv, UNCHANGED <<log, posts, total, copy, count, rolling, heard, snap>>, lost \subseteq lost',
           Carried(flow', rolling, Reach, log, posts, total, snap, Late(copy, posts, Reach)),
           Streams(flow, flow', rolling), Shapely(flow'),
           Phased(flow', rolling, copy, Reach, joined'), Covered(flow', copy, posts, Reach, lost')
    PROVE  SInv'
<1>1. Reach' = Reach
  BY DEF Reach
<1>2. Coming(flow["updates"].down, rolling, Reach, log) \subseteq Coming(flow'["updates"].down, rolling, Reach, log)
  BY DEF Coming, Streams
<1> DEFINE D == Coming(flow'["updates"].down, rolling, Reach, log)
<1> HIDE DEF D
<1>3. CopyTold(copy, posts, log, lost', D)
  BY <1>2, CopyToldMore DEF SInv, D
<1>4. Counted(count, total, posts, copy, Reach, lost')
  BY DEF SInv, Counted
<1> QED
  BY <1>1, <1>3, <1>4 DEF SInv, Carried, D

LEMMA CarriedSame ==
    ASSUME NEW f, NEW g, SameDown(f, g),
           NEW r, NEW k, NEW lg, NEW ps, NEW n, NEW s, NEW L, Carried(f, r, k, lg, ps, n, s, L)
    PROVE  Carried(g, r, k, lg, ps, n, s, L) /\ Streams(f, g, r)
<1>1. g["updates"].down = f["updates"].down
  BY DEF SameDown, Wires
<1> QED
  BY <1>1 DEF Carried, Snapshots, Streams, SameDown

LEMMA CarriedClosed ==
    ASSUME NEW f, NEW g, NEW S, "updates" \notin S,
           \A w \in Wires : IF w \in S THEN g[w].down = <<>> ELSE g[w].down = f[w].down,
           NEW r, NEW k, NEW lg, NEW ps, NEW n, NEW s, NEW L, Carried(f, r, k, lg, ps, n, s, L)
    PROVE  Carried(g, r, k, lg, ps, n, s, L) /\ Streams(f, g, r)
<1>1. g["updates"].down = f["updates"].down
  BY DEF Wires
<1>2. Len(<<>>) = 0
  OBVIOUS
<1>3. ASSUME NEW w \in Wires, NEW m \in 1 .. Len(g[w].down) PROVE SnapshotOK(g[w].down[m], w, lg, ps, n, s, L)
  BY <1>2 DEF Carried, Snapshots
<1> QED
  BY <1>1, <1>3 DEF Carried, Snapshots, Streams

LEMMA SnapshotsDrop ==
    ASSUME NEW f \in Flows, NEW g, NEW w \in Wires, Drops(f, g, w),
           NEW lg, NEW ps, NEW n, NEW s, NEW L, Snapshots(f, lg, ps, n, s, L)
    PROVE  Snapshots(g, lg, ps, n, s, L)
<1>1. /\ g[w].down = Tail(f[w].down) /\ \A v \in Wires \ {w} : g[v] = f[v]
      /\ Head(f[w].down) = f[w].down[1] /\ Len(g[w].down) = Len(f[w].down) - 1 /\ Len(f[w].down) \in Nat \ {0}
      /\ \A m \in 1 .. Len(g[w].down) : g[w].down[m] = f[w].down[m + 1]
  BY TakeFacts
<1>2. ASSUME NEW v \in Wires, NEW m \in 1 .. Len(g[v].down) PROVE SnapshotOK(g[v].down[m], v, lg, ps, n, s, L)
  <2>1. CASE v # w
    BY <1>1, <2>1 DEF Snapshots
  <2>2. CASE v = w
    <3>2. m \in 1 .. Len(g[w].down)
      BY <2>2
    <3> DEFINE x == Len(g[w].down)
               y == Len(f[w].down)
    <3>3. x = y - 1 /\ y \in Nat \ {0} /\ m \in 1 .. x
      BY <1>1, <3>2
    <3> HIDE DEF x, y
    <3>4. m + 1 \in 1 .. y
      BY <3>3
    <3>0. m \in 1 .. Len(g[w].down) /\ m + 1 \in 1 .. Len(f[w].down)
      BY <3>2, <3>4 DEF y
    <3>1. m + 1 \in 1 .. Len(f[w].down) /\ g[v].down[m] = f[w].down[m + 1]
      BY <1>1, <2>2, <3>0
    <3> QED
      BY <2>2, <3>1 DEF Snapshots
  <2> QED
    BY <2>1, <2>2
<1> QED
  BY <1>2 DEF Snapshots

LEMMA CarriedDrop ==
    ASSUME NEW f \in Flows, NEW g, NEW w \in Wires, Drops(f, g, w), Len(Head(f[w].down).us) = 0,
           NEW r, NEW k, NEW lg, NEW ps, NEW n, NEW s, NEW L, Carried(f, r, k, lg, ps, n, s, L)
    PROVE  Carried(g, r, k, lg, ps, n, s, L) /\ Streams(f, g, r)
<1>1. /\ g[w].down = Tail(f[w].down) /\ \A v \in Wires \ {w} : g[v] = f[v]
      /\ Head(f[w].down) = f[w].down[1] /\ Len(g[w].down) = Len(f[w].down) - 1 /\ Len(f[w].down) \in Nat \ {0}
      /\ \A m \in 1 .. Len(g[w].down) : g[w].down[m] = f[w].down[m + 1]
  BY TakeFacts
<1>2. Snapshots(g, lg, ps, n, s, L)
  BY SnapshotsDrop DEF Carried
<1>3. Whole(g["updates"].down, r, k) /\ Streams(f, g, r)
  <2>1. CASE w # "updates"
    <3>1. g["updates"] = f["updates"]
      BY <1>1, <2>1 DEF Wires
    <3> QED
      BY <3>1 DEF Carried, Streams
  <2>2. CASE w = "updates"
    <3> DEFINE d == f["updates"].down
               e == g["updates"].down
    <3>1. /\ Len(d) \in Nat \ {0} /\ Len(e) = Len(d) - 1 /\ Len(d[1].us) = 0
          /\ \A m \in 1 .. Len(e) : e[m] = d[m + 1]
      BY <1>1, <2>2
    <3>2. Whole(d, r, k)
      BY DEF Carried
    <3> HIDE DEF d, e
    <3>3. Follows(e, r, d, r, k)
      BY <3>1, <3>2, TakenWhole
    <3> QED
      BY <3>3 DEF Streams, d, e, Follows
  <2> QED
    BY <2>1, <2>2
<1> QED
  BY <1>2, <1>3 DEF Carried

LEMMA SnapshotsAdd ==
    ASSUME NEW f \in Flows, NEW g, NEW w \in Wires, NEW q \in Signs, NEW st \in {"none", "live", "asked"},
           Adds(f, g, w, q, st), NEW lg, NEW ps, NEW n, NEW s, NEW L, Snapshots(f, lg, ps, n, s, L),
           SnapshotOK(q, w, lg, ps, n, s, L)
    PROVE  Snapshots(g, lg, ps, n, s, L)
<1>1. g[w].down = Append(f[w].down, q) /\ \A v \in Wires \ {w} : g[v] = f[v]
  BY AddFacts
<1>2. /\ f[w].down \in Seq(Signs) /\ Len(f[w].down) \in Nat /\ Len(g[w].down) = Len(f[w].down) + 1
      /\ \A m \in 1 .. Len(f[w].down) : g[w].down[m] = f[w].down[m]
      /\ g[w].down[Len(f[w].down) + 1] = q
  <2>1. f[w].down \in Seq(Signs) /\ Len(f[w].down) \in Nat
    BY FlowSeq
  <2> QED
    BY <1>1, <2>1, AppendProperties
<1>3. ASSUME NEW v \in Wires, NEW m \in 1 .. Len(g[v].down) PROVE SnapshotOK(g[v].down[m], v, lg, ps, n, s, L)
  <2>1. CASE v # w
    BY <1>1, <2>1 DEF Snapshots
  <2>2. CASE v = w /\ m = Len(f[w].down) + 1
    BY <1>2, <2>2
  <2>3. CASE v = w /\ m # Len(f[w].down) + 1
    <3>1. m \in 1 .. Len(f[w].down) /\ g[v].down[m] = f[w].down[m]
      BY <1>2, <2>3
    <3> QED
      BY <2>3, <3>1 DEF Snapshots
  <2> QED
    BY <2>1, <2>2, <2>3
<1> QED
  BY <1>3 DEF Snapshots

LEMMA CarriedAdd ==
    ASSUME NEW f \in Flows, NEW g, NEW w \in Wires, NEW q \in Signs, NEW st \in {"none", "live", "asked"},
           Adds(f, g, w, q, st), Len(q.us) = 0,
           NEW r, NEW k, NEW lg, NEW ps, NEW n, NEW s, NEW L, Carried(f, r, k, lg, ps, n, s, L),
           SnapshotOK(q, w, lg, ps, n, s, L)
    PROVE  Carried(g, r, k, lg, ps, n, s, L) /\ Streams(f, g, r)
<1>1. g[w].down = Append(f[w].down, q) /\ \A v \in Wires \ {w} : g[v] = f[v]
  BY AddFacts
<1>2. f[w].down \in Seq(Signs)
  BY FlowSeq
<1>3. Snapshots(g, lg, ps, n, s, L)
  BY SnapshotsAdd DEF Carried
<1>4. Whole(g["updates"].down, r, k) /\ Streams(f, g, r)
  <2>1. CASE w # "updates"
    <3>1. g["updates"] = f["updates"]
      BY <1>1, <2>1 DEF Wires
    <3> QED
      BY <3>1 DEF Carried, Streams
  <2>2. CASE w = "updates"
    <3> DEFINE d == f["updates"].down
    <3>1. d \in Seq(Signs) /\ Whole(d, r, k) /\ g["updates"].down = Append(d, q) /\ Rising(q.us)
      BY <1>1, <1>2, <2>2 DEF Carried, Rising
    <3> HIDE DEF d
    <3>2. \A x \in 1 .. Len(q.us) : FALSE
      OBVIOUS
    <3>3. Whole(Append(d, q), r, k) /\ \A t : InStream(d, r, t) => InStream(Append(d, q), r, t)
      BY <3>1, <3>2, AddedWhole
    <3> QED
      BY <3>1, <3>3 DEF Streams, d
  <2> QED
    BY <2>1, <2>2
<1> QED
  BY <1>3, <1>4 DEF Carried

(* How a watch is asked for.                                                  *)
Asks(f, g, w, arg, delay) ==
    /\ \A v \in Wires \ {w} : g[v] = f[v]
    /\ g[w].down = f[w].down
    /\ Busy(f, w) => g[w] = f[w]
    /\ ~Busy(f, w) => IF delay THEN g[w].retry = arg /\ g[w].st = "none"
                      ELSE g[w].st = "asked" /\ g[w].arg = arg /\ g[w].retry = Never

LEMMA SafeWatchAsks ==
    ASSUME NEW f \in Flows, NEW w \in Wires, NEW arg, NEW delay
    PROVE  Asks(f, SafeWatch(f, w, arg, delay), w, arg, delay)
<1>1. CASE Busy(f, w)
  BY <1>1 DEF Busy, SafeWatch, Asks
<1>2. CASE ~Busy(f, w) /\ delay
  <2>1. SafeWatch(f, w, arg, delay) = [f EXCEPT ![w].retry = arg] /\ f[w].st = "none"
    BY <1>2 DEF Busy, SafeWatch, Open
  <2> QED
    BY <1>2, <2>1 DEF Asks, Flows, OneFlow
<1>3. CASE ~Busy(f, w) /\ ~delay
  <2> DEFINE g == [f EXCEPT ![w].st = "asked", ![w].arg = arg]
  <2>1. SafeWatch(f, w, arg, delay) = g /\ f[w].retry = Never
    BY <1>3 DEF Busy, SafeWatch
  <2>2. g[w] = [f[w] EXCEPT !.st = "asked", !.arg = arg] /\ \A v \in Wires \ {w} : g[v] = f[v]
    BY DEF Flows
  <2>3. f[w] \in OneFlow
    BY DEF Flows
  <2> HIDE DEF g
  <2>4. g[w].st = "asked" /\ g[w].arg = arg /\ g[w].retry = Never /\ g[w].down = f[w].down
    BY <2>1, <2>2, <2>3 DEF OneFlow
  <2> QED
    BY <1>3, <2>1, <2>2, <2>4 DEF Asks
<1> QED
  BY <1>1, <1>2, <1>3

-----------------------------------------------------------------------------
LEMMA AsksShapely ==
    ASSUME NEW f \in Flows, NEW g, NEW w \in Wires, NEW arg, NEW delay \in BOOLEAN, Asks(f, g, w, arg, delay),
           Shapely(f)
    PROVE  Shapely(g) /\ SameDown(f, g)
<1>1. \A v \in Wires : g[v].down = f[v].down
  BY DEF Asks
<1>2. ASSUME NEW v \in Wires
      PROVE  (g[v].retry # Never => ~Open(g, v)) /\ (g[v].st = "asked" => g[v].down = <<>>)
  <2>1. CASE v # w \/ Busy(f, w)
    <3>1. g[v] = f[v]
      BY <2>1 DEF Asks
    <3> QED
      BY <3>1 DEF Shapely, Open
  <2>2. CASE v = w /\ ~Busy(f, w)
    <3>1. f[w].down = <<>>
      BY <2>2 DEF Busy, Open
    <3> QED
      BY <2>2, <3>1 DEF Asks, Open
  <2> QED
    BY <2>1, <2>2
<1>3. ASSUME g["backlog"].down # <<>>
      PROVE  /\ g["backlog"].st = "none"
             /\ g["backlog"].down[1].kind = "checkpoint" \/ Len(g["backlog"].down) = 1
  <2>1. f["backlog"].down # <<>> /\ "backlog" \in Wires
    BY <1>1, <1>3 DEF Wires
  <2>2. g["backlog"] = f["backlog"]
    BY <2>1 DEF Asks, Busy, Open
  <2> QED
    BY <2>1, <2>2 DEF Shapely
<1> QED
  BY <1>1, <1>2, <1>3 DEF Shapely, SameDown

LEMMA SubscribeSounds ==
    ASSUME NEW f \in Flows, Shapely(f), NEW c, NEW e, NEW k, NEW j,
           NEW r, r = <<>>, Phased(f, r, c, k, j),
           Present(e) = {} <=> Present(c) = {}, NEW delay \in BOOLEAN, NEW g, g = SafeSub(f, e, delay)
    PROVE  /\ Shapely(g) /\ Phased(g, r, c, k, TRUE) /\ SameBacklog(f, g)
           /\ SameDown(f, g)
<1>1. CASE Open(f, "updates")
  BY <1>1 DEF SafeSub, Phased, SameDown, SameBacklog
<1>2. CASE ~Open(f, "updates") /\ Present(e) # {}
  <2>1. Asks(f, g, "updates", Newest(e), delay)
    BY <1>2, SafeWatchAsks DEF SafeSub, StartUpdates, Wires
  <2>2. Shapely(g) /\ SameDown(f, g)
    BY <2>1, AsksShapely DEF Wires
  <2>3. g["backlog"] = f["backlog"] /\ g["checkpoint"] = f["checkpoint"]
    BY <2>1 DEF Asks, Wires
  <2>4. ~Busy(g, "checkpoint") /\ Present(c) # {} /\ (Present(c) = {} => k = 0)
    BY <1>2, <2>3 DEF Phased, Busy, Open
  <2> QED
    BY <2>2, <2>3, <2>4 DEF Phased, SameBacklog
<1>3. CASE ~Open(f, "updates") /\ Present(e) = {}
  <2>1. Asks(f, g, "checkpoint", 0, delay)
    BY <1>3, SafeWatchAsks DEF SafeSub, Wires
  <2>2. Shapely(g) /\ SameDown(f, g)
    BY <2>1, AsksShapely DEF Wires
  <2>3. g["backlog"] = f["backlog"] /\ g["updates"] = f["updates"]
    BY <2>1 DEF Asks, Wires
  <2>4. ~Busy(g, "updates") /\ ~Busy(g, "backlog") /\ g["updates"].retry = Never /\ Present(c) = {} /\ k = 0
    BY <1>3, <2>3 DEF Phased, Busy, Open
  <2> QED
    BY <2>2, <2>3, <2>4 DEF Phased, SameBacklog
<1> QED
  BY <1>1, <1>2, <1>3

LEMMA DropShapely ==
    ASSUME NEW f \in Flows, NEW g, NEW w \in Wires, Drops(f, g, w), Head(f[w].down).kind # "checkpoint",
           Shapely(f), NEW r, NEW c, NEW k, NEW j, Phased(f, r, c, k, j)
    PROVE  /\ Shapely(g) /\ Phased(g, r, c, k, j) /\ j # FALSE
           /\ w = "backlog" => ~Busy(g, "backlog")
<1>1. /\ g \in Flows /\ g[w].st = f[w].st /\ g[w].down = Tail(f[w].down)
      /\ g[w].arg = f[w].arg /\ g[w].retry = f[w].retry
      /\ \A v \in Wires \ {w} : g[v] = f[v]
      /\ Head(f[w].down) = f[w].down[1] /\ Len(g[w].down) = Len(f[w].down) - 1
  BY TakeFacts
<1>2. f[w].down # <<>> /\ Open(f, w) /\ Busy(f, w) /\ f[w].retry = Never /\ f[w].st # "asked"
  BY DEF Drops, Open, Busy, Shapely
<1>3. w = "backlog" => f["backlog"].st = "none" /\ g["backlog"].down = <<>>
  <2> SUFFICES ASSUME w = "backlog" PROVE f["backlog"].st = "none" /\ g["backlog"].down = <<>>
    OBVIOUS
  <2>1. f["backlog"].st = "none" /\ Len(f["backlog"].down) = 1
    BY <1>1, <1>2 DEF Shapely
  <2>2. Len(g["backlog"].down) = 0 /\ g["backlog"].down \in Seq(Signs)
    BY <1>1, <2>1, FlowSeq
  <2> QED
    BY <2>1, <2>2, EmptySeq
<1>4. \A v \in Wires : Busy(g, v) => Busy(f, v)
  BY <1>1, <1>2 DEF Busy, Open
<1>5. \A v \in Wires : g[v].st = f[v].st /\ g[v].retry = f[v].retry
  BY <1>1
<1>6. Phased(g, r, c, k, j)
  <2>1. "updates" \in Wires /\ "checkpoint" \in Wires /\ "backlog" \in Wires
    BY DEF Wires
  <2> QED
    BY <1>4, <1>5, <2>1 DEF Phased
<1>7. Shapely(g)
  BY <1>1, <1>2, <1>3 DEF Shapely, Open, Wires
<1>8. w = "backlog" => ~Busy(g, "backlog")
  BY <1>1, <1>2, <1>3 DEF Busy, Open
<1> QED
  BY <1>2, <1>3, <1>6, <1>7, <1>8 DEF Phased

(* A watch ends.                                                              *)
LEMMA EndShapely ==
    ASSUME NEW f \in Flows, NEW g, NEW w \in Wires, NEW kind \in {"kick", "nack"},
           Adds(f, g, w, Sign(kind), "none"), f[w].st = "asked" \/ (w = "updates" /\ f[w].st = "live"),
           Shapely(f), NEW r, NEW c, NEW k, NEW j, Phased(f, r, c, k, j)
    PROVE  /\ Shapely(g) /\ Phased(g, r, c, k, j)
           /\ \A i : Fetches(f["backlog"], i) => Fetches(g["backlog"], i)
<1>0. Sign(kind) \in Signs /\ Sign(kind).kind = kind
  BY SignFacts
<1>1. /\ g \in Flows /\ g[w].st = "none" /\ g[w].down = Append(f[w].down, Sign(kind))
      /\ g[w].arg = f[w].arg /\ g[w].retry = f[w].retry
      /\ \A v \in Wires \ {w} : g[v] = f[v]
  BY <1>0, AddFacts
<1>2. f[w].down \in Seq(Signs) /\ g[w].down # <<>> /\ f[w].retry = Never
  <2>1. f[w].down \in Seq(Signs) /\ Len(f[w].down) \in Nat
    BY FlowSeq
  <2>2. Len(g[w].down) = Len(f[w].down) + 1
    BY <1>0, <1>1, <2>1, AppendProperties
  <2> QED
    BY <2>1, <2>2, EmptySeq DEF Shapely, Open
<1>3. \A v \in Wires : Busy(g, v) <=> Busy(f, v)
  BY <1>1, <1>2 DEF Busy, Open
<1>4. Phased(g, r, c, k, j)
  <2>1. "updates" \in Wires /\ "checkpoint" \in Wires /\ "backlog" \in Wires
    BY DEF Wires
  <2>2. g["updates"].retry = f["updates"].retry /\ (g["updates"].st = "asked" => f["updates"].st = "asked")
    BY <1>1, <2>1
  <2> QED
    BY <1>3, <2>1, <2>2 DEF Phased
<1>5. w = "backlog" => Len(g["backlog"].down) = 1 /\ g["backlog"].down[1].kind = kind
  <2>1. w = "backlog" => f[w].down = <<>>
    BY DEF Shapely
  <2>2. w = "backlog" => g["backlog"].down = Append(<<>>, Sign(kind))
    BY <1>1, <2>1
  <2>3. \A x : Len(Append(<<>>, x)) = 1 /\ Append(<<>>, x)[1] = x
    OBVIOUS
  <2> QED
    BY <1>0, <2>2, <2>3
<1>6. Shapely(g)
  BY <1>1, <1>2, <1>5 DEF Shapely, Open, Wires
<1>7. \A i : Fetches(f["backlog"], i) => Fetches(g["backlog"], i)
  <2>1. CASE w = "backlog"
    BY <1>2, <1>5, <2>1 DEF Fetches
  <2>2. CASE w # "backlog"
    BY <1>1, <2>2 DEF Wires
  <2> QED
    BY <2>1, <2>2
<1> QED
  BY <1>4, <1>6, <1>7

-----------------------------------------------------------------------------
Sounds(f, j, l) ==
    /\ Carried(f, rolling, Reach, log, posts, total, snap, Late(copy, posts, Reach)) /\ Streams(flow, f, rolling)
    /\ Shapely(f) /\ Phased(f, rolling, copy, Reach, j) /\ Covered(f, copy, posts, Reach, l)

LEMMA SoundsNow == ASSUME IInv, SInv PROVE Sounds(flow, joined, lost) /\ flow \in Flows
<1>1. flow \in Flows
  BY TypeFacts DEF IInv
<1> QED
  BY <1>1 DEF SInv, Sounds, Carried, Streams

LEMMA SoundsThen ==
    ASSUME SInv, UNCHANGED <<log, posts, total, copy, count, rolling, heard, snap>>, lost \subseteq lost',
           Sounds(flow', joined', lost')
    PROVE  SInv'
BY FlowSounds DEF Sounds

LEMMA EndSounds ==
    ASSUME IInv, SInv, NEW w \in Wires, NEW kind \in {"kick", "nack"},
           flow[w].st = "asked" \/ (w = "updates" /\ flow[w].st = "live")
    PROVE  Sounds(End(w, Sign(kind)), joined, lost)
<1> DEFINE g == End(w, Sign(kind))
<1>1. Sounds(flow, joined, lost) /\ flow \in Flows
  BY SoundsNow
<1>2. Adds(flow, g, w, Sign(kind), "none")
  BY DEF Adds, End
<1>3. Sign(kind) \in Signs /\ Len(Sign(kind).us) = 0 /\ Sign(kind).kind # "checkpoint"
  BY SignFacts
<1> HIDE DEF g
<1>4. Carried(g, rolling, Reach, log, posts, total, snap, Late(copy, posts, Reach)) /\ Streams(flow, g, rolling)
  <2> PICK q \in Signs : q = Sign(kind)
    BY <1>3
  <2> PICK st \in {"none", "live", "asked"} : st = "none"
    OBVIOUS
  <2>1. Adds(flow, g, w, q, st) /\ Len(q.us) = 0 /\ q.kind # "checkpoint"
    BY <1>2, <1>3
  <2> DEFINE L == Late(copy, posts, Reach)
             k == Reach
  <2>2. Carried(flow, rolling, k, log, posts, total, snap, L) /\ SnapshotOK(q, w, log, posts, total, snap, L)
    BY <1>1, <2>1 DEF Sounds, SnapshotOK
  <2> HIDE DEF L, k
  <2>3. Carried(g, rolling, k, log, posts, total, snap, L) /\ Streams(flow, g, rolling)
    BY <1>1, <2>1, <2>2, CarriedAdd
  <2> QED
    BY <2>3 DEF L, k
<1>5. /\ Shapely(g) /\ Phased(g, rolling, copy, Reach, joined)
      /\ \A i : Fetches(flow["backlog"], i) => Fetches(g["backlog"], i)
  <2>1. Shapely(flow) /\ Phased(flow, rolling, copy, Reach, joined)
    BY <1>1 DEF Sounds
  <2> QED
    BY <1>1, <1>2, <2>1, EndShapely
<1>6. Covered(g, copy, posts, Reach, lost)
  BY <1>1, <1>5 DEF Sounds, Covered
<1> QED
  BY <1>4, <1>5, <1>6 DEF Sounds, g

LEMMA QuietStepSounds ==
    ASSUME IInv, SInv,
           \/ Revoke \/ Restore \/ (\E m \in Message : Send(m)) \/ (\E w \in Wires : Clog(w)) \/ UNCHANGED vars
    PROVE  SInv'
<1>1. Sounds(flow', joined, lost)
  <2>1. CASE flow' = flow
    BY <2>1, SoundsNow
  <2>2. CASE Revoke
    BY <2>1, <2>2, EndSounds DEF Revoke, Wires
  <2>3. ASSUME NEW w \in Wires, Clog(w) PROVE Sounds(flow', joined, lost)
    BY <2>3, EndSounds DEF Clog
  <2> QED
    BY <2>1, <2>2, <2>3 DEF Restore, Send, vars
<1>2. UNCHANGED <<log, posts, total, copy, count, rolling, heard, snap, joined, lost>>
  <2>1. CASE Revoke \/ Restore
    BY <2>1 DEF Revoke, Restore, sub, history
  <2>2. ASSUME NEW m \in Message, Send(m)
        PROVE UNCHANGED <<log, posts, total, copy, count, rolling, heard, snap, joined, lost>>
    BY <2>2 DEF Send, host, sub, history
  <2>3. ASSUME NEW w \in Wires, Clog(w)
        PROVE UNCHANGED <<log, posts, total, copy, count, rolling, heard, snap, joined, lost>>
    BY <2>3 DEF Clog, host, sub, history
  <2>4. CASE UNCHANGED vars
    BY <2>4 DEF vars, host, sub, history
  <2> QED
    BY <2>1, <2>2, <2>3, <2>4
<1> QED
  BY <1>1, <1>2, SoundsThen

(* The subscriber asks for what it is to watch.                               *)
LEMMA AskSounds ==
    ASSUME IInv, Idle, NEW f \in Flows, NEW j, NEW l, Sounds(f, j, l), NEW e, Present(e) = {} <=> Present(copy) = {},
           NEW delay \in BOOLEAN
    PROVE  Sounds(SafeSub(f, e, delay), TRUE, l)
<1> DEFINE g == SafeSub(f, e, delay)
           L == Late(copy, posts, Reach)
           k == Reach
<1>1. /\ Shapely(g) /\ Phased(g, rolling, copy, Reach, TRUE) /\ SameBacklog(f, g)
      /\ SameDown(f, g)
  <2> PICK c : c = copy
    OBVIOUS
  <2> PICK r : r = rolling
    OBVIOUS
  <2> PICK n : n = Reach
    OBVIOUS
  <2> PICK h : h = SafeSub(f, e, delay)
    OBVIOUS
  <2>1. Shapely(f) /\ Phased(f, r, c, n, j) /\ (Present(e) = {} <=> Present(c) = {}) /\ r = <<>>
    BY DEF Sounds, Idle
  <2>2. /\ Shapely(h) /\ Phased(h, r, c, n, TRUE) /\ SameBacklog(f, h)
        /\ SameDown(f, h)
    BY <2>1, SubscribeSounds
  <2> QED
    BY <2>2
<1>2. Carried(f, rolling, k, log, posts, total, snap, L) /\ Streams(flow, f, rolling)
  BY DEF Sounds
<1> HIDE DEF g, L, k
<1>3. Carried(g, rolling, k, log, posts, total, snap, L) /\ Streams(f, g, rolling)
  BY <1>1, <1>2, CarriedSame
<1>4. Streams(flow, g, rolling)
  BY <1>2, <1>3 DEF Streams
<1>5. Covered(g, copy, posts, Reach, l)
  BY <1>1 DEF Sounds, Covered, SameBacklog
<1> QED
  BY <1>1, <1>3, <1>4, <1>5 DEF Sounds, g, L, k


-----------------------------------------------------------------------------
LEMMA JoinSounds == IInv /\ SInv /\ Join => SInv'
<1> SUFFICES ASSUME IInv, SInv, Join PROVE SInv'
  OBVIOUS
<1>1. Sounds(flow, joined, lost) /\ flow \in Flows /\ Idle /\ joined \in BOOLEAN
  BY SoundsNow DEF Join, IInv, TypeOK
<1>2. Sounds(flow', TRUE, lost) /\ joined' = TRUE
  <2>1. CASE joined
    <3>1. flow' = SafeSub(flow, copy, FALSE) /\ joined' = joined
      BY <2>1 DEF Join, Subscribes
    <3> QED
      BY <1>1, <2>1, <3>1, AskSounds
  <2>2. CASE ~joined
    <3>1. flow' = SafeSub(flow, Empty, FALSE) /\ joined' = TRUE
      BY <2>2 DEF Join
    <3>2. Present(Empty) = {} /\ Present(copy) = {}
      BY <1>1, <2>2 DEF Sounds, Phased, Present, Empty, Absent
    <3>3. Present(Empty) = {} <=> Present(copy) = {}
      BY <3>2
    <3> QED
      BY <1>1, <3>1, <3>3, AskSounds
  <2> QED
    BY <2>1, <2>2
<1>3. UNCHANGED <<log, posts, total, copy, count, rolling, heard, snap, lost>>
  BY DEF Join, host
<1> QED
  BY <1>2, <1>3, SoundsThen

LEMMA RecheckSounds == IInv /\ SInv /\ Recheck => SInv'
<1> SUFFICES ASSUME IInv, SInv, Recheck PROVE SInv'
  OBVIOUS
<1>1. Sounds(flow, joined, lost) /\ flow \in Flows /\ Idle /\ joined \in BOOLEAN /\ joined' = joined
  BY SoundsNow DEF Recheck, IInv, TypeOK
<1>2. Sounds(flow', joined, lost)
  <2>1. CASE joined /\ Head(news)
    <3>1. flow' = SafeSub(flow, copy, FALSE)
      BY <2>1 DEF Recheck, Subscribes
    <3> QED
      BY <1>1, <2>1, <3>1, AskSounds
  <2>2. CASE ~(joined /\ Head(news))
    BY <1>1, <2>2 DEF Recheck
  <2> QED
    BY <2>1, <2>2
<1>3. UNCHANGED <<log, posts, total, copy, count, rolling, heard, snap, lost>>
  BY DEF Recheck, host
<1> QED
  BY <1>1, <1>2, <1>3, SoundsThen

(* The fetch of the backlog that is given up was to bring all that is missing.  *)
LEMMA LateMissing ==
    ASSUME NEW f, NEW k, NEW l, Covered(f, copy, posts, k, l)
    PROVE  Late(copy, posts, k) \ l \subseteq Missing
BY DEF Covered, Missing, Late

LEMMA GivenUpSounds ==
    ASSUME IInv, NEW f, NEW j, NEW l, NEW l1, Sounds(f, j, l), NEW S \in SUBSET Wires, "updates" \notin S,
           NEW g, g = [w \in Wires |-> IF w \in S THEN Closed ELSE f[w]],
           l1 = IF "backlog" \in S THEN l \cup Missing ELSE l
    PROVE  Sounds(g, j, l1)
<1>1. \A w \in Wires : g[w] = IF w \in S THEN Closed ELSE f[w]
  OBVIOUS
<1>2. Closed.down = <<>> /\ Closed.st = "none" /\ Closed.retry = Never
  BY DEF Closed
<1>3. Carried(g, rolling, Reach, log, posts, total, snap, Late(copy, posts, Reach)) /\ Streams(flow, g, rolling)
  <2>1. \A w \in Wires : IF w \in S THEN g[w].down = <<>> ELSE g[w].down = f[w].down
    BY <1>1, <1>2
  <2> DEFINE L == Late(copy, posts, Reach)
             k == Reach
  <2>2. Carried(f, rolling, k, log, posts, total, snap, L) /\ Streams(flow, f, rolling)
    BY DEF Sounds
  <2> HIDE DEF L, k
  <2>3. Carried(g, rolling, k, log, posts, total, snap, L) /\ Streams(f, g, rolling)
    BY <2>1, <2>2, CarriedClosed
  <2> QED
    BY <2>2, <2>3 DEF Streams, L, k
<1>4. Shapely(g)
  <2>1. Shapely(f) /\ "backlog" \in Wires
    BY DEF Sounds, Wires
  <2>2. ASSUME NEW w \in Wires PROVE (g[w].retry # Never => ~Open(g, w)) /\ (g[w].st = "asked" => g[w].down = <<>>)
    BY <1>1, <1>2, <2>1 DEF Shapely, Open
  <2> QED
    BY <1>1, <1>2, <2>1, <2>2 DEF Shapely
<1>5. Phased(g, rolling, copy, Reach, j)
  <2>1. \A w \in Wires : Busy(g, w) => Busy(f, w)
    BY <1>1, <1>2 DEF Busy, Open
  <2>2. "updates" \in Wires /\ "checkpoint" \in Wires /\ "backlog" \in Wires /\ g["updates"] = f["updates"]
    BY <1>1 DEF Wires
  <2>3. Phased(f, rolling, copy, Reach, j)
    BY DEF Sounds
  <2>4. Busy(g, "updates") <=> Busy(f, "updates")
    BY <2>2 DEF Busy, Open
  <2> QED
    BY <2>1, <2>2, <2>3, <2>4 DEF Phased
<1>6. Covered(g, copy, posts, Reach, l1)
  <2>1. Covered(f, copy, posts, Reach, l)
    BY DEF Sounds
  <2>2. CASE "backlog" \in S
    BY <2>1, <2>2, LateMissing DEF Covered
  <2>3. CASE "backlog" \notin S
    <3>1. g["backlog"] = f["backlog"]
      BY <1>1, <2>3 DEF Wires
    <3> QED
      BY <2>1, <2>3, <3>1 DEF Covered
  <2> QED
    BY <2>2, <2>3
<1> QED
  BY <1>3, <1>4, <1>5, <1>6 DEF Sounds

LEMMA OnLoadSounds == IInv /\ SInv /\ OnLoad => SInv'
<1> SUFFICES ASSUME IInv, SInv, OnLoad PROVE SInv'
  OBVIOUS
<1> DEFINE given == {w \in Wires : w # "updates" /\ Open(flow, w)}
           f     == SafeSub(flow, copy, FALSE)
           h     == IF joined THEN f ELSE flow
<1>1. Sounds(flow, joined, lost) /\ flow \in Flows /\ Idle /\ joined \in BOOLEAN /\ joined' = joined
  BY SoundsNow DEF OnLoad, IInv, TypeOK
<1>2. Sounds(h, joined, lost)
  BY <1>1, AskSounds
<1>3. /\ flow' = [w \in Wires |-> IF w \in given THEN Closed ELSE h[w]]
      /\ lost' = IF "backlog" \in given THEN lost \cup Missing ELSE lost
  BY Zenon DEF OnLoad
<1>4. given \in SUBSET Wires /\ "updates" \notin given
  OBVIOUS
<1> HIDE DEF given, h
<1>5. Sounds(flow', joined, lost')
  BY <1>2, <1>3, <1>4, GivenUpSounds
<1>6. lost \subseteq lost' /\ UNCHANGED <<log, posts, total, copy, count, rolling, heard, snap>>
  BY <1>3 DEF OnLoad, host
<1> QED
  BY <1>1, <1>5, <1>6, SoundsThen

LEMMA WakeSounds == ASSUME NEW w \in Wires PROVE IInv /\ SInv /\ Wake(w) => SInv'
<1> SUFFICES ASSUME IInv, SInv, Wake(w) PROVE SInv'
  OBVIOUS
<1>1. Sounds(flow, joined, lost) /\ flow \in Flows /\ flow[w] \in OneFlow
  BY SoundsNow DEF Flows
<1>2. /\ flow'[w] = [flow[w] EXCEPT !.st = "asked", !.arg = flow[w].retry, !.retry = Never]
      /\ \A v \in Wires \ {w} : flow'[v] = flow[v]
  BY <1>1 DEF Wake, Flows
<1>3. /\ flow'[w].down = flow[w].down /\ flow'[w].st = "asked"
      /\ flow'[w].arg = flow[w].retry /\ flow'[w].retry = Never
  BY <1>1, <1>2 DEF OneFlow
<1>4. flow[w].retry # Never /\ Idle /\ ~Open(flow, w) /\ flow[w].down = <<>>
  BY <1>1 DEF Wake, Sounds, Shapely, Open
<1>5. SameDown(flow, flow')
  BY <1>2, <1>3 DEF SameDown
<1>6. Carried(flow', rolling, Reach, log, posts, total, snap, Late(copy, posts, Reach))
      /\ Streams(flow, flow', rolling)
  <2> DEFINE L == Late(copy, posts, Reach)
             k == Reach
  <2>2. Carried(flow, rolling, k, log, posts, total, snap, L)
    BY <1>1 DEF Sounds
  <2> HIDE DEF L, k
  <2>3. Carried(flow', rolling, k, log, posts, total, snap, L) /\ Streams(flow, flow', rolling)
    BY <1>5, <2>2, CarriedSame
  <2> QED
    BY <2>3 DEF L, k
<1>7. Shapely(flow')
  <2>1. ASSUME NEW v \in Wires
        PROVE (flow'[v].retry # Never => ~Open(flow', v)) /\ (flow'[v].st = "asked" => flow'[v].down = <<>>)
    <3>1. CASE v = w
      BY <1>3, <1>4, <3>1
    <3>2. CASE v # w
      <4>1. flow'[v] = flow[v] /\ Shapely(flow)
        BY <1>1, <1>2, <3>2 DEF Sounds
      <4> QED
        BY <4>1 DEF Shapely, Open
    <3> QED
      BY <3>1, <3>2
  <2>2. flow'["backlog"].down # <<>> => flow'["backlog"] = flow["backlog"]
    BY <1>2, <1>3, <1>4 DEF Wires
  <2> QED
    BY <1>1, <2>1, <2>2 DEF Sounds, Shapely
<1>8. Phased(flow', rolling, copy, Reach, joined)
  <2>1. \A v \in Wires : Busy(flow', v) => Busy(flow, v)
    BY <1>2, <1>4 DEF Busy, Open
  <2>2. "updates" \in Wires /\ "checkpoint" \in Wires /\ "backlog" \in Wires
    BY DEF Wires
  <2>3. flow'["updates"].retry # Never => flow["updates"].retry # Never
    BY <1>2, <1>3, <2>2
  <2>4. Phased(flow, rolling, copy, Reach, joined) /\ rolling = <<>>
    BY <1>1, <1>4 DEF Sounds, Idle
  <2> QED
    BY <2>1, <2>2, <2>3, <2>4 DEF Phased
<1>9. Covered(flow', copy, posts, Reach, lost)
  <2>1. \A i : Fetches(flow["backlog"], i) => Fetches(flow'["backlog"], i)
    <3>1. CASE w = "backlog"
      BY <1>3, <1>4, <3>1 DEF Fetches, Open
    <3>2. CASE w # "backlog"
      BY <1>2, <3>2 DEF Wires
    <3> QED
      BY <3>1, <3>2
  <2> QED
    BY <1>1, <2>1 DEF Sounds, Covered
<1>10. Sounds(flow', joined, lost)
  BY <1>6, <1>7, <1>8, <1>9 DEF Sounds
<1>11. UNCHANGED <<log, posts, total, copy, count, rolling, heard, snap, joined, lost>>
  BY DEF Wake, host, sub, history
<1> QED
  BY <1>10, <1>11, SoundsThen

-----------------------------------------------------------------------------
(* A sign is taken. *)
LEMMA DropSounds ==
    ASSUME IInv, SInv, NEW w \in Wires, flow[w].down # <<>>, Head(flow[w].down).kind \in {"kick", "nack"},
           NEW f, f = [flow EXCEPT ![w].down = Tail(@)]
    PROVE  /\ f \in Flows /\ joined = TRUE
           /\ Carried(f, rolling, Reach, log, posts, total, snap, Late(copy, posts, Reach)) /\ Streams(flow, f, rolling)
           /\ Shapely(f) /\ Phased(f, rolling, copy, Reach, TRUE)
           /\ w # "backlog" => Sounds(f, TRUE, lost)
           /\ w = "backlog" => ~Busy(f, "backlog") /\ Present(copy) # {}
<1>1. Drops(flow, f, w) /\ joined \in BOOLEAN
  BY DEF Drops, IInv, TypeOK
<1>2. Sounds(flow, joined, lost) /\ flow \in Flows
  BY SoundsNow
<1>3. f \in Flows /\ Head(flow[w].down) = flow[w].down[1] /\ Len(flow[w].down) \in Nat \ {0}
      /\ \A v \in Wires \ {w} : f[v] = flow[v]
  BY <1>1, <1>2, TakeFacts
<1>4. Len(Head(flow[w].down).us) = 0
  <2>1. SignOK(flow[w].down[1], log, posts)
    BY <1>3 DEF IInv, Grounded
  <2> QED
    BY <1>3, <2>1 DEF SignOK
<1>5. Carried(f, rolling, Reach, log, posts, total, snap, Late(copy, posts, Reach)) /\ Streams(flow, f, rolling)
  <2> DEFINE L == Late(copy, posts, Reach)
             k == Reach
  <2>2. Carried(flow, rolling, k, log, posts, total, snap, L)
    BY <1>2 DEF Sounds
  <2> HIDE DEF L, k
  <2>3. Carried(f, rolling, k, log, posts, total, snap, L) /\ Streams(flow, f, rolling)
    BY <1>1, <1>2, <1>4, <2>2, CarriedDrop
  <2> QED
    BY <2>3 DEF L, k
<1>6. /\ Shapely(f) /\ Phased(f, rolling, copy, Reach, joined) /\ joined # FALSE
      /\ w = "backlog" => ~Busy(f, "backlog")
  <2> PICK c, r, k, j : c = copy /\ r = rolling /\ k = Reach /\ j = joined
    OBVIOUS
  <2>1. Shapely(flow) /\ Phased(flow, r, c, k, j) /\ Head(flow[w].down).kind # "checkpoint"
    BY <1>2 DEF Sounds
  <2>2. Shapely(f) /\ Phased(f, r, c, k, j)
    BY <1>1, <1>2, <2>1, DropShapely
  <2>3. j # FALSE
    BY <1>1, <1>2, <2>1, DropShapely
  <2>4. w = "backlog" => ~Busy(f, "backlog")
    BY <1>1, <1>2, <2>1, DropShapely
  <2> QED
    BY <2>2, <2>3, <2>4
<1>7. joined = TRUE
  BY <1>1, <1>6
<1>8. w # "backlog" => Covered(f, copy, posts, Reach, lost)
  <2>1. w # "backlog" => f["backlog"] = flow["backlog"]
    BY <1>3 DEF Wires
  <2> QED
    BY <1>2, <2>1 DEF Sounds, Covered
<1>9. w = "backlog" => Present(copy) # {}
  BY <1>2 DEF Sounds, Phased, Busy, Open
<1> QED
  BY <1>3, <1>5, <1>6, <1>7, <1>8, <1>9 DEF Sounds

LEMMA OldestIs ==
    ASSUME NEW c \in Posts, Present(c) # {}
    PROVE  /\ Oldest(c) \in Present(c) /\ \A i \in Present(c) : Oldest(c) <= i
           /\ Newest(c) \in Present(c) /\ \A i \in Present(c) : i <= Newest(c)
<1>1. Present(c) \subseteq 0 .. MaxLog /\ Present(c) \subseteq Nat /\ MaxLog \in Nat
  BY ConstantsAssumption DEF Present, Time
<1>2. \E i \in Present(c) : \A j \in Present(c) : j <= i
  BY <1>1, LargestOf
<1>3. \E i \in Present(c) : \A j \in Present(c) : i <= j
  BY <1>1, SmallestOf
<1> QED
  BY <1>2, <1>3 DEF Newest, Oldest

LEMMA TakeNackSounds == ASSUME NEW w \in Wires PROVE IInv /\ SInv /\ TakeNack(w) => SInv'
<1> SUFFICES ASSUME IInv, SInv, TakeNack(w) PROVE SInv'
  OBVIOUS
<1> PICK f : f = [flow EXCEPT ![w].down = Tail(@)]
  OBVIOUS
<1>1. flow[w].down # <<>> /\ Head(flow[w].down).kind \in {"kick", "nack"} /\ flow' = f
  BY DEF TakeNack
<1>2. /\ f \in Flows /\ joined = TRUE
      /\ Carried(f, rolling, Reach, log, posts, total, snap, Late(copy, posts, Reach)) /\ Streams(flow, f, rolling)
      /\ Shapely(f) /\ Phased(f, rolling, copy, Reach, TRUE)
      /\ w # "backlog" => Sounds(f, TRUE, lost)
  BY <1>1, DropSounds
<1>3. /\ lost' = IF w = "backlog" THEN lost \cup Missing ELSE lost
      /\ UNCHANGED <<log, posts, total, copy, count, rolling, heard, snap, joined>>
  BY DEF TakeNack, host, sub
<1>4. Sounds(flow', joined', lost')
  <2>1. CASE w = "backlog"
    <3>1. Covered(flow, copy, posts, Reach, lost)
      BY DEF SInv
    <3>2. Covered(f, copy, posts, Reach, lost')
      BY <1>3, <2>1, <3>1, LateMissing DEF Covered
    <3> QED
      BY <1>1, <1>2, <1>3, <3>2 DEF Sounds
  <2>2. CASE w # "backlog"
    BY <1>1, <1>2, <1>3, <2>2
  <2> QED
    BY <2>1, <2>2
<1> QED
  BY <1>3, <1>4, SoundsThen

(* A kick: the backlog that is left is older than all there is, but for what    *)
(* is skipped.                                                                *)
LEMMA TakeKickSounds == ASSUME NEW w \in Wires PROVE IInv /\ SInv /\ TakeKick(w) => SInv'
<1> SUFFICES ASSUME IInv, SInv, TakeKick(w) PROVE SInv'
  OBVIOUS
<1> PICK f : f = [flow EXCEPT ![w].down = Tail(@)]
  OBVIOUS
<1>1. /\ flow[w].down # <<>> /\ Head(flow[w].down).kind \in {"kick", "nack"} /\ Idle
      /\ lost' = IF w = "backlog" THEN lost \cup Skipped ELSE lost
      /\ UNCHANGED <<log, posts, total, copy, count, rolling, heard, snap, joined>>
  BY DEF TakeKick, host
<1>2. /\ f \in Flows /\ joined = TRUE
      /\ Carried(f, rolling, Reach, log, posts, total, snap, Late(copy, posts, Reach)) /\ Streams(flow, f, rolling)
      /\ Shapely(f) /\ Phased(f, rolling, copy, Reach, TRUE)
      /\ w # "backlog" => Sounds(f, TRUE, lost)
      /\ w = "backlog" => ~Busy(f, "backlog") /\ Present(copy) # {}
  BY <1>1, DropSounds
<1>3. Sounds(flow', TRUE, lost')
  <2>1. CASE w = "backlog"
    <3>1. flow' = SafeWatch(f, "backlog", Oldest(copy), TRUE)
      BY <1>2, <2>1 DEF TakeKick, SyncBacklog
    <3> PICK a : a = Oldest(copy)
      OBVIOUS
    <3>2. Asks(f, flow', "backlog", a, TRUE)
      BY <1>2, <3>1, SafeWatchAsks DEF Wires
    <3>3. Shapely(flow') /\ SameDown(f, flow')
      BY <1>2, <3>2, AsksShapely DEF Wires
    <3>4. flow'["checkpoint"] = f["checkpoint"] /\ flow'["updates"] = f["updates"]
      BY <3>2 DEF Asks, Wires
    <3>5. Phased(flow', rolling, copy, Reach, TRUE)
      BY <1>2, <2>1, <3>4 DEF Phased, Busy, Open
    <3>6. Carried(flow', rolling, Reach, log, posts, total, snap, Late(copy, posts, Reach))
          /\ Streams(flow, flow', rolling)
      <4> DEFINE L == Late(copy, posts, Reach)
                 k == Reach
      <4>1. Carried(f, rolling, k, log, posts, total, snap, L) /\ Streams(flow, f, rolling)
        BY <1>2
      <4> HIDE DEF L, k
      <4>2. Carried(flow', rolling, k, log, posts, total, snap, L) /\ Streams(f, flow', rolling)
        BY <3>3, <4>1, CarriedSame
      <4> QED
        BY <4>1, <4>2 DEF Streams, L, k
    <3>7. Covered(flow', copy, posts, Reach, lost')
      <4>1. ASSUME NEW i \in Late(copy, posts, Reach) \ lost'
            PROVE  i < Newest(copy) /\ Fetches(flow'["backlog"], i)
        <5>1. Covered(flow, copy, posts, Reach, lost) /\ lost' = lost \cup Skipped
          BY <1>1, <2>1 DEF SInv
        <5>2. i < Newest(copy) /\ i \in Missing /\ ~(i > Oldest(copy))
          BY <4>1, <5>1, LateMissing DEF Covered, Skipped
        <5>3. copy \in Posts
          BY TypeFacts DEF IInv
        <5>4. Oldest(copy) \in Present(copy)
          BY <1>2, <2>1, <5>3, OldestIs
        <5>5. i # Oldest(copy) /\ i \in Int /\ Oldest(copy) \in Int /\ Oldest(copy) # Never
          BY <5>2, <5>4, ConstantsAssumption DEF Missing, Present, Time, Never
        <5>6. flow'["backlog"].retry = Oldest(copy)
          BY <1>2, <2>1, <3>2 DEF Asks
        <5> QED
          BY <5>2, <5>5, <5>6 DEF Fetches
      <4> QED
        BY <4>1 DEF Covered
    <3> QED
      BY <3>3, <3>5, <3>6, <3>7 DEF Sounds
  <2>2. CASE w # "backlog"
    <3>1. flow' = f \/ flow' = SafeSub(f, copy, TRUE)
      BY <2>2 DEF TakeKick, Subscribes
    <3>2. Sounds(f, TRUE, lost)
      BY <1>2, <2>2
    <3>3. Sounds(SafeSub(f, copy, TRUE), TRUE, lost)
      BY <1>1, <1>2, <3>2, AskSounds
    <3> QED
      BY <1>1, <2>2, <3>1, <3>2, <3>3
  <2> QED
    BY <2>1, <2>2
<1>4. lost \subseteq lost' /\ joined' = TRUE
  BY <1>1, <1>2
<1> QED
  BY <1>1, <1>3, <1>4, SoundsThen

-----------------------------------------------------------------------------
(* A page holds the newest posts. *)
LEMMA PageNewest ==
    ASSUME NEW i \in Present(posts), i \notin Page(PageSize)
    PROVE  Page(PageSize) # {} /\ \A x \in Page(PageSize) : i < x
<1> DEFINE Later(x) == {j \in Present(posts) : j > x}
<1>1. Present(posts) \subseteq 0 .. MaxLog /\ Present(posts) \subseteq Nat /\ MaxLog \in Nat /\ PageSize \in Nat \ {0}
  BY ConstantsAssumption DEF Present, Time
<1>2. IsFiniteSet(Present(posts))
  <2>1. IsFiniteSet(0 .. MaxLog)
    BY <1>1, FS_Interval
  <2> QED
    BY <1>1, <2>1, FS_Subset
<1>3. \A x \in Present(posts) : IsFiniteSet(Later(x)) /\ Cardinality(Later(x)) \in Nat
  BY <1>2, FS_Subset, FS_CardinalityType
<1>4. \A x \in Present(posts) : x \in Page(PageSize) <=> Cardinality(Later(x)) < PageSize
  BY DEF Page
<1>5. ~(Cardinality(Later(i)) < PageSize)
  BY <1>4
<1>6. ASSUME NEW x \in Page(PageSize) PROVE i < x
  <2>1. x \in Present(posts) /\ Cardinality(Later(x)) < PageSize
    BY <1>4 DEF Page
  <2>2. CASE x <= i
    <3>1. Later(i) \subseteq Later(x)
      BY <1>1, <2>1, <2>2
    <3> HIDE DEF Later
    <3>2. Cardinality(Later(i)) <= Cardinality(Later(x))
      BY <1>3, <2>1, <3>1, FS_Subset
    <3> QED
      BY <1>1, <1>3, <1>5, <2>1, <3>2
  <2> QED
    BY <1>1, <2>1, <2>2
<1>7. Page(PageSize) # {}
  <2>1. PICK x \in Present(posts) : \A y \in Present(posts) : y <= x
    BY <1>1, LargestOf
  <2>2. Later(x) = {}
    BY <1>1, <2>1
  <2>3. Cardinality(Later(x)) < PageSize
    BY <1>1, <2>2, FS_EmptySet
  <2> QED
    BY <1>4, <2>3
<1> QED
  BY <1>6, <1>7

LEMMA CheckpointCounts ==
    ASSUME TypeOK, NEW ids PROVE Checkpoint(ids).count = total
<1> PICK q \in Signs : q = Sign("checkpoint")
  BY SignFacts
<1> PICK ps \in [Time -> Versions] : ps = [i \in Time |-> IF i \in ids THEN posts[i] ELSE Absent]
  BY AbsentTyped DEF TypeOK, Posts
<1> PICK at \in 0 .. MaxLog : at = Len(log)
  BY LenProperties DEF TypeOK
<1>1. Checkpoint(ids) = [q EXCEPT !.posts = ps, !.count = total, !.at = at] /\ total \in Nat
  BY DEF Checkpoint, TypeOK
<1> QED
  BY <1>1 DEF Signs

LEMMA CheckpointTrue ==
    ASSUME IInv, SInv, NEW w \in {"checkpoint", "backlog"}, NEW ids, ids \subseteq Present(posts),
           w = "checkpoint" => ids = Page(PageSize)
    PROVE  SnapshotOK(Checkpoint(ids), w, log, posts, total, snap, Late(copy, posts, Reach))
<1>1. HostOK(log, posts, total) /\ posts \in Posts /\ Len(log) \in Nat /\ snap <= Len(log)
  BY TypeFacts DEF SInv, IInv
<1> PICK q : q = Checkpoint(ids)
  OBVIOUS
<1>2. /\ q.kind = "checkpoint" /\ q.at = Len(log) /\ q \in Signs
      /\ \A i \in Time : q.posts[i] = IF i \in ids THEN posts[i] ELSE Absent
  BY CheckpointFacts
<1>3. q.count = total /\ total \in Nat
  BY CheckpointCounts DEF IInv, TypeOK
<1>4. Present(q.posts) = ids
  BY <1>2 DEF Present, Absent
<1>5. SnapOK(q, log, posts, total)
  <2>1. ASSUME NEW i \in Present(q.posts)
        PROVE  Alike(q.posts[i], posts[i]) /\ Told(q.posts[i], posts[i], i, log, After(q.at, log))
    <3>1. i \in Present(posts) /\ q.posts[i] = posts[i] /\ Alike(posts[i], posts[i])
      BY <1>1, <1>2, <1>4 DEF HostOK, Present
    <3> QED
      BY <3>1 DEF Told
  <2>2. \A i \in Present(posts) : posts[i].seq <= q.count
    BY <1>1, <1>3 DEF HostOK
  <2> QED
    BY <1>3, <2>1, <2>2 DEF SnapOK
<1>6. CASE w = "checkpoint"
  <2>1. ASSUME NEW i \in Present(posts), ~(q.posts[i].st # "absent")
        PROVE  Present(q.posts) # {} /\ i < Oldest(q.posts)
    <3>1. i \notin Present(q.posts) /\ Present(q.posts) = Page(PageSize)
      BY <1>4, <1>6, <2>1 DEF Present
    <3>2. Present(q.posts) # {} /\ \A x \in Present(q.posts) : i < x
      BY <3>1, PageNewest
    <3>3. q.posts \in Posts
      BY <1>2 DEF Signs, Posts
    <3> QED
      BY <3>2, <3>3, OldestIs
  <2> QED
    BY <1>5, <1>6, <2>1 DEF SnapshotOK, PageOK
<1>7. CASE w = "backlog"
  <2>1. \A i \in Late(copy, posts, Reach) : i <= q.at
    BY <1>1, <1>2 DEF Late, HostOK
  <2> QED
    BY <1>1, <1>2, <1>5, <1>7, <2>1 DEF SnapshotOK
<1> QED
  BY <1>6, <1>7

-----------------------------------------------------------------------------
LEMMA AppendTwice ==
    ASSUME NEW S, NEW d \in Seq(S), NEW x \in S, NEW y \in S
    PROVE  Append(Append(d, x), y) = d \o <<x, y>>
OBVIOUS

(* A watch arrives: the snapshot and the kick, or the updates since a time.     *)
LEMMA SnapshotSounds ==
    ASSUME IInv, SInv, NEW w \in {"checkpoint", "backlog"}, flow[w].st = "asked", NEW ids, ids \subseteq Present(posts),
           w = "checkpoint" => ids = Page(PageSize),
           w = "backlog" => ids = Before(flow["backlog"].arg),
           NEW g, g = [flow EXCEPT ![w].st = "none", ![w].down = @ \o <<Checkpoint(ids), Sign("kick")>>]
    PROVE  Sounds(g, joined, lost)
<1> PICK q \in Signs : q = Checkpoint(ids)
  BY CheckpointFacts
<1> PICK e \in Signs : e = Sign("kick")
  BY SignFacts
<1> PICK st \in {"none", "live", "asked"} : st = "none"
  OBVIOUS
<1>1. /\ Sounds(flow, joined, lost) /\ flow \in Flows /\ w \in Wires /\ flow[w] \in OneFlow
      /\ flow[w].down = <<>> /\ flow[w].retry = Never
  <2>1. Sounds(flow, joined, lost) /\ flow \in Flows /\ w \in Wires
    BY SoundsNow DEF Wires
  <2> QED
    BY <2>1 DEF Flows, Sounds, Shapely, Open
<1>2. /\ q.kind = "checkpoint" /\ Len(q.us) = 0 /\ e.kind = "kick" /\ Len(e.us) = 0
      /\ \A i \in Time : q.posts[i] = IF i \in ids THEN posts[i] ELSE Absent
  BY CheckpointFacts, SignFacts
<1> DEFINE f == [flow EXCEPT ![w].st = st, ![w].down = Append(@, q)]
           h == [f EXCEPT ![w].st = st, ![w].down = Append(@, e)]
<1>3. Adds(flow, f, w, q, st) /\ Adds(f, h, w, e, st)
  BY DEF Adds
<1>4. /\ f \in Flows /\ f[w].down = Append(flow[w].down, q) /\ f[w].retry = flow[w].retry
      /\ f[w].arg = flow[w].arg /\ \A v \in Wires \ {w} : f[v] = flow[v]
  <2> HIDE DEF f, h
  <2> QED
    BY <1>1, <1>3, AddFacts
<1>5. /\ h \in Flows /\ h[w].down = Append(f[w].down, e) /\ h[w].retry = f[w].retry /\ h[w].st = st
      /\ h[w].arg = f[w].arg /\ \A v \in Wires \ {w} : h[v] = f[v]
  <2> HIDE DEF f, h
  <2> QED
    BY <1>1, <1>3, <1>4, AddFacts
<1>6. Carried(h, rolling, Reach, log, posts, total, snap, Late(copy, posts, Reach)) /\ Streams(flow, h, rolling)
  <2> DEFINE L == Late(copy, posts, Reach)
             k == Reach
  <2>1. Carried(flow, rolling, k, log, posts, total, snap, L)
    BY <1>1 DEF Sounds
  <2>2. SnapshotOK(q, w, log, posts, total, snap, L)
    BY CheckpointTrue
  <2>3. SnapshotOK(e, w, log, posts, total, snap, L)
    BY <1>2 DEF SnapshotOK
  <2> HIDE DEF L, k, f, h
  <2>4. Carried(f, rolling, k, log, posts, total, snap, L) /\ Streams(flow, f, rolling)
    BY <1>1, <1>2, <1>3, <2>1, <2>2, CarriedAdd
  <2>5. Carried(h, rolling, k, log, posts, total, snap, L) /\ Streams(f, h, rolling)
    BY <1>1, <1>2, <1>3, <1>4, <2>4, <2>3, CarriedAdd
  <2> QED
    BY <2>4, <2>5 DEF Streams, L, k
<1> HIDE DEF f, h
<1> PICK d \in Seq(Signs) : d = flow[w].down /\ d = <<>>
  BY <1>1, FlowSeq
<1>7. h[w].down = d \o <<q, e>> /\ h[w].down[1] = q /\ h[w].down # <<>> /\ h[w].retry = Never
      /\ \A v \in Wires \ {w} : h[v] = flow[v]
  <2>1. h[w].down = Append(Append(d, q), e) /\ h[w].retry = Never
    BY <1>1, <1>4, <1>5
  <2>2. Append(Append(d, q), e) = d \o <<q, e>>
    BY AppendTwice
  <2>3. Append(d, q) \in Seq(Signs) /\ Len(Append(d, q)) = 1 /\ Append(d, q)[1] = q
    BY AppendProperties
  <2>4. Append(Append(d, q), e)[1] = q /\ Len(Append(Append(d, q), e)) = 2
    BY <2>3, AppendProperties
  <2>5. \A v \in Wires \ {w} : h[v] = flow[v]
    BY <1>4, <1>5
  <2>6. h[w].down # <<>>
    BY <2>1, <2>4
  <2> QED
    BY <2>1, <2>2, <2>4, <2>5, <2>6
<1>8. Shapely(h)
  <2>1. ASSUME NEW v \in Wires PROVE (h[v].retry # Never => ~Open(h, v)) /\ (h[v].st = "asked" => h[v].down = <<>>)
    <3>1. CASE v = w
      BY <1>5, <1>7, <3>1
    <3>2. CASE v # w
      BY <1>1, <1>7, <3>2 DEF Sounds, Shapely, Open
    <3> QED
      BY <3>1, <3>2
  <2>2. h["backlog"].down # <<>> => /\ h["backlog"].st = "none"
                                    /\ h["backlog"].down[1].kind = "checkpoint" \/ Len(h["backlog"].down) = 1
    <3>1. CASE w = "backlog"
      BY <1>2, <1>5, <1>7, <3>1
    <3>2. CASE w # "backlog"
      BY <1>1, <1>7, <3>2 DEF Sounds, Shapely, Wires
    <3> QED
      BY <3>1, <3>2
  <2> QED
    BY <2>1, <2>2 DEF Shapely
<1>9. Phased(h, rolling, copy, Reach, joined)
  <2>1. \A v \in Wires : Busy(h, v) => Busy(flow, v)
    BY <1>1, <1>7 DEF Busy, Open
  <2>2. "updates" \in Wires /\ "checkpoint" \in Wires /\ "backlog" \in Wires /\ h["updates"] = flow["updates"]
    BY <1>7 DEF Wires
  <2> QED
    BY <1>1, <2>1, <2>2 DEF Sounds, Phased
<1>10. Covered(h, copy, posts, Reach, lost)
  <2>1. ASSUME NEW i \in Late(copy, posts, Reach) \ lost PROVE Fetches(h["backlog"], i)
    <3>1. i \in Present(posts) /\ Fetches(flow["backlog"], i)
      BY <1>1, <2>1 DEF Sounds, Covered, Late
    <3>2. CASE w = "backlog"
      <4>1. i < flow["backlog"].arg
        BY <1>1, <3>1, <3>2 DEF Fetches
      <4>2. i \in ids /\ q.posts[i] = posts[i] /\ posts[i].st # "absent"
        BY <1>2, <3>1, <3>2, <4>1 DEF Before, Present
      <4> QED
        BY <1>7, <3>2, <4>2 DEF Fetches
    <3>3. CASE w # "backlog"
      BY <1>7, <3>1, <3>3 DEF Wires
    <3> QED
      BY <3>2, <3>3
  <2> QED
    BY <1>1, <2>1 DEF Sounds, Covered
<1>11. g = h
  <2>1. g[w] = [flow[w] EXCEPT !.st = "none", !.down = d \o <<q, e>>] /\ \A v \in Wires \ {w} : g[v] = flow[v]
    BY <1>1 DEF Flows
  <2>3. h[w] = [flow[w] EXCEPT !.st = "none", !.down = d \o <<q, e>>]
    <3>1. h[w] \in OneFlow /\ h[w].st = "none" /\ h[w].down = d \o <<q, e>> /\ h[w].arg = flow[w].arg
          /\ h[w].retry = flow[w].retry
      BY <1>1, <1>4, <1>5, <1>7 DEF Flows
    <3> QED
      BY <1>1, <3>1 DEF OneFlow
  <2>4. g[w] = h[w] /\ \A v \in Wires \ {w} : g[v] = h[v]
    BY <1>7, <2>1, <2>3
  <2>5. DOMAIN g = Wires /\ g = [v \in Wires |-> g[v]] /\ h = [v \in Wires |-> h[v]]
    BY <1>1, <1>5 DEF Flows
  <2> QED
    BY <2>4, <2>5
<1> QED
  BY <1>6, <1>8, <1>9, <1>10, <1>11 DEF Sounds

-----------------------------------------------------------------------------
LEMMA LogsSounds ==
    ASSUME IInv, SInv, flow["updates"].st = "asked"
    PROVE  Sounds([Tell("updates", Logs(LogAfter(flow["updates"].arg))) EXCEPT !["updates"].st = "live"], joined, lost)
<1> DEFINE us == LogAfter(flow["updates"].arg)
           d  == flow["updates"].down
           g  == [Tell("updates", Logs(us)) EXCEPT !["updates"].st = "live"]
<1>a. PICK a \in 0 .. MaxLog : a = flow["updates"].arg
  BY TypeFacts DEF IInv, Flows, OneFlow, Wires
<1>1. /\ Sounds(flow, joined, lost) /\ flow \in Flows /\ log \in Seq(Updates) /\ Len(log) \in Nat
      /\ d = <<>> /\ rolling = <<>> /\ flow["updates"].retry = Never
  <2>1. Sounds(flow, joined, lost) /\ flow \in Flows
    BY SoundsNow
  <2>2. flow["updates"].retry # Never => ~Open(flow, "updates")
    BY <2>1 DEF Sounds, Shapely, Wires
  <2> QED
    BY <2>1, <2>2, TypeFacts DEF IInv, Sounds, Shapely, Phased, Open, Wires
<1>2. us \in Seq(Updates) /\ Len(us) \in Nat /\ \A j \in 1 .. Len(us) : us[j].time = a + j /\ a + j \in 1 .. Len(log)
  <2>0. a \in Nat /\ us = SubSeq(log, a + 1, Len(log))
    BY <1>a DEF LogAfter
  <2>1. /\ us \in Seq(Updates) /\ Len(us) = (IF a + 1 <= Len(log) THEN Len(log) - a ELSE 0)
        /\ \A j \in 1 .. Len(us) : us[j] = log[a + j]
    <3> HIDE DEF us
    <3>1. /\ SubSeq(log, a + 1, Len(log)) \in Seq(Updates)
          /\ Len(SubSeq(log, a + 1, Len(log))) = (IF a + 1 <= Len(log) THEN Len(log) - a ELSE 0)
          /\ \A j \in 1 .. Len(SubSeq(log, a + 1, Len(log))) : SubSeq(log, a + 1, Len(log))[j] = log[a + j]
      BY <1>1, <2>0, SuffixFacts
    <3> QED
      BY <2>0, <3>1
  <2>2. \A t \in 1 .. Len(log) : log[t].time = t
    BY DEF IInv, LogOK, EntryOK
  <2> HIDE DEF us
  <2>3. Len(us) \in Nat
    BY <2>1
  <2>4. \A j \in 1 .. Len(us) : a + j \in 1 .. Len(log)
    BY <1>1, <2>1
  <2> QED
    BY <2>1, <2>2, <2>3, <2>4
<1>3. Len(us) = IF a + 1 <= Len(log) THEN Len(log) - a ELSE 0
  BY <1>a, <1>1, SuffixFacts DEF LogAfter
<1>q. PICK q \in Signs : q = Logs(us) /\ q.us = us /\ q.kind = "logs"
  BY <1>2, LogsFacts
<1>4. Adds(flow, g, "updates", q, "live")
  <2>1. "updates" \in Wires
    BY DEF Wires
  <2> HIDE DEF us
  <2> QED
    BY <1>q, <1>1, <2>1, TellAdds
<1> HIDE DEF us, g
<1>w. PICK w \in Wires : w = "updates"
  BY DEF Wires
<1>s. PICK st \in {"none", "live", "asked"} : st = "live"
  OBVIOUS
<1>0. Adds(flow, g, w, q, st)
  BY <1>4, <1>w, <1>s
<1>5. /\ g \in Flows /\ g[w].st = st /\ g[w].down = Append(flow[w].down, q)
      /\ g[w].arg = flow[w].arg /\ g[w].retry = flow[w].retry
      /\ \A v \in Wires \ {w} : g[v] = flow[v]
  BY <1>1, <1>0, AddFacts
<1>6. Carried(g, rolling, Reach, log, posts, total, snap, Late(copy, posts, Reach)) /\ Streams(flow, g, rolling)
  <2> DEFINE L == Late(copy, posts, Reach)
             k == Reach
  <2>1. Snapshots(flow, log, posts, total, snap, L) /\ Whole(d, rolling, k)
    BY <1>1 DEF Sounds, Carried
  <2>2. SnapshotOK(q, w, log, posts, total, snap, L)
    BY <1>q DEF SnapshotOK
  <2>3. k \in Nat /\ k <= Len(log)
    BY ReachIn
  <2> HIDE DEF L, k
  <2>4. Snapshots(g, log, posts, total, snap, L)
    BY <1>1, <1>0, <2>1, <2>2, SnapshotsAdd
  <2>5. \A t : ~InStream(d, rolling, t)
    BY <1>1 DEF InStream, Ahead
  <2>6. Rising(q.us)
    <3>1. PICK n \in Nat : n = Len(us)
      BY <1>2
    <3>2. a \in Nat /\ \A j \in 1 .. n : us[j].time = a + j
      BY <1>a, <1>2, <3>1
    <3>3. \A m \in 1 .. n : \A j \in 1 .. m - 1 : us[j].time < us[m].time
      BY <3>2
    <3> QED
      BY <1>q, <3>1, <3>3 DEF Rising
  <2>7. d \in Seq(Signs)
    BY <1>1, FlowSeq DEF Wires
  <2>8. \A x \in 1 .. Len(q.us) : \A t \in q.us[x].time + 1 .. k : \E y \in 1 .. Len(q.us) : q.us[y].time = t
    <3>1. ASSUME NEW x \in 1 .. Len(us), NEW t \in us[x].time + 1 .. k
          PROVE  \E y \in 1 .. Len(us) : us[y].time = t
      <4>1. us[x].time = a + x /\ a + x \in 1 .. Len(log)
        BY <1>2
      <4>2. t \in Int /\ a + x < t /\ t <= Len(log)
        BY <1>1, <2>3, <4>1
      <4>3. t - a \in 1 .. Len(us)
        BY <1>1, <1>2, <1>3, <4>1, <4>2
      <4>4. us[t - a].time = a + (t - a)
        BY <1>2, <4>3
      <4>5. a + (t - a) = t
        BY <4>2
      <4> QED
        BY <4>3, <4>4, <4>5
    <3> QED
      BY <1>q, <3>1
  <2>9. /\ Whole(Append(d, q), rolling, k)
        /\ \A t : InStream(Append(d, q), rolling, t) <=> InStream(d, rolling, t) \/ \E x \in 1 .. Len(q.us) : q.us[x].time = t
    <3>1. \A x \in 1 .. Len(q.us) : \A t \in Time : InStream(d, rolling, t) => t < q.us[x].time
      BY <2>5
    <3>e. PICK e \in Seq(Signs) : e = d
      BY <2>7
    <3>2. Whole(e, rolling, k) /\ \A x \in 1 .. Len(q.us) : \A t \in Time : InStream(e, rolling, t) => t < q.us[x].time
      BY <3>e, <2>1, <3>1
    <3> HIDE DEF d
    <3>3. /\ Whole(Append(e, q), rolling, k)
          /\ \A t : InStream(Append(e, q), rolling, t) <=> InStream(e, rolling, t) \/ \E x \in 1 .. Len(q.us) : q.us[x].time = t
      BY <2>6, <2>8, <3>2, AddedWhole
    <3> QED
      BY <3>e, <3>3
  <2> QED
    BY <1>w, <1>5, <2>4, <2>9 DEF Carried, Streams, L, k
<1>7. g["updates"].st = "live" /\ g["updates"].retry = Never /\ \A v \in Wires \ {"updates"} : g[v] = flow[v]
  BY <1>w, <1>s, <1>1, <1>5
<1>8. Shapely(g)
  BY <1>1, <1>7 DEF Sounds, Shapely, Open, Wires
<1>9. Phased(g, rolling, copy, Reach, joined)
  <2>1. Busy(flow, "updates")
    BY DEF Busy, Open
  <2>2. \A v \in Wires : Busy(g, v) => Busy(flow, v)
    BY <1>7, <2>1 DEF Busy, Open
  <2>3. "updates" \in Wires /\ "checkpoint" \in Wires /\ "backlog" \in Wires
    BY DEF Wires
  <2> QED
    BY <1>1, <1>7, <2>2, <2>3 DEF Sounds, Phased
<1>10. Covered(g, copy, posts, Reach, lost)
  BY <1>1, <1>7 DEF Sounds, Covered, Wires
<1> QED
  BY <1>6, <1>8, <1>9, <1>10 DEF Sounds, g, us

LEMMA WatchArrivesSounds ==
    ASSUME IInv, SInv, NEW w \in Wires, WatchArrives(w)
    PROVE  SInv'
<1>1. Sounds(flow', joined, lost)
  <2>1. CASE ~allowed
    BY <2>1, EndSounds DEF WatchArrives
  <2>2. CASE allowed /\ w = "updates"
    BY <2>2, LogsSounds DEF WatchArrives
  <2>3. CASE allowed /\ w # "updates"
    <3> DEFINE ids == IF w = "checkpoint" THEN Page(PageSize) ELSE Before(flow[w].arg)
    <3>1. /\ flow' = [flow EXCEPT ![w].st = "none", ![w].down = @ \o <<Checkpoint(ids), Sign("kick")>>]
          /\ flow[w].st = "asked"
      BY <2>3 DEF WatchArrives
    <3>2. w \in {"checkpoint", "backlog"} /\ ids \subseteq Present(posts)
          /\ (w = "checkpoint" => ids = Page(PageSize)) /\ (w = "backlog" => ids = Before(flow["backlog"].arg))
      BY <2>3 DEF Wires, Page, Before
    <3> HIDE DEF ids
    <3> QED
      BY <3>1, <3>2, SnapshotSounds
  <2> QED
    BY <2>1, <2>2, <2>3
<1>2. UNCHANGED <<log, posts, total, copy, count, rolling, heard, snap, joined, lost>>
  BY DEF WatchArrives, host, sub, history
<1> QED
  BY <1>1, <1>2, SoundsThen

-----------------------------------------------------------------------------
(* The host publishes an update.                                              *)
Unmoved(ps, ps1, n) == \A i \in Time : i <= n => /\ i \in Present(ps1) <=> i \in Present(ps)
                                                 /\ ps1[i].seq = ps[i].seq

LEMMA PostsStay ==
    ASSUME NEW u \in Updates, NEW lg \in Seq(Updates), NEW ps \in Posts, NEW n, NEW lg1, NEW ps1 \in Posts, NEW n1,
           Extends(u, lg, ps, n, lg1, ps1, n1)
    PROVE  Unmoved(ps, ps1, Len(lg))
<1>1. Len(lg) \in Nat /\ u.id \in Time
  BY LenProperties DEF Updates
<1> SUFFICES ASSUME NEW i \in Time, i <= Len(lg)
             PROVE  (i \in Present(ps1) <=> i \in Present(ps)) /\ ps1[i].seq = ps[i].seq
  BY DEF Unmoved
<1>2. CASE i # u.id
  BY <1>2 DEF Extends, Present
<1>3. CASE i = u.id
  <2>1. Revises(u.kind, ps[i], u.v) /\ ps1[i] = u.v
    BY <1>1, <1>3 DEF Extends, Time
  <2> QED
    BY <2>1 DEF Revises, Alike, Present
<1> QED
  BY <1>2, <1>3

LEMMA LateStays ==
    ASSUME NEW ps, NEW ps1, NEW n \in Nat, Unmoved(ps, ps1, n), NEW c, NEW k \in Nat, k <= n
    PROVE  Late(c, ps1, k) = Late(c, ps, k)
<1>1. ASSUME NEW i \in Time, i <= k PROVE i \in Present(ps1) <=> i \in Present(ps)
  BY <1>1 DEF Unmoved, Time
<1>2. \A i : i \in Present(ps1) \/ i \in Present(ps) => i \in Time
  BY DEF Present
<1> QED
  BY <1>1, <1>2 DEF Late

LEMMA SnapshotLater ==
    ASSUME NEW lg \in Seq(Updates), NEW ps \in Posts, NEW n \in Nat, HostOK(lg, ps, n),
           NEW u \in Updates, NEW lg1 \in Seq(Updates), NEW ps1 \in Posts, NEW n1 \in Nat,
           Extends(u, lg, ps, n, lg1, ps1, n1), n <= n1,
           NEW q \in Signs, SignOK(q, lg, ps), NEW w, NEW s, NEW L, SnapshotOK(q, w, lg, ps, n, s, L)
    PROVE  SnapshotOK(q, w, lg1, ps1, n1, s, L)
<1> SUFFICES ASSUME q.kind = "checkpoint" PROVE SnapshotOK(q, w, lg1, ps1, n1, s, L)
  BY DEF SnapshotOK
<1>1. /\ Len(lg) \in Nat /\ Len(lg1) = Len(lg) + 1 /\ q.at \in Nat /\ q.at <= Len(lg) /\ q.count \in Nat
      /\ q.posts \in Posts
  BY LenProperties DEF Extends, Signs, SignOK, Posts
<1>2. Unmoved(ps, ps1, Len(lg))
  BY PostsStay
<1>3. ASSUME NEW i \in Present(q.posts)
      PROVE Alike(q.posts[i], ps1[i]) /\ Told(q.posts[i], ps1[i], i, lg1, After(q.at, lg1))
  <2> DEFINE C == After(q.at, lg)
             D == After(q.at, lg1)
             v == q.posts[i]
  <2>1. i \in Time /\ v \in Versions /\ v.st # "absent" /\ Upto(v, ps[i])
    BY <1>1 DEF Present, SignOK, Posts
  <2>2. Alike(v, ps[i]) /\ Told(v, ps[i], i, lg, C)
    BY DEF SnapshotOK, SnapOK
  <2>3. C \in SUBSET (1 .. Len(lg)) /\ C \subseteq D /\ Len(lg) + 1 \in D
    BY <1>1 DEF After
  <2> HIDE DEF C, D, v
  <2>4. Alike(v, ps1[i]) /\ (Told(v, ps[i], i, lg, C) => Told(v, ps1[i], i, lg1, D))
    BY <2>1, <2>2, <2>3, VersionLater
  <2> QED
    BY <2>2, <2>4 DEF D, v
<1>4. q.count <= n1
  BY <1>1 DEF SnapshotOK, SnapOK
<1>5. ASSUME NEW i \in Present(ps1), i <= q.at PROVE i \in Present(ps) /\ ps1[i].seq = ps[i].seq /\ i \in Time
  BY <1>1, <1>2, <1>5 DEF Unmoved, Present, Time
<1>6. SnapOK(q, lg1, ps1, n1)
  BY <1>3, <1>4, <1>5 DEF SnapshotOK, SnapOK
<1>7. w = "checkpoint" => PageOK(q, ps1)
  BY <1>5 DEF SnapshotOK, PageOK
<1> QED
  BY <1>6, <1>7 DEF SnapshotOK

LEMMA CopyLater ==
    ASSUME NEW lg \in Seq(Updates), NEW ps \in Posts, NEW n \in Nat, HostOK(lg, ps, n),
           NEW u \in Updates, NEW lg1 \in Seq(Updates), NEW ps1 \in Posts, NEW n1 \in Nat,
           Extends(u, lg, ps, n, lg1, ps1, n1),
           NEW c \in Posts, NEW k, CopyOK(c, ps, k), NEW l, NEW C \in SUBSET (1 .. Len(lg)), NEW D, C \subseteq D,
           Len(lg) + 1 \in D, CopyTold(c, ps, lg, l, C)
    PROVE  CopyTold(c, ps1, lg1, l, D)
<1>1. ASSUME NEW i \in Time, c[i].st # "absent"
      PROVE  Alike(c[i], ps1[i]) /\ (i \in l \/ Told(c[i], ps1[i], i, lg1, D))
  <2> DEFINE v == c[i]
  <2>1. v \in Versions /\ v.st # "absent" /\ Upto(v, ps[i]) /\ Alike(v, ps[i]) /\ (i \in l \/ Told(v, ps[i], i, lg, C))
    BY <1>1 DEF Posts, CopyOK, CopyTold
  <2> HIDE DEF v
  <2>2. v \in Versions /\ v.st # "absent" /\ Upto(v, ps[i]) /\ Alike(v, ps[i])
    BY <2>1
  <2>3. Alike(v, ps1[i]) /\ (Told(v, ps[i], i, lg, C) => Told(v, ps1[i], i, lg1, D))
    BY <2>2, VersionLater
  <2> QED
    BY <2>1, <2>3 DEF v
<1>2. \A i \in Time : c[i].st = "absent" => c[i] = Absent
  BY DEF CopyTold
<1> QED
  BY <1>1, <1>2 DEF CopyTold

(* What is on its way is in the log.                                          *)
LEMMA StreamIn ==
    ASSUME IInv, NEW t, InStream(flow["updates"].down, rolling, t)
    PROVE  t \in 1 .. Len(log)
<1>1. Grounded(flow, rolling, log, posts) /\ "updates" \in Wires /\ Len(flow["updates"].down) \in Nat
  BY TypeFacts, FlowSeq DEF IInv, Wires
<1>2. CASE \E j \in 1 .. Len(rolling) : rolling[j].time = t
  BY <1>1, <1>2 DEF Grounded, UpOK
<1>3. CASE \E m \in 1 .. Len(flow["updates"].down) : \E j \in 1 .. Len(flow["updates"].down[m].us) :
              flow["updates"].down[m].us[j].time = t
  BY <1>1, <1>3 DEF Grounded, SignOK, UpOK
<1> QED
  BY <1>1, <1>2, <1>3 DEF InStream, Ahead

-----------------------------------------------------------------------------
Tells(f, g, u) == IF f["updates"].st = "live"
                  THEN \E q \in Signs : q.kind = "logs" /\ q.us = <<u>> /\ Adds(f, g, "updates", q, "live")
                  ELSE g = f

LEMMA TellsStream ==
    ASSUME IInv, SInv, NEW u \in Updates, u.time = Len(log) + 1, NEW g, Tells(flow, g, u)
    PROVE  /\ Whole(g["updates"].down, rolling, Reach) /\ Streams(flow, g, rolling)
<1> DEFINE d == flow["updates"].down
           k == Reach
<1>1. /\ Whole(d, rolling, k) /\ k \in Nat /\ k <= Len(log) /\ Len(log) \in Nat /\ flow \in Flows
      /\ d \in Seq(Signs)
  <2>1. flow \in Flows /\ "updates" \in Wires
    BY TypeFacts DEF IInv, Wires
  <2> QED
    BY <2>1, ReachIn, TypeFacts, FlowSeq DEF SInv, IInv
<1>2. CASE flow["updates"].st # "live"
  BY <1>1, <1>2 DEF Tells, Streams
<1>3. CASE flow["updates"].st = "live"
  <2>1. PICK q \in Signs : q.us = <<u>> /\ Adds(flow, g, "updates", q, "live")
    BY <1>3 DEF Tells
  <2>2. g["updates"].down = Append(d, q)
    <3>1. PICK w \in Wires : w = "updates"
      BY DEF Wires
    <3>2. PICK st \in {"none", "live", "asked"} : st = "live"
      OBVIOUS
    <3>3. g[w].down = Append(flow[w].down, q)
      BY <1>1, <2>1, <3>1, <3>2, AddFacts
    <3> QED
      BY <3>1, <3>3
  <2>3. Len(q.us) = 1 /\ q.us[1] = u
    BY <2>1
  <2>4. Rising(q.us)
    BY <2>3 DEF Rising
  <2>5. ASSUME NEW x \in 1 .. Len(q.us), NEW t \in Time, InStream(d, rolling, t) PROVE t < q.us[x].time
    BY <1>1, <2>3, <2>5, StreamIn
  <2>6. ASSUME NEW x \in 1 .. Len(q.us), NEW t \in q.us[x].time + 1 .. k PROVE \E y \in 1 .. Len(q.us) : q.us[y].time = t
    <3>1. q.us[x].time = Len(log) + 1
      BY <2>3
    <3> QED
      BY <1>1, <3>1
  <2>7. PICK e \in Seq(Signs) : e = d
    BY <1>1
  <2>8. Whole(e, rolling, k) /\ \A x \in 1 .. Len(q.us) : \A t \in Time : InStream(e, rolling, t) => t < q.us[x].time
    BY <1>1, <2>5, <2>7
  <2>10. \A x \in 1 .. Len(q.us) : \A t \in q.us[x].time + 1 .. k : \E y \in 1 .. Len(q.us) : q.us[y].time = t
    BY <2>6
  <2> HIDE DEF d, k
  <2>9. /\ Whole(Append(e, q), rolling, k)
        /\ \A t : InStream(e, rolling, t) => InStream(Append(e, q), rolling, t)
    BY <2>4, <2>8, <2>10, AddedWhole
  <2> QED
    BY <2>2, <2>7, <2>9 DEF Streams, d, k
<1> QED
  BY <1>2, <1>3

LEMMA TellsFlow ==
    ASSUME NEW f \in Flows, NEW g, NEW u, Tells(f, g, u), Shapely(f), NEW r, NEW c, NEW k, NEW j,
           Phased(f, r, c, k, j), NEW lg, NEW ps, NEW n, NEW s, NEW L, Snapshots(f, lg, ps, n, s, L)
    PROVE  /\ Shapely(g) /\ Phased(g, r, c, k, j) /\ Snapshots(g, lg, ps, n, s, L)
           /\ SameBacklog(f, g)
<1>1. CASE f["updates"].st # "live"
  BY <1>1 DEF Tells, SameBacklog
<1>2. CASE f["updates"].st = "live"
  <2>1. PICK q \in Signs : q.kind = "logs" /\ Adds(f, g, "updates", q, "live")
    BY <1>2 DEF Tells
  <2>2. PICK w \in Wires : w = "updates"
    BY DEF Wires
  <2>3. PICK st \in {"none", "live", "asked"} : st = "live"
    OBVIOUS
  <2>4. Adds(f, g, w, q, st) /\ SnapshotOK(q, w, lg, ps, n, s, L)
    BY <2>1, <2>2, <2>3 DEF SnapshotOK
  <2>5. /\ g \in Flows /\ g[w].st = st /\ g[w].retry = f[w].retry
        /\ \A v \in Wires \ {w} : g[v] = f[v]
    BY <2>4, AddFacts
  <2>6. Snapshots(g, lg, ps, n, s, L)
    BY <2>4, SnapshotsAdd
  <2>7. g["updates"].st = "live" /\ g["updates"].retry = f["updates"].retry /\ \A v \in Wires \ {"updates"} : g[v] = f[v]
    BY <2>2, <2>3, <2>5
  <2>8. f["updates"].retry = Never
    BY <1>2 DEF Shapely, Open, Wires
  <2>9. Shapely(g)
    BY <2>7, <2>8 DEF Shapely, Open, Wires
  <2>10. \A v \in Wires : Busy(g, v) => Busy(f, v)
    BY <1>2, <2>7 DEF Busy, Open
  <2>11. "updates" \in Wires /\ "checkpoint" \in Wires /\ "backlog" \in Wires
    BY DEF Wires
  <2>12. Phased(g, r, c, k, j)
    BY <2>7, <2>8, <2>10, <2>11 DEF Phased
  <2> QED
    BY <2>6, <2>7, <2>9, <2>11, <2>12 DEF SameBacklog
<1> QED
  BY <1>1, <1>2

LEMMA PublishSounds ==
    ASSUME IInv, SInv, NEW u \in Updates, u.time = Len(log) + 1,
           Extends(u, log, posts, total, log', posts', total'),
           log' \in Seq(Updates), posts' \in Posts, total' \in Nat, Tells(flow, flow', u),
           UNCHANGED <<joined, copy, count, rolling, heard, snap, lost>>
    PROVE  SInv'
<1>1. /\ log \in Seq(Updates) /\ posts \in Posts /\ total \in Nat /\ count \in Nat /\ flow \in Flows /\ copy \in Posts
      /\ HostOK(log, posts, total) /\ LogOK(log, posts) /\ Reach \in Nat /\ Reach <= Len(log) /\ Len(log) \in Nat
      /\ CopyOK(copy, posts, Reach)
  BY TypeFacts, ReachIn DEF IInv, SInv, TypeOK
<1>2. HostOK(log', posts', total') /\ total <= total'
  <2>1. PICK lg \in Seq(Updates) : lg = log'
    OBVIOUS
  <2>2. PICK ps \in Posts : ps = posts'
    OBVIOUS
  <2>3. PICK n \in Nat : n = total'
    OBVIOUS
  <2>4. Extends(u, log, posts, total, lg, ps, n)
    BY <2>1, <2>2, <2>3
  <2>5. HostOK(lg, ps, n) /\ total <= n
    BY <1>1, <2>4, HostExtends
  <2> QED
    BY <2>1, <2>2, <2>3, <2>5
<1>3. Unmoved(posts, posts', Len(log))
  BY <1>1, PostsStay
<1>4. Late(copy, posts', Reach) = Late(copy, posts, Reach)
  <2>1. PICK n \in Nat : n = Len(log)
    BY <1>1
  <2>2. PICK k \in Nat : k = Reach
    BY <1>1
  <2>3. Unmoved(posts, posts', n) /\ k <= n
    BY <1>1, <1>3, <2>1, <2>2
  <2>4. Late(copy, posts', k) = Late(copy, posts, k)
    BY <2>3, LateStays
  <2> QED
    BY <2>2, <2>4
<1>5. Reach' = Reach
  BY DEF Reach
<1>6. Counted(count, total', posts', copy, Reach, lost)
  <2>1. ASSUME NEW i \in Present(posts'), i <= Reach PROVE i \in Present(posts) /\ posts'[i].seq = posts[i].seq
    BY <1>1, <1>3, <2>1 DEF Unmoved, Present, Time
  <2>2. ASSUME NEW i \in Late(copy, posts, Reach) PROVE posts'[i].seq = posts[i].seq
    BY <1>1, <1>3, <2>2 DEF Unmoved, Late, Present, Time
  <2>3. count <= total'
    BY <1>1, <1>2 DEF SInv, Counted
  <2>4. 0 \in lost \/ \A i \in Present(posts') : i <= Reach => posts'[i].seq <= count
    BY <2>1 DEF SInv, Counted
  <2>5. \A i \in Late(copy, posts, Reach) : posts'[i].seq <= count
    BY <2>2 DEF SInv, Counted
  <2> QED
    BY <1>4, <2>3, <2>4, <2>5 DEF Counted
<1>7. Whole(flow'["updates"].down, rolling, Reach) /\ Streams(flow, flow', rolling)
  BY TellsStream
<1>8. Snapshots(flow, log', posts', total', snap, Late(copy, posts, Reach))
  <2> DEFINE L == Late(copy, posts, Reach)
  <2>1. ASSUME NEW w \in Wires, NEW m \in 1 .. Len(flow[w].down)
        PROVE SnapshotOK(flow[w].down[m], w, log', posts', total', snap, L)
    <3>1. PICK q \in Signs : q = flow[w].down[m]
      BY <1>1, FlowSeq
    <3>2. SignOK(q, log, posts) /\ SnapshotOK(q, w, log, posts, total, snap, L)
      BY <3>1 DEF IInv, SInv, Grounded, Snapshots
    <3> HIDE DEF L
    <3>3. SnapshotOK(q, w, log', posts', total', snap, L)
      BY <1>1, <1>2, <3>2, SnapshotLater
    <3> QED
      BY <3>1, <3>3
  <2> QED
    BY <2>1 DEF Snapshots
<1>9. /\ Shapely(flow') /\ Phased(flow', rolling, copy, Reach, joined) /\ SameBacklog(flow, flow')
      /\ Snapshots(flow', log', posts', total', snap, Late(copy, posts, Reach))
  <2>1. Shapely(flow) /\ Phased(flow, rolling, copy, Reach, joined)
    BY DEF SInv
  <2> DEFINE L == Late(copy, posts, Reach)
             k == Reach
  <2>2. Phased(flow, rolling, copy, k, joined) /\ Snapshots(flow, log', posts', total', snap, L)
    BY <1>8, <2>1
  <2> HIDE DEF L, k
  <2>3. Shapely(flow') /\ Phased(flow', rolling, copy, k, joined) /\ SameBacklog(flow, flow')
        /\ Snapshots(flow', log', posts', total', snap, L)
    BY <1>1, <2>1, <2>2, TellsFlow
  <2> QED
    BY <2>3 DEF L, k
<1>10. Covered(flow', copy, posts', Reach, lost)
  BY <1>4, <1>9 DEF SInv, Covered, SameBacklog
<1>11. CopyTold(copy, posts', log', lost, Coming(flow'["updates"].down, rolling, Reach, log'))
  <2> DEFINE C == Coming(flow["updates"].down, rolling, Reach, log)
             D == Coming(flow'["updates"].down, rolling, Reach, log')
             k == Reach
  <2>1. C \in SUBSET (1 .. Len(log)) /\ Len(log') = Len(log) + 1
    BY DEF Coming, Extends
  <2>2. C \subseteq D /\ Len(log) + 1 \in D
    BY <1>1, <1>7, <2>1 DEF Coming, Streams
  <2>3. CopyTold(copy, posts, log, lost, C) /\ CopyOK(copy, posts, k)
    BY <1>1 DEF SInv
  <2>4. PICK lg \in Seq(Updates) : lg = log'
    OBVIOUS
  <2>5. PICK ps \in Posts : ps = posts'
    OBVIOUS
  <2>6. PICK n \in Nat : n = total'
    OBVIOUS
  <2>7. Extends(u, log, posts, total, lg, ps, n)
    BY <2>4, <2>5, <2>6
  <2> HIDE DEF C, D, k
  <2>8. CopyTold(copy, ps, lg, lost, D)
    BY <1>1, <2>1, <2>2, <2>3, <2>7, CopyLater
  <2> QED
    BY <2>4, <2>5, <2>8 DEF D
<1> QED
  BY <1>2, <1>4, <1>5, <1>6, <1>7, <1>9, <1>10, <1>11 DEF SInv

-----------------------------------------------------------------------------
LEMMA UpdateSounds ==
    ASSUME IInv, SInv, NEW id \in Time, NEW kind \in {"set", "reacts", "reply"}, NEW v \in Versions,
           Update(id, kind, v), total' \in Nat,
           \/ Revises(kind, posts[id], v) /\ total' = total
           \/ /\ id = Len(log) + 1 /\ kind = "set" /\ v.st = "live" /\ Alike(v, v)
              /\ total' = total + 1 /\ v.seq = total',
           UNCHANGED <<joined, copy, count, rolling, heard, snap, lost>>
    PROVE  SInv'
<1> DEFINE u == [time |-> Len(log) + 1, id |-> id, kind |-> kind, v |-> v]
<1>1. /\ Len(log) < MaxLog /\ log' = Append(log, u) /\ posts' = [posts EXCEPT ![id] = v]
      /\ flow' = IF flow["updates"].st = "live" THEN Tell("updates", Logs(<<u>>)) ELSE flow
  BY DEF Update
<1>2. log \in Seq(Updates) /\ Len(log) \in Nat /\ posts \in Posts /\ flow \in Flows /\ MaxLog \in Nat
  BY TypeFacts DEF IInv
<1>3. u \in Updates /\ u.time = Len(log) + 1 /\ u.id = id /\ u.kind = kind /\ u.v = v
  <2>1. Len(log) + 1 \in Time
    BY <1>1, <1>2 DEF Time
  <2> QED
    BY <2>1 DEF Updates
<1> HIDE DEF u
<1>4. /\ log' \in Seq(Updates) /\ Len(log') = Len(log) + 1 /\ log'[Len(log) + 1] = u
      /\ \A t \in 1 .. Len(log) : log'[t] = log[t]
  BY <1>1, <1>2, <1>3, AppendProperties
<1>5. posts' \in Posts /\ posts'[id] = v /\ \A i \in Time \ {id} : posts'[i] = posts[i]
  BY <1>1, <1>2 DEF Posts
<1>6. Tells(flow, flow', u)
  <2>1. CASE flow["updates"].st # "live"
    BY <1>1, <2>1 DEF Tells
  <2>2. CASE flow["updates"].st = "live"
    <3> DEFINE q == Logs(<<u>>)
    <3>1. <<u>> \in Seq(Updates)
      BY <1>3
    <3>2. q \in Signs /\ q.kind = "logs" /\ q.us = <<u>>
      BY <3>1, LogsFacts
    <3> HIDE DEF q
    <3>3. Adds(flow, Tell("updates", q), "updates", q, flow["updates"].st)
      BY <1>2, TellAdds DEF Wires
    <3>4. Adds(flow, flow', "updates", q, "live")
      BY <1>1, <2>2, <3>3 DEF q
    <3> QED
      BY <2>2, <3>2, <3>4 DEF Tells
  <2> QED
    BY <2>1, <2>2
<1>7. Extends(u, log, posts, total, log', posts', total')
  BY <1>3, <1>4, <1>5 DEF Extends
<1> QED
  BY <1>3, <1>4, <1>5, <1>6, <1>7, PublishSounds

LEMMA AddSounds ==
    ASSUME IInv, SInv, NEW m \in Message \cup {NoMessage}, Add(m),
           UNCHANGED <<joined, copy, count, rolling, heard, snap, lost>>
    PROVE  SInv'
<1> DEFINE v == [Absent EXCEPT !.st = "live", !.seq = total + 1, !.msg = m]
<1>1. Len(log) \in Nat /\ MaxLog \in Nat /\ total \in Nat
  BY TypeFacts DEF IInv, TypeOK
<1>2. total' = total + 1 /\ Update(Len(log) + 1, "set", v) /\ Len(log) < MaxLog
  BY DEF Add, Update
<1>3. v \in Versions /\ v.st = "live" /\ v.seq = total + 1 /\ v.reply = NoReply
  <2> PICK a \in Versions : a = Absent /\ a.reply = NoReply
    BY AbsentTyped DEF Absent
  <2> PICK n \in Nat : n = total + 1
    BY <1>1
  <2> PICK w : w = [a EXCEPT !.st = "live", !.seq = n, !.msg = m]
    OBVIOUS
  <2>1. w \in Versions /\ w.st = "live" /\ w.seq = n /\ w.reply = NoReply
    BY DEF Versions
  <2>2. v = w
    BY Zenon
  <2> HIDE DEF v
  <2> QED
    BY <2>1, <2>2
<1> HIDE DEF v
<1>4. Len(log) + 1 \in Time /\ total' \in Nat
  BY <1>1, <1>2 DEF Time
<1>5. Alike(v, v)
  BY <1>3 DEF Alike, ReplyUpto
<1> QED
  BY <1>2, <1>3, <1>4, <1>5, UpdateSounds

LEMMA TombstoneAlike ==
    ASSUME NEW v \in Versions PROVE Alike(Tombstone(v), Tombstone(v)) /\ Tombstone(v).seq = v.seq
<1>1. Tombstone(v).st = "dead" /\ Tombstone(v).seq = v.seq
  BY AbsentTyped DEF Tombstone, Versions
<1>2. Tombstone(Tombstone(v)) = Tombstone(v)
  <2> PICK n : n = v.seq
    OBVIOUS
  <2> QED
    BY <1>1 DEF Tombstone
<1> QED
  BY <1>1, <1>2 DEF Alike

LEMMA RevisedSounds ==
    ASSUME IInv, SInv, NEW id \in Time, posts[id].st = "live", Revised(id), total' = total,
           UNCHANGED <<joined, copy, count, rolling, heard, snap, lost>>
    PROVE  SInv'
<1> DEFINE v == posts[id]
<1>1. v \in Versions /\ v.st = "live" /\ Alike(v, v) /\ total' \in Nat
  BY TypeFacts DEF IInv, SInv, HostOK, Present, Posts, TypeOK
<1> HIDE DEF v
<1>2. \/ Update(id, "set", [v EXCEPT !.rev = @ + 1])
      \/ Update(id, "set", Tombstone(v))
      \/ Update(id, "reacts", [v EXCEPT !.reacts = @ + 1])
      \/ \E reply \in Int :
            Update(id, "reply", [v EXCEPT !.reply = reply]) /\ ReplyUpto(v.reply, reply) /\ ReplyUpto(reply, reply)
  <2>1. v.reply + 1 \in Int /\ Deleted \in Int
    BY <1>1 DEF Versions, Deleted
  <2>2. v.reply # Deleted => ReplyUpto(v.reply, v.reply + 1) /\ ReplyUpto(v.reply + 1, v.reply + 1)
    BY <1>1 DEF Alike, ReplyUpto, Versions, Deleted, NoReply
  <2>3. v.reply > NoReply => ReplyUpto(v.reply, Deleted) /\ ReplyUpto(Deleted, Deleted)
    BY DEF ReplyUpto
  <2> QED
    BY <2>1, <2>2, <2>3 DEF Revised, v
<1>3. CASE Update(id, "set", [v EXCEPT !.rev = @ + 1])
  <2> DEFINE w == [v EXCEPT !.rev = @ + 1]
  <2>1. /\ w \in Versions /\ w.st = "live" /\ w.seq = v.seq /\ w.msg = v.msg /\ w.reply = v.reply
    BY <1>1 DEF Versions
  <2> HIDE DEF w
  <2>2. Revises("set", v, w)
    BY <1>1, <2>1 DEF Revises, Alike
  <2> QED
    BY <1>1, <1>3, <2>1, <2>2, UpdateSounds DEF v, w
<1>4. CASE Update(id, "set", Tombstone(v))
  <2>1. Tombstone(v) \in Versions /\ Tombstone(v).st = "dead" /\ Alike(Tombstone(v), Tombstone(v)) /\ Tombstone(v).seq = v.seq
    BY <1>1, TombstoneFacts, TombstoneAlike
  <2>2. Revises("set", v, Tombstone(v))
    BY <1>1, <2>1 DEF Revises, Alike
  <2> QED
    BY <1>1, <1>4, <2>1, <2>2, UpdateSounds DEF v
<1>5. CASE Update(id, "reacts", [v EXCEPT !.reacts = @ + 1])
  <2> DEFINE w == [v EXCEPT !.reacts = @ + 1]
  <2>1. /\ w \in Versions /\ w.st = "live" /\ w.seq = v.seq /\ w.msg = v.msg /\ w.reply = v.reply /\ w.rev = v.rev
    BY <1>1 DEF Versions
  <2> HIDE DEF w
  <2>2. Revises("reacts", v, w)
    BY <1>1, <2>1 DEF Revises, Alike
  <2> QED
    BY <1>1, <1>5, <2>1, <2>2, UpdateSounds DEF v, w
<1>6. ASSUME NEW reply \in Int,
             Update(id, "reply", [v EXCEPT !.reply = reply]) /\ ReplyUpto(v.reply, reply) /\ ReplyUpto(reply, reply)
      PROVE  SInv'
  <2> DEFINE w == [v EXCEPT !.reply = reply]
  <2>1. /\ w \in Versions /\ w.st = "live" /\ w.seq = v.seq /\ w.msg = v.msg /\ w.reply = reply /\ w.rev = v.rev
        /\ w.reacts = v.reacts
    BY <1>1 DEF Versions
  <2> HIDE DEF w
  <2>2. Revises("reply", v, w)
    BY <1>1, <1>6, <2>1 DEF Revises, Alike
  <2> QED
    BY <1>1, <1>6, <2>1, <2>2, UpdateSounds DEF v, w
<1>7. CASE \E reply \in Int :
            Update(id, "reply", [v EXCEPT !.reply = reply]) /\ ReplyUpto(v.reply, reply) /\ ReplyUpto(reply, reply)
  <2>1. PICK reply \in Int :
            Update(id, "reply", [v EXCEPT !.reply = reply]) /\ ReplyUpto(v.reply, reply) /\ ReplyUpto(reply, reply)
    BY <1>7
  <2> QED
    BY <2>1, <1>6
<1> QED
  BY <1>2, <1>3, <1>4, <1>5, <1>7

(* A number is given, to no post.                                             *)
LEMMA NumberSounds ==
    ASSUME IInv, SInv, total' \in {total, total + 1},
           UNCHANGED <<log, posts, flow, joined, copy, count, rolling, heard, snap, lost>>
    PROVE  SInv'
<1>1. Reach' = Reach
  BY DEF Reach
<1>2. total \in Nat /\ total <= total' /\ total' \in Nat /\ posts \in Posts /\ flow \in Flows /\ count \in Nat
  BY TypeFacts DEF IInv, TypeOK
<1>3. HostOK(log, posts, total')
  <2>1. ASSUME NEW i \in Present(posts) PROVE posts[i].seq <= total'
    <3>1. posts[i].seq \in Nat /\ posts[i].seq <= total
      BY <1>2 DEF SInv, HostOK, Present, Posts, Versions
    <3> QED
      BY <1>2, <3>1
  <2> QED
    BY <2>1 DEF SInv, HostOK
<1>4. Counted(count, total', posts, copy, Reach, lost)
  BY <1>2 DEF SInv, Counted
<1>5. Snapshots(flow, log, posts, total', snap, Late(copy, posts, Reach))
  <2> DEFINE L == Late(copy, posts, Reach)
  <2> HIDE DEF L
  <2>1. ASSUME NEW w \in Wires, NEW m \in 1 .. Len(flow[w].down)
        PROVE SnapshotOK(flow[w].down[m], w, log, posts, total', snap, L)
    <3>1. SnapshotOK(flow[w].down[m], w, log, posts, total, snap, L) /\ flow[w].down[m].count \in Nat
      BY <1>2, FlowSeq DEF SInv, Snapshots, Signs, L
    <3> QED
      BY <1>2, <3>1 DEF SnapshotOK, SnapOK
  <2> QED
    BY <2>1 DEF Snapshots, L
<1> QED
  BY <1>1, <1>3, <1>4, <1>5 DEF SInv

LEMMA HostSounds ==
    ASSUME IInv, SInv, HostPosts \/ (\E id \in Time : HostRevises(id)) \/ HostTakes
    PROVE  SInv'
<1>1. UNCHANGED <<joined, copy, count, rolling, heard, snap, lost>>
  <2>1. CASE HostPosts
    BY <2>1 DEF HostPosts, sub, history
  <2>2. ASSUME NEW id \in Time, HostRevises(id)
        PROVE UNCHANGED <<joined, copy, count, rolling, heard, snap, lost>>
    BY <2>2 DEF HostRevises, sub, history
  <2>3. CASE HostTakes
    BY <2>3 DEF HostTakes, sub
  <2> QED
    BY <2>1, <2>2, <2>3
<1>2. CASE HostPosts
  <2>1. PICK m \in Message \cup {NoMessage} : m = NoMessage
    OBVIOUS
  <2>2. Add(m)
    BY <1>2, <2>1 DEF HostPosts
  <2> QED
    BY <1>1, <2>2, AddSounds
<1>3. ASSUME NEW id \in Time, HostRevises(id) PROVE SInv'
  BY <1>1, <1>3, RevisedSounds DEF HostRevises
<1>4. CASE HostTakes
  <2>1. PICK m \in Message \cup {NoMessage} : m = Head(cmds)
    BY <1>4, TypeFacts, HeadTailProperties DEF IInv, HostTakes
  <2>2. CASE Add(m)
    BY <1>1, <2>2, AddSounds
  <2>3. CASE total' \in {total, total + 1} /\ UNCHANGED <<log, posts, allowed, flow>>
    BY <1>1, <2>3, NumberSounds
  <2> QED
    BY <1>4, <2>1, <2>2, <2>3 DEF HostTakes
<1> QED
  BY <1>2, <1>3, <1>4

-----------------------------------------------------------------------------
LEMMA TakeLogsSounds ==
    ASSUME IInv, SInv, TakeLogs
    PROVE  SInv'
<1> DEFINE d == flow["updates"].down
           e == flow'["updates"].down
           L == Late(copy, posts, Reach)
           k == Reach
<1>1. /\ rolling = <<>> /\ Drops(flow, flow', "updates") /\ Head(d).kind = "logs" /\ rolling' = Head(d).us
      /\ UNCHANGED <<log, posts, total, joined, copy, count, heard, snap, lost>>
  BY DEF TakeLogs, Idle, Drops, host, history
<1>2. flow \in Flows /\ "updates" \in Wires
  BY TypeFacts DEF IInv, Wires
<1>3. /\ flow'["updates"].st = flow["updates"].st /\ \A v \in Wires \ {"updates"} : flow'[v] = flow[v]
      /\ Head(d) = d[1] /\ Len(e) = Len(d) - 1 /\ Len(d) \in Nat \ {0}
      /\ \A n \in 1 .. Len(e) : e[n] = d[n + 1]
  BY <1>1, <1>2, TakeFacts
<1>4. Reach' = k
  BY <1>1 DEF Reach
<1>5. Shapely(flow') /\ Phased(flow', rolling, copy, k, joined) /\ joined # FALSE
  <2>1. Shapely(flow) /\ Phased(flow, rolling, copy, k, joined)
    BY DEF SInv
  <2>2. PICK w \in Wires : w = "updates"
    BY <1>2
  <2>3. Drops(flow, flow', w) /\ Head(flow[w].down).kind # "checkpoint"
    BY <1>1, <2>2
  <2> HIDE DEF k
  <2> QED
    BY <1>2, <2>1, <2>3, DropShapely
<1>6. Phased(flow', rolling', copy, k, joined)
  <2>1. Busy(flow, "updates") /\ flow["updates"].st # "asked" /\ d # <<>>
    BY <1>1, <1>2 DEF Busy, Open, Drops, SInv, Shapely
  <2>2. ~Busy(flow, "checkpoint") /\ flow'["checkpoint"] = flow["checkpoint"]
    BY <1>3, <2>1 DEF SInv, Phased, Wires
  <2>3. ~Busy(flow', "checkpoint") /\ flow'["updates"].st # "asked"
    BY <1>3, <2>1, <2>2 DEF Busy, Open
  <2>4. Present(copy) = {} => k = 0
    BY DEF SInv, Phased
  <2>5. joined = TRUE
    BY <1>5, TypeFacts DEF IInv, TypeOK
  <2> QED
    BY <1>5, <2>3, <2>4, <2>5 DEF Phased
<1>7. Covered(flow', copy, posts, k, lost)
  BY <1>3 DEF SInv, Covered, Wires
<1>8. Snapshots(flow', log, posts, total, snap, L)
  <2>1. Snapshots(flow, log, posts, total, snap, L)
    BY DEF SInv
  <2>2. PICK w \in Wires : w = "updates"
    BY <1>2
  <2>3. Drops(flow, flow', w)
    BY <1>1, <2>2
  <2> HIDE DEF L
  <2> QED
    BY <1>2, <2>1, <2>3, SnapshotsDrop
<1>9. Whole(e, rolling', k) /\ \A t : InStream(e, rolling', t) <=> InStream(d, rolling, t)
  <2>1. PICK r, r1 : r = rolling /\ r1 = rolling'
    OBVIOUS
  <2>2. Whole(d, r, k) /\ Len(r) = 0 /\ r1 = d[1].us
    BY <1>1, <1>3, <2>1 DEF SInv
  <2> HIDE DEF d, e, k
  <2>3. Len(d) \in Nat \ {0} /\ Len(e) = Len(d) - 1 /\ \A n \in 1 .. Len(e) : e[n] = d[n + 1]
    BY <1>3
  <2>4. Follows(e, r1, d, r, k)
    BY <2>2, <2>3, TakenWhole
  <2> QED
    BY <2>1, <2>4 DEF Follows
<1>10. Coming(e, rolling', k, log) = Coming(d, rolling, k, log)
  BY <1>9 DEF Coming
<1> QED
  BY <1>1, <1>4, <1>5, <1>6, <1>7, <1>8, <1>9, <1>10 DEF SInv

(* The subscriber has nothing.                                                *)
LEMMA NothingSounds ==
    ASSUME NEW f, \A w \in Wires : f[w] = Closed, NEW r, r = <<>>, NEW c, c = Empty,
           NEW lg, NEW ps, NEW n \in Nat, NEW s, NEW l, NEW L, NEW j, NEW C
    PROVE  /\ Counted(0, n, ps, c, 0, l) /\ Shapely(f) /\ Phased(f, r, c, 0, j) /\ Covered(f, c, ps, 0, l)
           /\ Snapshots(f, lg, ps, n, s, L) /\ Whole(f["updates"].down, r, 0) /\ CopyTold(c, ps, lg, l, C)
<1>1. \A w \in Wires : f[w].st = "none" /\ f[w].retry = Never /\ f[w].down = <<>> /\ Len(f[w].down) = 0
  BY DEF Closed
<1>2. Present(c) = {} /\ \A i \in Time : c[i] = Absent /\ c[i].st = "absent"
  BY DEF Empty, Present, Absent
<1>3. \A i \in Present(ps) : ~(i <= 0)
  BY DEF Present, Time
<1>4. "updates" \in Wires /\ "checkpoint" \in Wires /\ "backlog" \in Wires
  BY DEF Wires
<1>5. Late(c, ps, 0) = {}
  BY <1>3 DEF Late
<1>6. Counted(0, n, ps, c, 0, l)
  BY <1>3, <1>5 DEF Counted
<1>7. Shapely(f)
  BY <1>1, <1>4 DEF Shapely, Open
<1>8. Phased(f, r, c, 0, j)
  BY <1>1, <1>2, <1>4 DEF Phased, Busy, Open
<1>9. Covered(f, c, ps, 0, l)
  BY <1>5 DEF Covered
<1>10. Snapshots(f, lg, ps, n, s, L)
  BY <1>1 DEF Snapshots
<1>11. Whole(f["updates"].down, r, 0)
  <2>1. Len(r) = 0 /\ Len(f["updates"].down) = 0
    BY <1>1, <1>4
  <2>2. \A t : ~InStream(f["updates"].down, r, t)
    BY <2>1 DEF InStream, Ahead
  <2> QED
    BY <2>1, <2>2 DEF Whole, Rising
<1>12. CopyTold(c, ps, lg, l, C)
  BY <1>2 DEF CopyTold
<1> QED
  BY <1>6, <1>7, <1>8, <1>9, <1>10, <1>11, <1>12

LEMMA LeaveSounds ==
    ASSUME IInv, SInv, Leave
    PROVE  SInv'
<1>1. /\ UNCHANGED <<log, posts, total, rolling>> /\ rolling = <<>> /\ copy' = Empty /\ count' = 0
      /\ \A w \in Wires : flow'[w] = Closed
      /\ Reach' = 0
  BY DEF Leave, Idle, host, Reach, Larger
<1>2. total \in Nat /\ HostOK(log, posts, total)
  BY DEF IInv, TypeOK, SInv
<1>3. PICK n \in Nat : n = total
  BY <1>2
<1>4. PICK L : L = Late(copy', posts, 0)
  OBVIOUS
<1>5. PICK C : C = Coming(flow'["updates"].down, rolling, 0, log)
  OBVIOUS
<1>6. PICK c : c = copy'
  OBVIOUS
<1>7. /\ Counted(0, n, posts, c, 0, lost') /\ Shapely(flow') /\ Phased(flow', rolling, c, 0, joined')
      /\ Covered(flow', c, posts, 0, lost')
      /\ Snapshots(flow', log, posts, n, snap', L) /\ Whole(flow'["updates"].down, rolling, 0)
      /\ CopyTold(c, posts, log, lost', C)
  BY <1>1, <1>6, NothingSounds
<1> QED
  BY <1>1, <1>2, <1>3, <1>4, <1>5, <1>6, <1>7 DEF SInv

LEMMA InitSounds == Init => SInv
<1> SUFFICES ASSUME Init PROVE SInv
  OBVIOUS
<1>1. /\ log = <<>> /\ posts = Empty /\ total = 0 /\ rolling = <<>> /\ copy = Empty /\ count = 0 /\ Reach = 0
      /\ \A w \in Wires : flow[w] = Closed
  BY DEF Init, Reach, Larger
<1>2. HostOK(log, posts, total)
  <2>1. Len(log) = 0 /\ Present(posts) = {} /\ \A i \in Time : posts[i] = Absent
    BY <1>1 DEF Empty, Present, Absent
  <2> QED
    BY <2>1 DEF HostOK
<1>3. PICK n \in Nat : n = total
  BY <1>1
<1>4. PICK L : L = Late(copy, posts, 0)
  OBVIOUS
<1>5. PICK C : C = Coming(flow["updates"].down, rolling, 0, log)
  OBVIOUS
<1>7. /\ Counted(0, n, posts, copy, 0, lost) /\ Shapely(flow) /\ Phased(flow, rolling, copy, 0, joined)
      /\ Covered(flow, copy, posts, 0, lost)
      /\ Snapshots(flow, log, posts, n, snap, L) /\ Whole(flow["updates"].down, rolling, 0)
      /\ CopyTold(copy, posts, log, lost, C)
  BY <1>1, NothingSounds
<1> QED
  BY <1>1, <1>2, <1>3, <1>4, <1>5, <1>7 DEF SInv

-----------------------------------------------------------------------------
(* An update is applied. *)
LEMMA ApplyAlike ==
    ASSUME NEW a \in Versions, NEW p \in Versions, NEW u \in Updates,
           a.st # "absent", u.v.st # "absent", p.st # "absent", u.kind # "set" => u.v.st = "live",
           Upto(a, p), Upto(u.v, p), Alike(a, p), Alike(u.v, p), Alike(p, p)
    PROVE  Alike(ApplyUpdate(a, u), p)
<1>0. u.v \in Versions /\ u.kind \in {"set", "reacts", "reply"} /\ a.st \in {"live", "dead"}
  BY DEF Updates, Versions
<1>1. CASE u.kind = "set"
  BY <1>0, <1>1, MergeAlike DEF ApplyUpdate
<1>2. CASE u.kind # "set" /\ a.st = "dead"
  BY <1>2 DEF ApplyUpdate
<1>3. CASE u.kind = "reacts" /\ a.st = "live"
  <2>1. /\ ApplyUpdate(a, u).st = "live" /\ ApplyUpdate(a, u).seq = a.seq /\ ApplyUpdate(a, u).msg = a.msg
        /\ ApplyUpdate(a, u).reply = a.reply
    BY <1>3, ReactsApplied
  <2> QED
    BY <2>1 DEF Alike
<1>4. CASE u.kind = "reply" /\ a.st = "live"
  <2>1. /\ ApplyUpdate(a, u).st = "live" /\ ApplyUpdate(a, u).seq = a.seq /\ ApplyUpdate(a, u).msg = a.msg
        /\ ApplyUpdate(a, u).reply = MergeReply(a.reply, u.v.reply)
    BY <1>4, ReplyApplied
  <2>2. p.st = "live" => ReplyUpto(MergeReply(a.reply, u.v.reply), p.reply)
    <3>1. a.reply \in Int /\ u.v.reply \in Int /\ p.reply \in Int
      BY <1>0 DEF Versions
    <3> QED
      BY <1>4, <3>1, ReplyMerged DEF Alike
  <2> QED
    BY <2>1, <2>2 DEF Alike
<1> QED
  BY <1>0, <1>1, <1>2, <1>3, <1>4

LEMMA ToldLess ==
    ASSUME NEW v, NEW p, NEW i, NEW lg, NEW C, NEW D, NEW s, C \ {s} \subseteq D, lg[s].id # i, Told(v, p, i, lg, C)
    PROVE  Told(v, p, i, lg, D)
<1>1. \A t \in C : \A kinds : Says(t, i, kinds, lg) => t \in D
  BY DEF Says
<1> QED
  BY <1>1 DEF Told

LEMMA NewestAbove ==
    ASSUME NEW c \in Posts, NEW e \in Posts, Present(c) \subseteq Present(e), NEW i \in Time, i < Newest(c)
    PROVE  i < Newest(e)
<1>1. Present(c) # {}
  BY DEF Newest, Time
<1>2. Newest(c) \in Present(e)
  BY <1>1, OldestIs
<1>3. Newest(c) <= Newest(e) /\ Newest(e) \in Present(e)
  BY <1>2, OldestIs
<1>4. Newest(c) \in Int /\ Newest(e) \in Int
  BY <1>2, <1>3 DEF Present, Time
<1> QED
  BY <1>3, <1>4 DEF Time

Onward(d, r, r1, k, s, k1) ==
    /\ Whole(d, r1, k1) /\ \A t : InStream(d, r, t) <=> t = s \/ InStream(d, r1, t)
    /\ \A t \in s + 1 .. k : InStream(d, r1, t)

LEMMA RolledWhole ==
    ASSUME NEW d, Len(d) \in Nat, NEW r, NEW r1, Len(r) \in Nat \ {0}, Len(r1) = Len(r) - 1, \A j \in 1 .. Len(r1) : r1[j] = r[j + 1],
           NEW k \in Nat, NEW s \in Time, s = r[1].time, s <= k + 1, NEW k1, k1 = Larger(k, s),
           \A t : InStream(d, r, t) => t \in Time, Whole(d, r, k)
    PROVE  Onward(d, r, r1, k, s, k1)
<1>1. 1 \in 1 .. Len(r) /\ \A j \in 1 .. Len(r1) : j + 1 \in 1 .. Len(r) /\ 1 \in 1 .. j + 1 - 1
  OBVIOUS
<1>2. ASSUME NEW t PROVE (\E j \in 1 .. Len(r) : r[j].time = t) <=> t = s \/ \E j \in 1 .. Len(r1) : r1[j].time = t
  <2>1. ASSUME NEW j \in 1 .. Len(r), r[j].time = t PROVE t = s \/ \E i \in 1 .. Len(r1) : r1[i].time = t
    <3>1. CASE j = 1
      BY <2>1, <3>1
    <3>2. CASE j # 1
      <4>1. j - 1 \in 1 .. Len(r1) /\ (j - 1) + 1 = j
        BY <3>2
      <4>2. r1[j - 1] = r[j]
        BY <4>1
      <4> QED
        BY <2>1, <4>1, <4>2
    <3> QED
      BY <3>1, <3>2
  <2>2. ASSUME NEW j \in 1 .. Len(r1), r1[j].time = t PROVE \E i \in 1 .. Len(r) : r[i].time = t
    BY <1>1, <2>2
  <2> QED
    BY <1>1, <2>1, <2>2
<1>3. \A n, t : Ahead(d, r, n, t) <=> t = s \/ Ahead(d, r1, n, t)
  BY <1>2 DEF Ahead
<1>4. \A t : InStream(d, r, t) <=> t = s \/ InStream(d, r1, t)
  BY <1>3 DEF InStream
<1>5. Rising(r1)
  <2>1. ASSUME NEW j \in 1 .. Len(r1), NEW i \in 1 .. j - 1 PROVE r1[i].time < r1[j].time
    <3>1. j + 1 \in 1 .. Len(r) /\ i + 1 \in 1 .. (j + 1) - 1 /\ i \in 1 .. Len(r1)
      OBVIOUS
    <3>2. r[i + 1].time < r[j + 1].time
      BY <3>1 DEF Whole, Rising
    <3> QED
      BY <3>1, <3>2
  <2> QED
    BY <2>1 DEF Rising
<1>6. ASSUME NEW t \in Time, InStream(d, r1, t) PROVE s < t
  <2>1. CASE \E j \in 1 .. Len(r1) : r1[j].time = t
    <3>1. PICK j \in 1 .. Len(r1) : r1[j].time = t
      BY <2>1
    <3>2. j + 1 \in 1 .. Len(r) /\ 1 \in 1 .. (j + 1) - 1 /\ r1[j] = r[j + 1]
      BY <3>1
    <3>3. r[1].time < r[j + 1].time
      BY <3>2 DEF Whole, Rising
    <3> QED
      BY <3>1, <3>2, <3>3
  <2>2. ASSUME NEW m \in 1 .. Len(d) + 1 - 1, NEW j \in 1 .. Len(d[m].us), d[m].us[j].time = t PROVE s < t
    <3>1. m \in 1 .. Len(d)
      OBVIOUS
    <3> QED
      BY <1>3, <2>2, <3>1 DEF Whole
  <2> QED
    BY <1>6, <2>1, <2>2 DEF InStream, Ahead
<1>7. ASSUME NEW t \in s + 1 .. k PROVE InStream(d, r1, t)
  <2>1. InStream(d, r, s)
    BY <1>4
  <2>2. InStream(d, r, t) /\ t # s
    BY <2>1 DEF Whole, Time
  <2> QED
    BY <1>4, <2>2
<1>8. Whole(d, r1, k1)
  <2>1. ASSUME NEW n \in 1 .. Len(d)
        PROVE  /\ Rising(d[n].us)
               /\ \A x \in 1 .. Len(d[n].us) : \A t \in Time : Ahead(d, r1, n, t) => t < d[n].us[x].time
    BY <1>3 DEF Whole
  <2>2. ASSUME NEW t \in Time, InStream(d, r1, t), NEW t1 \in t + 1 .. k1 PROVE InStream(d, r1, t1)
    <3>1. s < t /\ s \in Int /\ t \in Int /\ t1 \in Int /\ t < t1 /\ t1 <= k1
      BY <1>6, <2>2 DEF Time
    <3>2. t1 <= k
      BY <3>1 DEF Larger
    <3>3. t1 \in s + 1 .. k
      BY <3>1, <3>2
    <3> QED
      BY <1>7, <3>3
  <2> QED
    BY <1>5, <2>1, <2>2 DEF Whole
<1> QED
  BY <1>4, <1>7, <1>8 DEF Onward

-----------------------------------------------------------------------------
(* What is known of an update that is applied, and what it makes of the copy.   *)
Rolled(u, s, k1) ==
    /\ s = u.time /\ s \in 1 .. Len(log) /\ u = log[s] /\ u \in Updates /\ s <= Reach + 1
    /\ u.id \in Time /\ u.v \in Versions /\ u.id <= s /\ Upto(u.v, posts[u.id]) /\ u.v.st # "absent"
    /\ (u.kind # "set" => u.v.st = "live") /\ (u.id = s => u.kind = "set")
    /\ Alike(u.v, posts[u.id]) /\ Told(u.v, posts[u.id], u.id, log, After(s, log))
    /\ posts[u.id].st # "absent" /\ Alike(posts[u.id], posts[u.id])
    /\ k1 = Larger(Reach, s) /\ k1 = Reach' /\ k1 \in Nat /\ (k1 = Reach \/ (k1 = Reach + 1 /\ s = k1))
    /\ copy' \in Posts /\ copy'[u.id] = ApplyUpdate(copy[u.id], u)
    /\ \A i \in Time \ {u.id} : copy'[i] = copy[i]
    /\ count' = IF u.kind = "set" /\ copy[u.id].st = "absent" THEN Larger(count, u.v.seq) ELSE count
    /\ lost' = IF count' # count THEN lost \ {0} ELSE lost
    /\ Len(rolling) \in Nat \ {0} /\ rolling[1] = u /\ Len(rolling') = Len(rolling) - 1
    /\ \A j \in 1 .. Len(rolling') : rolling'[j] = rolling[j + 1]

LEMMA RollFacts == ASSUME IInv, SInv, Roll PROVE \E u, s, k1 : Rolled(u, s, k1)
<1>1. PICK u : u = Head(rolling)
  OBVIOUS
<1>2. /\ rolling # <<>> /\ rolling' = Tail(rolling)
      /\ copy' = [copy EXCEPT ![u.id] = ApplyUpdate(@, u)]
      /\ count' = IF u.kind = "set" /\ copy[u.id].st = "absent" THEN Larger(count, u.v.seq) ELSE count
      /\ heard' = Larger(heard, u.time)
      /\ lost' = IF count' # count THEN lost \ {0} ELSE lost
      /\ snap' = snap
  BY <1>1 DEF Roll
<1>3. /\ flow \in Flows /\ Reach \in Nat /\ snap \in Nat /\ heard \in Nat /\ Len(log) \in Nat /\ log \in Seq(Updates)
      /\ rolling \in Seq(Updates) /\ copy \in Posts /\ posts \in Posts
      /\ Ordered(flow, rolling, Reach, snap, Len(log))
  BY TypeFacts DEF IInv
<1>4. /\ u = rolling[1] /\ Len(rolling) \in Nat \ {0}
      /\ Len(rolling') = Len(rolling) - 1
      /\ \A j \in 1 .. Len(rolling') : rolling'[j] = rolling[j + 1]
  BY <1>1, <1>2, <1>3, HeadTailProperties, EmptySeq
<1>5. PICK s : s = u.time
  OBVIOUS
<1>6. s \in 1 .. Len(log) /\ u = log[s] /\ u \in Updates /\ EntryOK(u, s, posts)
  <2>1. UpOK(u, log)
    BY <1>4 DEF IInv, Grounded
  <2>2. s \in 1 .. Len(log) /\ u = log[s]
    BY <1>5, <2>1 DEF UpOK
  <2> QED
    BY <1>3, <2>2, ElementOfSeq DEF IInv, LogOK
<1>7. /\ u.id \in Time /\ u.v \in Versions /\ u.id <= s /\ Upto(u.v, posts[u.id]) /\ u.v.st # "absent"
      /\ (u.kind # "set" => u.v.st = "live") /\ (u.id = s => u.kind = "set")
  BY <1>6 DEF Updates, EntryOK
<1>8. /\ Alike(u.v, posts[u.id]) /\ Told(u.v, posts[u.id], u.id, log, After(s, log))
      /\ posts[u.id].st # "absent" /\ Alike(posts[u.id], posts[u.id])
  <2>1. posts[u.id].st # "absent"
    BY <1>7 DEF Upto
  <2> QED
    BY <1>6, <1>7, <2>1 DEF SInv, HostOK, Present
<1>9. s <= Reach + 1
  <2>1. Head(rolling).time <= Reach + 1
    BY <1>2, <1>3, RollOrder
  <2> QED
    BY <1>1, <1>5, <2>1
<1>10. PICK k1 : k1 = Larger(Reach, s)
  OBVIOUS
<1>11. k1 = Reach' /\ k1 \in Nat /\ (k1 = Reach \/ (k1 = Reach + 1 /\ s = k1))
  <2>1. s \in Nat
    BY <1>3, <1>6
  <2>2. k1 \in Nat /\ (k1 = Reach \/ (k1 = Reach + 1 /\ s = k1))
    <3> PICK r \in Nat : r = Reach
      BY <1>3
    <3>1. s <= r + 1 /\ k1 = Larger(r, s)
      BY <1>9, <1>10
    <3>2. k1 \in Nat /\ (k1 = r \/ (k1 = r + 1 /\ s = k1))
      BY <2>1, <3>1 DEF Larger
    <3> QED
      BY <3>2
  <2>3. Reach' = Larger(Larger(heard, s), snap) /\ Reach = Larger(heard, snap)
    BY <1>2, <1>5 DEF Reach
  <2>4. k1 = Reach'
    <3>1. \A x, y, z \in Nat : Larger(Larger(x, z), y) = Larger(Larger(x, y), z)
      BY DEF Larger
    <3> QED
      BY <1>3, <1>10, <2>1, <2>3, <3>1
  <2> QED
    BY <2>2, <2>4
<1>12. copy' \in Posts /\ copy'[u.id] = ApplyUpdate(copy[u.id], u) /\ \A i \in Time \ {u.id} : copy'[i] = copy[i]
  <2>1. copy' \in Posts
    BY RollKeeps, TypeFacts DEF IInv, TypeOK, Posts
  <2> QED
    BY <1>2, <1>3, <1>7, <2>1 DEF Posts
<1> QED
  BY <1>2, <1>4, <1>5, <1>6, <1>7, <1>8, <1>9, <1>10, <1>11, <1>12 DEF Rolled

LEMMA RollPresent ==
    ASSUME IInv, SInv, NEW u, NEW s, NEW k1, Rolled(u, s, k1)
    PROVE  /\ Present(copy) \subseteq Present(copy')
           /\ copy[u.id].st = "absent" => copy'[u.id] = IF u.kind = "set" THEN u.v ELSE Absent
           /\ Late(copy', posts, k1) \subseteq Late(copy, posts, Reach)
           /\ \A i \in Present(posts) : i <= k1 /\ ~(i <= Reach) => i = u.id /\ u.kind = "set" /\ copy[i].st = "absent"
<1>1. /\ copy \in Posts /\ copy[u.id] \in Versions /\ u \in Updates /\ u.id \in Time
      /\ (u.kind # "set" => u.v.st = "live") /\ Reach \in Nat
  BY TypeFacts DEF IInv, Posts, Rolled
<1>2. Present(copy) \subseteq Present(copy')
  <2>1. Upto(copy[u.id], ApplyUpdate(copy[u.id], u))
    BY <1>1, ApplyFacts
  <2>2. copy[u.id].st # "absent" => copy'[u.id].st # "absent"
    BY <2>1 DEF Upto, Rolled
  <2> QED
    BY <2>2 DEF Rolled, Present
<1>3. copy[u.id].st = "absent" => copy'[u.id] = IF u.kind = "set" THEN u.v ELSE Absent
  <2> SUFFICES ASSUME copy[u.id].st = "absent" PROVE copy'[u.id] = IF u.kind = "set" THEN u.v ELSE Absent
    OBVIOUS
  <2>1. copy[u.id] = Absent
    BY <1>1 DEF SInv, CopyTold
  <2>2. copy'[u.id] = ApplyUpdate(Absent, u) /\ u.v.st # "absent"
    BY <2>1 DEF Rolled
  <2>3. Absent.st = "absent"
    BY DEF Absent
  <2>4. ApplyUpdate(Absent, u) = IF u.kind = "set" THEN MergePost(Absent, u.v) ELSE Absent
    BY <2>3 DEF ApplyUpdate
  <2>5. MergePost(Absent, u.v) = u.v
    <3>1. Absent.st # "dead"
      BY <2>3
    <3> QED
      BY <2>2, <2>3, <3>1 DEF MergePost
  <2> QED
    BY <2>2, <2>4, <2>5
<1>4. ASSUME NEW i \in Present(posts), i <= k1, ~(i <= Reach)
      PROVE  i = u.id /\ u.kind = "set" /\ copy[i].st = "absent"
  <2>1. i \in Time /\ i \in Int /\ i = Reach + 1 /\ i = s
    BY <1>1, <1>4 DEF Present, Time, Rolled
  <2>2. log[i].id = i
    BY DEF SInv, HostOK
  <2>3. copy[i].st = "absent"
    BY <1>4, <2>1 DEF IInv, CopyOK, Within
  <2> QED
    BY <2>1, <2>2, <2>3 DEF Rolled
<1>5. ASSUME NEW i \in Late(copy', posts, k1) PROVE i \in Late(copy, posts, Reach)
  <2>1. i \in Present(posts) /\ i <= k1 /\ copy'[i].st = "absent" /\ i \in Time
    BY <1>5 DEF Late, Present
  <2>2. copy[i].st = "absent"
    BY <1>2, <2>1 DEF Present
  <2>3. i <= Reach
    <3> SUFFICES ASSUME ~(i <= Reach) PROVE FALSE
      OBVIOUS
    <3>1. i = u.id /\ u.kind = "set" /\ copy[u.id].st = "absent"
      BY <1>4, <2>1
    <3> QED
      BY <1>3, <2>1, <3>1 DEF Rolled
  <2> QED
    BY <2>1, <2>2, <2>3 DEF Late
<1> QED
  BY <1>2, <1>3, <1>4, <1>5

LEMMA RollCounts ==
    ASSUME IInv, SInv, NEW u, NEW s, NEW k1, Rolled(u, s, k1)
    PROVE  Counted(count', total, posts, copy', k1, lost')
<1>1. /\ Late(copy', posts, k1) \subseteq Late(copy, posts, Reach)
      /\ \A i \in Present(posts) : i <= k1 /\ ~(i <= Reach) => i = u.id /\ u.kind = "set" /\ copy[i].st = "absent"
  BY RollPresent
<1>2. /\ Counted(count, total, posts, copy, Reach, lost) /\ count \in Nat /\ total \in Nat /\ Reach \in Nat
      /\ \A i \in Present(posts) : posts[i].seq \in Nat /\ posts[i].seq <= total /\ i \in Int
      /\ u.id \in Present(posts) /\ u.v.seq = posts[u.id].seq
  <2>1. /\ Counted(count, total, posts, copy, Reach, lost) /\ count \in Nat /\ total \in Nat /\ Reach \in Nat
        /\ posts \in Posts /\ HostOK(log, posts, total)
    BY TypeFacts DEF SInv, IInv, TypeOK
  <2>2. \A i \in Present(posts) : posts[i].seq \in Nat /\ posts[i].seq <= total /\ i \in Int
    BY <2>1 DEF HostOK, Present, Posts, Versions, Time
  <2>3. u.id \in Present(posts) /\ u.v.seq = posts[u.id].seq
    BY DEF Rolled, Alike, Present
  <2> QED
    BY <2>1, <2>2, <2>3
<1>3. count <= count' /\ count' \in Nat /\ count' <= total
      /\ (u.kind = "set" /\ copy[u.id].st = "absent" => posts[u.id].seq <= count')
  <2> PICK n \in Nat : n = posts[u.id].seq
    BY <1>2
  <2>1. n <= total /\ count <= total /\ u.v.seq = n
    BY <1>2 DEF Counted
  <2>2. count' = IF u.kind = "set" /\ copy[u.id].st = "absent" THEN Larger(count, n) ELSE count
    BY <2>1 DEF Rolled
  <2>3. Larger(count, n) \in Nat /\ count <= Larger(count, n) /\ n <= Larger(count, n) /\ Larger(count, n) <= total
    BY <1>2, <2>1 DEF Larger
  <2> QED
    BY <1>2, <2>1, <2>2, <2>3
<1>4. \A i \in Late(copy', posts, k1) : posts[i].seq <= count'
  <2>1. ASSUME NEW i \in Late(copy', posts, k1) PROVE posts[i].seq <= count'
    <3>1. i \in Present(posts) /\ posts[i].seq <= count
      BY <1>1, <1>2, <2>1 DEF Counted, Late
    <3> QED
      BY <1>2, <1>3, <3>1
  <2> QED
    BY <2>1
<1>5. CASE count' = count
  <2>1. 0 \in lost' \/ \A i \in Present(posts) : i <= k1 => posts[i].seq <= count'
    BY <1>1, <1>2, <1>3, <1>5 DEF Counted, Rolled
  <2> QED
    BY <1>3, <1>4, <2>1 DEF Counted
<1>6. CASE count' # count
  <2>1. u.kind = "set" /\ copy[u.id].st = "absent" /\ count' = posts[u.id].seq /\ count < count'
    BY <1>2, <1>6 DEF Rolled, Larger
  <2>2. ~(u.id <= Reach)
    <3> SUFFICES ASSUME u.id <= Reach PROVE FALSE
      OBVIOUS
    <3>1. u.id \in Late(copy, posts, Reach)
      <4>1. u.id \in Present(posts) /\ u.id <= Reach /\ copy[u.id].st = "absent"
        BY <1>2, <2>1
      <4> QED
        BY <4>1 DEF Late
    <3> QED
      BY <1>2, <2>1, <3>1 DEF Counted
  <2>3. u.id = k1
    <3>0. u.id \in Time /\ Time \subseteq Nat
      <4>1. u.id \in Time
        BY DEF Rolled
      <4>2. Time \subseteq Nat
        BY DEF Time
      <4> QED
        BY <4>1, <4>2
    <3> PICK i \in Nat : i = u.id
      BY <3>0
    <3>1. s \in Int /\ s <= Reach + 1 /\ k1 = Larger(Reach, s) /\ i <= s /\ ~(i <= Reach)
      BY <2>2 DEF Rolled
    <3>2. i = Reach + 1 /\ s = Reach + 1
      BY <1>2, <3>1
    <3> QED
      BY <1>2, <3>1, <3>2 DEF Larger
  <2>4. ASSUME NEW i \in Present(posts), i <= k1 PROVE posts[i].seq <= count'
    <3>1. CASE i = u.id
      BY <1>2, <2>1, <3>1
    <3>2. CASE i # u.id
      <4>1. i < u.id /\ i \in Present(posts) /\ u.id \in Present(posts)
        BY <1>2, <2>3, <2>4, <3>2
      <4>2. posts[i].seq < posts[u.id].seq
        BY <4>1 DEF SInv, HostOK
      <4> QED
        BY <1>2, <2>1, <4>2
    <3> QED
      BY <3>1, <3>2
  <2> QED
    BY <1>3, <1>4, <2>4 DEF Counted
<1> QED
  BY <1>5, <1>6

-----------------------------------------------------------------------------
LEMMA RollStream ==
    ASSUME IInv, SInv, NEW u, NEW s, NEW k1, Rolled(u, s, k1)
    PROVE  /\ Whole(flow["updates"].down, rolling', k1)
           /\ Coming(flow["updates"].down, rolling, Reach, log) \ {s}
                  \subseteq Coming(flow["updates"].down, rolling', k1, log)
           /\ After(s, log) \subseteq Coming(flow["updates"].down, rolling', k1, log)
<1>1. PICK d \in Seq(Signs) : d = flow["updates"].down
  BY TypeFacts, FlowSeq DEF IInv, Wires
<1>2. PICK r, r1 : r = rolling /\ r1 = rolling'
  OBVIOUS
<1>3. PICK k \in Nat : k = Reach
  BY TypeFacts DEF IInv
<1>4. Len(log) \in Nat /\ Len(log) <= MaxLog /\ MaxLog \in Nat
  BY TypeFacts DEF IInv
<1>5. PICK x \in Time : x = s
  <2>1. s \in 1 .. Len(log)
    BY DEF Rolled
  <2>2. 1 .. Len(log) \subseteq 1 .. MaxLog
    BY <1>4
  <2> QED
    BY <2>1, <2>2 DEF Time
<1>6. /\ Len(d) \in Nat /\ Len(r) \in Nat \ {0} /\ Len(r1) = Len(r) - 1 /\ (\A j \in 1 .. Len(r1) : r1[j] = r[j + 1])
      /\ x = r[1].time /\ x <= k + 1 /\ k1 = Larger(k, x) /\ Whole(d, r, k)
  BY <1>1, <1>2, <1>3, <1>5, LenProperties DEF Rolled, SInv
<1>7. \A t : InStream(d, r, t) => t \in Time
  BY <1>1, <1>2, <1>4, StreamIn DEF Time
<1>8. /\ Whole(d, r1, k1) /\ \A t : InStream(d, r, t) <=> t = x \/ InStream(d, r1, t)
      /\ \A t \in x + 1 .. k : InStream(d, r1, t)
  <2>1. Onward(d, r, r1, k, x, k1)
    BY <1>6, <1>7, RolledWhole
  <2> QED
    BY <2>1 DEF Onward
<1>9. k1 \in Nat /\ (k1 = k \/ (k1 = k + 1 /\ x = k1)) /\ x \in Nat
  <2>1. k1 \in Nat /\ (k1 = Reach \/ (k1 = Reach + 1 /\ s = k1))
    BY DEF Rolled
  <2> QED
    BY <1>3, <1>5, <2>1 DEF Time
<1>10. ASSUME NEW t \in Coming(d, r, k, log), t # x PROVE t \in Coming(d, r1, k1, log)
  BY <1>4, <1>8, <1>9, <1>10 DEF Coming
<1>11. ASSUME NEW t \in After(x, log) PROVE t \in Coming(d, r1, k1, log)
  <2>1. t \in 1 .. Len(log) /\ x < t
    BY <1>4, <1>9, <1>11 DEF After
  <2>2. CASE t <= k
    <3>1. t \in x + 1 .. k
      BY <1>9, <2>1, <2>2
    <3> QED
      BY <1>8, <2>1, <3>1 DEF Coming
  <2>3. CASE ~(t <= k)
    <3>1. t > k1
      BY <1>9, <2>1, <2>3
    <3> QED
      BY <2>1, <3>1 DEF Coming
  <2> QED
    BY <2>2, <2>3
<1>12. Coming(d, r, k, log) \ {x} \subseteq Coming(d, r1, k1, log) /\ After(x, log) \subseteq Coming(d, r1, k1, log)
  BY <1>10, <1>11
<1>13. Whole(d, r1, k1)
  BY <1>8
<1> QED
  BY <1>1, <1>2, <1>3, <1>5, <1>12, <1>13

LEMMA RollTold ==
    ASSUME IInv, SInv, NEW u, NEW s, NEW k1, Rolled(u, s, k1),
           NEW D, Coming(flow["updates"].down, rolling, Reach, log) \ {s} \subseteq D, After(s, log) \subseteq D
    PROVE  CopyTold(copy', posts, log, lost', D)
<1> DEFINE C == Coming(flow["updates"].down, rolling, Reach, log)
<1>1. copy \in Posts /\ posts \in Posts /\ CopyTold(copy, posts, log, lost, C) /\ CopyOK(copy, posts, Reach)
  BY TypeFacts DEF IInv, SInv
<1>2. C \ {s} \subseteq D
  OBVIOUS
<1> HIDE DEF C
<1>3. ASSUME NEW i \in Time, i \in lost PROVE i \in lost'
  BY <1>3 DEF Rolled, Time
<1>4. ASSUME NEW i \in Time, i # u.id, copy'[i].st # "absent"
      PROVE  Alike(copy'[i], posts[i]) /\ (i \in lost' \/ Told(copy'[i], posts[i], i, log, D))
  <2>1. copy'[i] = copy[i] /\ log[s].id # i
    BY <1>4 DEF Rolled
  <2>2. Alike(copy[i], posts[i]) /\ (i \in lost \/ Told(copy[i], posts[i], i, log, C))
    BY <1>1, <1>4, <2>1 DEF CopyTold
  <2>3. Told(copy[i], posts[i], i, log, C) => Told(copy[i], posts[i], i, log, D)
    BY <1>2, <2>1, ToldLess
  <2> QED
    BY <1>3, <2>1, <2>2, <2>3
<1>5. ASSUME NEW i \in Time, i # u.id, copy'[i].st = "absent" PROVE copy'[i] = Absent
  BY <1>1, <1>5 DEF Rolled, CopyTold
<1>6. CASE copy[u.id].st = "absent"
  <2>1. copy'[u.id] = IF u.kind = "set" THEN u.v ELSE Absent
    BY <1>6, RollPresent
  <2>2. Told(u.v, posts[u.id], u.id, log, D)
    <3>1. Told(u.v, posts[u.id], u.id, log, After(s, log))
      BY DEF Rolled
    <3> QED
      BY <3>1, ToldMore DEF Agree
  <2>3. Alike(u.v, posts[u.id]) /\ u.v.st # "absent" /\ Absent.st = "absent"
    BY DEF Rolled, Absent
  <2> QED
    BY <1>4, <1>5, <2>1, <2>2, <2>3 DEF CopyTold
<1>7. CASE copy[u.id].st # "absent"
  <2>1. PICK a \in Versions : a = copy[u.id]
    BY <1>1 DEF Posts, Rolled
  <2>2. PICK p \in Versions : p = posts[u.id]
    BY <1>1 DEF Posts, Rolled
  <2>3. PICK E : E = After(s, log)
    OBVIOUS
  <2>4. /\ u \in Updates /\ u = log[s] /\ a.st # "absent" /\ u.v.st # "absent" /\ p.st # "absent"
        /\ (u.kind # "set" => u.v.st = "live") /\ Upto(u.v, p) /\ Alike(u.v, p) /\ Alike(p, p)
        /\ Told(u.v, p, u.id, log, E) /\ E \subseteq D /\ u.id \in Time
    BY <1>7, <2>1, <2>2, <2>3 DEF Rolled
  <2>5. Upto(a, p) /\ Alike(a, p) /\ (u.id \in lost \/ Told(a, p, u.id, log, C))
    BY <1>1, <1>7, <2>1, <2>2, <2>4 DEF CopyTold, CopyOK
  <2>6. Alike(ApplyUpdate(a, u), p)
    BY <2>4, <2>5, ApplyAlike
  <2>7. Told(a, p, u.id, log, C) => Told(ApplyUpdate(a, u), p, u.id, log, D)
    BY <1>2, <2>4, <2>5, ApplyTells
  <2>8. copy'[u.id] = ApplyUpdate(a, u)
    BY <2>1 DEF Rolled
  <2>9. copy'[u.id].st # "absent"
    BY <1>7, <2>4, RollPresent DEF Present
  <2>10. ASSUME NEW i \in Time, i = u.id
         PROVE  copy'[i].st # "absent" /\ Alike(copy'[i], posts[i]) /\ (i \in lost' \/ Told(copy'[i], posts[i], i, log, D))
    BY <1>3, <2>2, <2>5, <2>6, <2>7, <2>8, <2>9, <2>10
  <2> QED
    BY <1>4, <1>5, <2>10 DEF CopyTold
<1> QED
  BY <1>6, <1>7

LEMMA RollSounds == ASSUME IInv, SInv, Roll PROVE SInv'
<1>1. PICK u, s, k1 : Rolled(u, s, k1)
  BY RollFacts
<1>2. UNCHANGED <<log, posts, total, flow, joined, snap>> /\ rolling # <<>> /\ Reach' = k1
  BY <1>1 DEF Roll, host, Rolled
<1>3. /\ Present(copy) \subseteq Present(copy') /\ Late(copy', posts, k1) \subseteq Late(copy, posts, Reach)
      /\ copy \in Posts /\ copy' \in Posts
  <2>1. Present(copy) \subseteq Present(copy') /\ Late(copy', posts, k1) \subseteq Late(copy, posts, Reach)
    BY <1>1, RollPresent
  <2> QED
    BY <1>1, <2>1, TypeFacts DEF IInv, Rolled
<1>4. Counted(count', total, posts, copy', k1, lost')
  BY <1>1, RollCounts
<1>5. Phased(flow, rolling', copy', k1, joined)
  <2>1. Phased(flow, rolling, copy, Reach, joined)
    BY DEF SInv
  <2>2. Present(copy') = {} => k1 = 0
    <3> SUFFICES ASSUME Present(copy') = {} PROVE FALSE
      OBVIOUS
    <3>1. Present(copy) = {} /\ Reach = 0
      BY <1>3, <2>1 DEF Phased
    <3>2. s = 1 /\ u.id = 1 /\ u.kind = "set"
      <4>1. s \in 1 .. Len(log) /\ s <= 1 /\ u.id \in Time /\ u.id <= s /\ (u.id = s => u.kind = "set")
        BY <1>1, <3>1 DEF Rolled
      <4>2. s = 1
        BY <4>1, TypeFacts DEF IInv
      <4>3. u.id = 1
        BY <4>1, <4>2 DEF Time
      <4> QED
        BY <4>1, <4>2, <4>3
    <3>3. copy[u.id].st = "absent" /\ u.id \in Time
      BY <1>1, <3>1 DEF Present, Rolled
    <3>4. copy'[u.id] = u.v /\ u.v.st # "absent"
      BY <1>1, <3>2, <3>3, RollPresent DEF Rolled
    <3> QED
      BY <3>3, <3>4 DEF Present
  <2>3. ~Busy(flow, "checkpoint") /\ flow["updates"].st # "asked" /\ joined
    BY <1>2, <2>1 DEF Phased
  <2> QED
    BY <1>3, <2>1, <2>2, <2>3 DEF Phased
<1>6. Covered(flow, copy', posts, k1, lost')
  <2>1. ASSUME NEW i \in Late(copy', posts, k1) \ lost' PROVE i < Newest(copy') /\ Fetches(flow["backlog"], i)
    <3>1. i \in Late(copy, posts, Reach) /\ i \in Time
      BY <1>3, <2>1 DEF Late, Present
    <3>2. i \notin lost
      BY <1>1, <2>1, <3>1 DEF Rolled, Time
    <3>3. i < Newest(copy) /\ Fetches(flow["backlog"], i)
      BY <3>1, <3>2 DEF SInv, Covered
    <3> QED
      BY <1>3, <3>1, <3>3, NewestAbove
  <2> QED
    BY <2>1 DEF Covered
<1>7. Snapshots(flow, log, posts, total, snap, Late(copy', posts, k1))
  <2> DEFINE L == Late(copy, posts, Reach)
             L1 == Late(copy', posts, k1)
  <2>1. Snapshots(flow, log, posts, total, snap, L) /\ L1 \subseteq L
    BY <1>3 DEF SInv
  <2> HIDE DEF L, L1
  <2>2. Snapshots(flow, log, posts, total, snap, L1)
    BY <2>1 DEF Snapshots, SnapshotOK
  <2> QED
    BY <2>2 DEF L1
<1> DEFINE D == Coming(flow["updates"].down, rolling', k1, log)
<1>8. Whole(flow["updates"].down, rolling', k1) /\ CopyTold(copy', posts, log, lost', D)
  <2>1. /\ Whole(flow["updates"].down, rolling', k1)
        /\ Coming(flow["updates"].down, rolling, Reach, log) \ {s} \subseteq D /\ After(s, log) \subseteq D
    BY <1>1, RollStream
  <2> HIDE DEF D
  <2> QED
    BY <1>1, <2>1, RollTold
<1> QED
  BY <1>2, <1>4, <1>5, <1>6, <1>7, <1>8 DEF SInv

-----------------------------------------------------------------------------
(* The checkpoint comes in: there is nothing, and nothing else is on its way.  *)
EmptyDown(f) == \A w \in Wires : f[w].down = <<>>

LEMMA FirstPost ==
    ASSUME IInv, SInv, NEW k \in Nat, k <= Len(log), k # 0
    PROVE  1 \in Present(posts)
<1>1. 1 \in 1 .. Len(log) /\ 1 \in Time /\ log[1] \in Updates
  <2>1. 1 \in 1 .. Len(log) /\ Len(log) <= MaxLog /\ Len(log) \in Nat /\ MaxLog \in Nat /\ log \in Seq(Updates)
    BY TypeFacts DEF IInv
  <2> QED
    BY <2>1, ElementOfSeq DEF Time
<1>2. EntryOK(log[1], 1, posts)
  BY <1>1 DEF IInv, LogOK
<1>3. log[1].id = 1
  BY <1>1, <1>2 DEF EntryOK, Updates, Time
<1> QED
  BY <1>1, <1>2, <1>3 DEF EntryOK, Upto, Present

LEMMA CheckpointFlow ==
    ASSUME NEW f \in Flows, NEW c, NEW e \in Posts, NEW k, Busy(f, "checkpoint"), Shapely(f),
           NEW r, NEW j, Phased(f, r, c, k, j), f["checkpoint"].down # <<>>,
           NEW g, g = [SyncBacklog(StartUpdates(f, e, FALSE), e, FALSE) EXCEPT !["checkpoint"] = Closed]
    PROVE  /\ Shapely(g) /\ EmptyDown(g) /\ g["updates"].st = "asked" /\ g["updates"].retry = Never
           /\ ~Busy(g, "checkpoint")
           /\ IF Present(e) = {} THEN ~Busy(g, "backlog")
              ELSE g["backlog"].st = "asked" /\ g["backlog"].arg = Oldest(e)
<1> DEFINE f1 == StartUpdates(f, e, FALSE)
           f2 == SyncBacklog(f1, e, FALSE)
<1>0. "updates" \in Wires /\ "checkpoint" \in Wires /\ "backlog" \in Wires
  BY DEF Wires
<1>1. ~Busy(f, "updates") /\ ~Busy(f, "backlog") /\ f["updates"].down = <<>> /\ f["backlog"].down = <<>>
  <2>1. ~Busy(f, "updates") /\ ~Busy(f, "backlog")
    BY DEF Phased
  <2> QED
    BY <2>1 DEF Busy, Open
<1>2. Asks(f, f1, "updates", Newest(e), FALSE)
  BY <1>0, SafeWatchAsks DEF StartUpdates
<1>3. /\ f1["updates"].st = "asked" /\ f1["updates"].retry = Never /\ f1["backlog"] = f["backlog"]
      /\ f1["checkpoint"] = f["checkpoint"] /\ f1["updates"].down = <<>>
  BY <1>0, <1>1, <1>2 DEF Asks
<1>4. f1 \in Flows
  <2>1. DOMAIN f1 = Wires /\ f1 = [w \in Wires |-> f1[w]]
    BY DEF StartUpdates, SafeWatch, Flows
  <2>2. Newest(e) \in 0 .. MaxLog
    <3>1. MaxLog \in Nat /\ Within(e, MaxLog)
      BY ConstantsAssumption DEF Within, Time
    <3>2. MaxLog \in 0 .. MaxLog
      BY <3>1
    <3> QED
      BY <3>1, <3>2, EndsIn
  <2>3. PICK a \in 0 .. MaxLog : a = Newest(e)
    BY <2>2
  <2>4. f1 = [f EXCEPT !["updates"].st = "asked", !["updates"].arg = a]
    BY <1>1, <2>3 DEF StartUpdates, SafeWatch, Busy
  <2>5. PICK o \in OneFlow : o = f["updates"]
    BY <1>0 DEF Flows
  <2>6. PICK o1 : o1 = [o EXCEPT !.st = "asked", !.arg = a]
    OBVIOUS
  <2>7. o1 \in OneFlow
    BY <2>6 DEF OneFlow
  <2>8. f1 = [f EXCEPT !["updates"] = o1]
    BY <1>0, <2>4, <2>5, <2>6 DEF Flows
  <2> QED
    BY <2>7, <2>8 DEF Flows
<1> HIDE DEF f1
<1>5. IF Present(e) = {} THEN f2 = f1 ELSE Asks(f1, f2, "backlog", Oldest(e), FALSE)
  BY <1>0, <1>4, SafeWatchAsks DEF SyncBacklog
<1>6. ~Busy(f1, "backlog")
  BY <1>1, <1>3 DEF Busy, Open
<1>7. /\ f2["updates"] = f1["updates"] /\ f2["checkpoint"] = f1["checkpoint"] /\ f2["backlog"].down = <<>>
      /\ f2["backlog"].retry = Never
      /\ IF Present(e) = {} THEN ~Busy(f2, "backlog")
         ELSE f2["backlog"].st = "asked" /\ f2["backlog"].arg = Oldest(e)
  <2>1. CASE Present(e) = {}
    <3>1. f2 = f1
      BY <1>5, <2>1
    <3>2. ~Busy(f2, "backlog")
      BY <1>6, <3>1
    <3> QED
      BY <2>1, <3>1, <3>2, <1>1, <1>3 DEF Busy
  <2>2. CASE Present(e) # {}
    <3>1. Asks(f1, f2, "backlog", Oldest(e), FALSE)
      BY <1>5, <2>2
    <3> HIDE DEF f2
    <3> QED
      BY <1>0, <1>1, <1>3, <1>6, <2>2, <3>1 DEF Asks
  <2> QED
    BY <2>1, <2>2
<1> DEFINE d == Closed
<1>8. g = [f2 EXCEPT !["checkpoint"] = d] /\ d.st = "none" /\ d.retry = Never /\ d.down = <<>>
  BY DEF f1, Closed
<1>9. DOMAIN f2 = Wires
  BY <1>4 DEF SyncBacklog, SafeWatch, Flows
<1> HIDE DEF d, f2
<1>10. g["checkpoint"] = d /\ g["updates"] = f2["updates"] /\ g["backlog"] = f2["backlog"]
  BY <1>0, <1>8, <1>9
<1>11. g["checkpoint"].st = "none" /\ g["checkpoint"].retry = Never /\ g["checkpoint"].down = <<>>
  BY <1>8, <1>10
<1>12. EmptyDown(g)
  BY <1>3, <1>7, <1>10, <1>11 DEF EmptyDown, Wires
<1>13. g["updates"].st = "asked" /\ g["updates"].retry = Never /\ g["backlog"].retry = Never
  BY <1>3, <1>7, <1>10
<1>14. Shapely(g)
  BY <1>0, <1>11, <1>12, <1>13 DEF Shapely, EmptyDown, Wires
<1>15. ~Busy(g, "checkpoint")
  BY <1>11 DEF Busy, Open
<1>16. IF Present(e) = {} THEN ~Busy(g, "backlog") ELSE g["backlog"].st = "asked" /\ g["backlog"].arg = Oldest(e)
  BY <1>7, <1>10 DEF Busy, Open
<1> QED
  BY <1>12, <1>13, <1>14, <1>15, <1>16

LEMMA EmptyDownSounds ==
    ASSUME NEW f, EmptyDown(f), NEW r, r = <<>>, NEW k, NEW lg, NEW ps, NEW n, NEW s, NEW L
    PROVE  Carried(f, r, k, lg, ps, n, s, L)
<1>1. Len(r) = 0 /\ \A w \in Wires : Len(f[w].down) = 0
  BY DEF EmptyDown
<1>2. Len(f["updates"].down) = 0
  BY <1>1 DEF Wires
<1>3. \A t : ~InStream(f["updates"].down, r, t)
  BY <1>1, <1>2 DEF InStream, Ahead
<1>4. Whole(f["updates"].down, r, k)
  BY <1>1, <1>2, <1>3 DEF Whole, Rising
<1> QED
  BY <1>1, <1>4 DEF Carried, Snapshots

-----------------------------------------------------------------------------
LEMMA TakeCheckpointSounds == ASSUME IInv, SInv, TakeCheckpoint PROVE SInv'
<1>1. PICK q \in Signs : q = Head(flow["checkpoint"].down)
  BY HeadFacts DEF TakeCheckpoint, Wires
<1>2. /\ rolling = <<>> /\ flow["checkpoint"].down # <<>> /\ q.kind = "checkpoint"
      /\ copy' = Merged(copy, q.posts) /\ count' = q.count /\ snap' = q.at
      /\ flow' = [SyncBacklog(StartUpdates(flow, copy', FALSE), copy', FALSE) EXCEPT !["checkpoint"] = Closed]
      /\ UNCHANGED <<log, posts, total, joined, rolling, heard, lost>>
  BY <1>1 DEF TakeCheckpoint, Applies, Idle, host
<1>3. /\ q = flow["checkpoint"].down[1] /\ 1 \in 1 .. Len(flow["checkpoint"].down) /\ SignOK(q, log, posts)
      /\ "checkpoint" \in Wires
  BY <1>1, <1>2, HeadFacts DEF Wires
<1>4. SnapOK(q, log, posts, total) /\ PageOK(q, posts)
  BY <1>2, <1>3 DEF SInv, Snapshots, SnapshotOK
<1>5. /\ Busy(flow, "checkpoint") /\ Present(copy) = {} /\ Reach = 0
      /\ joined = TRUE
  <2>1. Busy(flow, "checkpoint")
    BY <1>2 DEF Busy, Open
  <2>2. joined \in BOOLEAN
    BY DEF IInv, TypeOK
  <2> QED
    BY <1>3, <2>1, <2>2 DEF SInv, Phased
<1>6. /\ copy \in Posts /\ posts \in Posts /\ q.posts \in Posts /\ q.at \in Nat /\ q.at <= Len(log) /\ flow \in Flows
      /\ heard \in Nat /\ snap \in Nat /\ Len(log) \in Nat /\ q.count \in Nat
      /\ \A i \in Time : copy[i] = Absent
  <2>1. \A i \in Time : copy[i] = Absent
    BY <1>5 DEF SInv, CopyTold, Present
  <2>2. q.posts \in Posts /\ q.at \in Nat /\ q.count \in Nat
    BY DEF Signs, Posts
  <2>3. q.at <= Len(log)
    BY <1>3 DEF SignOK
  <2> QED
    BY <2>1, <2>2, <2>3, TypeFacts DEF IInv
<1>7. Reach' = q.at
  BY <1>2, <1>5, <1>6 DEF Reach, Larger
<1>8. PICK e \in Posts : e = copy'
  BY TakeCheckpointKeeps, TypeFacts DEF IInv, TypeOK, Posts
<1>9. \A i \in Time : e[i] = IF q.posts[i].st = "absent" THEN Absent ELSE q.posts[i]
  <2>0. e = Merged(copy, q.posts)
    BY <1>2, <1>8
  <2>1. SUFFICES ASSUME NEW i \in Time
                 PROVE  e[i] = IF q.posts[i].st = "absent" THEN Absent ELSE q.posts[i]
    OBVIOUS
  <2>2. e[i] = MergePost(copy[i], q.posts[i])
    BY <2>0 DEF Merged
  <2>3. copy[i] = Absent
    BY <1>6
  <2>8. Absent.st = "absent"
    BY DEF Absent
  <2>4. PICK a : a = Absent /\ a.st = "absent"
    BY <2>8
  <2>5. e[i] = MergePost(a, q.posts[i])
    BY <2>2, <2>3, <2>4
  <2>6. CASE q.posts[i].st = "absent"
    BY <2>4, <2>5, <2>6 DEF MergePost
  <2>7. CASE q.posts[i].st # "absent"
    <3>1. a.st # "dead"
      BY <2>4
    <3> QED
      BY <2>4, <2>5, <2>7, <3>1 DEF MergePost
  <2> QED
    BY <2>6, <2>7
<1>10. Present(e) = Present(q.posts) /\ Oldest(e) = Oldest(q.posts)
  <2>1. Present(e) = Present(q.posts)
    BY <1>9 DEF Present, Absent
  <2> QED
    BY <2>1 DEF Oldest
<1>11. /\ Shapely(flow') /\ EmptyDown(flow') /\ flow'["updates"].st = "asked" /\ flow'["updates"].retry = Never
       /\ ~Busy(flow', "checkpoint")
       /\ IF Present(e) = {} THEN ~Busy(flow', "backlog")
          ELSE flow'["backlog"].st = "asked" /\ flow'["backlog"].arg = Oldest(e)
  <2>1. PICK g : g = flow'
    OBVIOUS
  <2>2. PICK c, r, k, j : c = copy /\ r = rolling /\ k = Reach /\ j = joined
    OBVIOUS
  <2>3. Shapely(flow) /\ Phased(flow, r, c, k, j)
    BY <2>2 DEF SInv
  <2>4. g = [SyncBacklog(StartUpdates(flow, e, FALSE), e, FALSE) EXCEPT !["checkpoint"] = Closed]
    BY <1>2, <1>8, <2>1
  <2>5. /\ Shapely(g) /\ EmptyDown(g) /\ g["updates"].st = "asked" /\ g["updates"].retry = Never
        /\ ~Busy(g, "checkpoint")
        /\ IF Present(e) = {} THEN ~Busy(g, "backlog")
           ELSE g["backlog"].st = "asked" /\ g["backlog"].arg = Oldest(e)
    BY <1>2, <1>5, <1>6, <2>3, <2>4, CheckpointFlow
  <2> QED
    BY <2>1, <2>5
<1>12. Counted(q.count, total, posts, e, q.at, lost)
  BY <1>4 DEF SnapOK, Counted, Late
<1>13. Present(e) = {} => q.at = 0
  <2> SUFFICES ASSUME q.at # 0 PROVE Present(e) # {}
    OBVIOUS
  <2>1. 1 \in Present(posts) /\ 1 <= q.at
    BY <1>6, FirstPost
  <2> QED
    BY <1>4, <1>10, <2>1 DEF PageOK, Present
<1>14. Phased(flow', rolling, e, q.at, joined)
  BY <1>2, <1>5, <1>11, <1>13 DEF Phased
<1>15. Covered(flow', e, posts, q.at, lost)
  <2>1. ASSUME NEW i \in Late(e, posts, q.at) PROVE i < Newest(e) /\ Fetches(flow'["backlog"], i)
    <3>1. i \in Present(posts) /\ i <= q.at /\ i \in Time /\ q.posts[i].st = "absent"
      BY <1>9, <2>1 DEF Late, Present
    <3>2. Present(e) # {} /\ i < Oldest(e)
      BY <1>4, <1>10, <3>1 DEF PageOK
    <3>3. Oldest(e) <= Newest(e) /\ Oldest(e) \in Present(e) /\ Newest(e) \in Present(e)
      BY <3>2, OldestIs
    <3>4. i < Newest(e)
      BY <3>1, <3>2, <3>3 DEF Present, Time
    <3>5. flow'["backlog"].st = "asked" /\ flow'["backlog"].arg = Oldest(e)
      BY <1>11, <3>2
    <3> QED
      BY <3>2, <3>4, <3>5 DEF Fetches
  <2> QED
    BY <2>1 DEF Covered
<1>16. Carried(flow', rolling, q.at, log, posts, total, q.at, Late(e, posts, q.at))
  BY <1>2, <1>11, EmptyDownSounds
<1>17. CopyTold(e, posts, log, lost, Coming(flow'["updates"].down, rolling, q.at, log))
  <2> DEFINE D == Coming(flow'["updates"].down, rolling, q.at, log)
             C == After(q.at, log)
  <2>1. C \subseteq D
    BY <1>6 DEF Coming, After
  <2> HIDE DEF D
  <2>2. ASSUME NEW i \in Time, e[i].st # "absent" PROVE Alike(e[i], posts[i]) /\ Told(e[i], posts[i], i, log, D)
    <3>1. e[i] = q.posts[i] /\ i \in Present(q.posts)
      BY <1>9, <2>2 DEF Present, Absent
    <3>2. Alike(e[i], posts[i]) /\ Told(e[i], posts[i], i, log, C)
      BY <1>4, <3>1 DEF SnapOK
    <3> HIDE DEF C
    <3> QED
      BY <2>1, <3>2, ToldMore DEF Agree
  <2>3. ASSUME NEW i \in Time, e[i].st = "absent" PROVE e[i] = Absent
    BY <1>9, <2>3
  <2> QED
    BY <2>2, <2>3 DEF CopyTold, D
<1>18. HostOK(log, posts, total)
  BY DEF SInv
<1> QED
  BY <1>2, <1>7, <1>8, <1>11, <1>12, <1>14, <1>15, <1>16, <1>17, <1>18 DEF SInv, Carried

-----------------------------------------------------------------------------
(* The backlog comes in.                                                      *)
LEMMA ToldOf ==
    ASSUME NEW v, NEW p, NEW i, NEW lg, NEW C, NEW D, \A t \in C : lg[t].id = i => t \in D, Told(v, p, i, lg, C)
    PROVE  Told(v, p, i, lg, D)
BY DEF Told, Says

LEMMA MergePresent ==
    ASSUME NEW a \in Versions, NEW b \in Versions
    PROVE  /\ MergePost(a, b).st = "absent" <=> a.st = "absent" /\ b.st = "absent"
           /\ a.st = "absent" => MergePost(a, b) = IF b.st = "absent" THEN a ELSE b
           /\ b.st = "absent" => MergePost(a, b) = a
<1>1. CASE a.st = "dead" \/ b.st = "absent"
  BY <1>1 DEF MergePost
<1>2. CASE ~(a.st = "dead" \/ b.st = "absent") /\ (a.st = "absent" \/ b.st = "dead")
  BY <1>2 DEF MergePost
<1>3. CASE a.st = "live" /\ b.st = "live"
  BY <1>3, LiveMerged
<1> QED
  BY <1>1, <1>2, <1>3 DEF Versions

(* What was made after the backlog is still to come, or was heard already.      *)
LEMMA StillComing ==
    ASSUME IInv, NEW q \in Signs, snap <= q.at, NEW i \in Time, ~(\E t \in q.at + 1 .. heard : log[t].id = i),
           NEW t \in After(q.at, log), log[t].id = i
    PROVE  t \in Coming(flow["updates"].down, rolling, Reach, log)
<1>1. heard \in Nat /\ snap \in Nat /\ Len(log) \in Nat /\ Reach \in {heard, snap} /\ q.at \in Nat
  BY TypeFacts DEF IInv, Signs
<1>2. t \in 1 .. Len(log) /\ t > q.at
  BY <1>1 DEF After
<1>3. t > heard
  BY <1>1, <1>2
<1>4. t > snap
  BY <1>1, <1>2
<1>5. t > Reach
  BY <1>1, <1>3, <1>4
<1> QED
  BY <1>2, <1>5 DEF Coming

LEMMA BacklogTells ==
    ASSUME IInv, SInv, NEW q \in Signs, SignOK(q, log, posts), SnapOK(q, log, posts, total), snap <= q.at,
           NEW e, e = Merged(copy, q.posts), NEW l, l = lost \cup Overtaken(q),
           NEW D, D = Coming(flow["updates"].down, rolling, Reach, log)
    PROVE  CopyTold(e, posts, log, l, D)
<1>1. /\ copy \in Posts /\ posts \in Posts /\ q.posts \in Posts /\ CopyTold(copy, posts, log, lost, D)
      /\ \A i \in Time : Upto(copy[i], posts[i]) /\ Upto(q.posts[i], posts[i])
  BY TypeFacts DEF IInv, SInv, Signs, Posts, SignOK, CopyOK
<1>2. SUFFICES ASSUME NEW i \in Time
               PROVE  IF e[i].st = "absent" THEN e[i] = Absent
                      ELSE Alike(e[i], posts[i]) /\ (i \in l \/ Told(e[i], posts[i], i, log, D))
  BY DEF CopyTold
<1>3. PICK a \in Versions : a = copy[i]
  BY <1>1 DEF Posts
<1>4. PICK b \in Versions : b = q.posts[i]
  BY <1>1 DEF Posts
<1>5. PICK p \in Versions : p = posts[i]
  BY <1>1 DEF Posts
<1>6. PICK v : v = e[i]
  OBVIOUS
<1>7. v = MergePost(a, b)
  BY <1>3, <1>4, <1>6 DEF Merged
<1>8. IF a.st = "absent" THEN a = Absent
      ELSE Alike(a, p) /\ (i \in lost \/ Told(a, p, i, log, D))
  BY <1>1, <1>3, <1>5 DEF CopyTold
<1>9. Upto(a, p) /\ Upto(b, p)
  BY <1>1, <1>3, <1>4, <1>5
<1>10. p.st # "absent" => Alike(p, p)
  BY <1>5 DEF SInv, HostOK, Present
<1>11. b.st # "absent" => Alike(b, p) /\ Told(b, p, i, log, After(q.at, log))
  BY <1>4, <1>5 DEF SnapOK, Present
<1>12. CASE b.st = "absent"
  <2>1. v = a
    BY <1>7, <1>12, MergePresent
  <2> QED
    BY <1>5, <1>6, <1>8, <2>1
<1>13. CASE b.st # "absent"
  <2>1. p.st # "absent" /\ Alike(p, p)
    BY <1>9, <1>10, <1>13 DEF Upto
  <2>2. Alike(b, p) /\ Told(b, p, i, log, After(q.at, log))
    BY <1>11, <1>13
  <2>3. v.st # "absent" /\ Alike(v, p)
    <3>1. CASE a.st = "absent"
      BY <1>7, <1>13, <2>2, <3>1, MergePresent
    <3>2. CASE a.st # "absent"
      BY <1>7, <1>8, <1>9, <1>13, <2>1, <2>2, <3>2, MergePresent, MergeAlike
    <3> QED
      BY <3>1, <3>2
  <2>4. ASSUME i \notin l PROVE Told(v, p, i, log, D)
    <3>1. i \notin lost /\ i \in Present(q.posts) /\ i \notin Overtaken(q)
      BY <1>4, <1>13, <2>4 DEF Present
    <3>2. CASE a.st # "absent" /\ v.reply = a.reply
      <4>1. Alike(a, p) /\ Told(a, p, i, log, D) /\ MergePost(a, b).reply = a.reply
        BY <1>7, <1>8, <3>1, <3>2
      <4> QED
        BY <1>7, <1>9, <1>13, <2>1, <2>2, <3>2, <4>1, MergeTellsOld
    <3>3. CASE a.st = "absent" \/ v.reply # a.reply
      <4>1. ~(\E t \in q.at + 1 .. heard : log[t].id = i)
        BY <1>3, <1>4, <1>7, <3>1, <3>3 DEF Overtaken
      <4>2. \A t \in After(q.at, log) : log[t].id = i => t \in D
        BY <4>1, StillComing
      <4>3. Told(b, p, i, log, D)
        <5> DEFINE C == After(q.at, log)
        <5>1. Told(b, p, i, log, C) /\ \A t \in C : log[t].id = i => t \in D
          BY <2>2, <4>2
        <5> HIDE DEF C
        <5> QED
          BY <5>1, ToldOf
      <4>4. CASE a.st = "absent"
        BY <1>7, <1>13, <4>3, <4>4, MergePresent
      <4>5. CASE a.st # "absent"
        BY <1>7, <1>8, <1>9, <1>13, <2>1, <2>2, <4>3, <4>5, MergeTellsNew
      <4> QED
        BY <4>4, <4>5
    <3> QED
      BY <3>2, <3>3
  <2> QED
    BY <1>5, <1>6, <2>3, <2>4
<1> QED
  BY <1>12, <1>13

-----------------------------------------------------------------------------
LEMMA BacklogClosed ==
    ASSUME NEW f \in Flows, NEW g, g = [f EXCEPT !["backlog"] = Closed], Shapely(f), f["backlog"].down # <<>>,
           NEW r, NEW c, NEW e, NEW k, NEW j, Present(c) \subseteq Present(e), Phased(f, r, c, k, j)
    PROVE  Shapely(g) /\ Phased(g, r, e, k, j)
<1>1. /\ g["backlog"].st = "none" /\ g["backlog"].retry = Never /\ g["backlog"].down = <<>>
      /\ g["updates"] = f["updates"] /\ g["checkpoint"] = f["checkpoint"]
  BY DEF Flows, Wires, Closed
<1>2. ~Busy(g, "backlog") /\ ~Open(g, "backlog")
  BY <1>1 DEF Busy, Open
<1>3. \A w \in {"updates", "checkpoint"} : (Busy(g, w) <=> Busy(f, w)) /\ (Open(g, w) <=> Open(f, w))
  BY <1>1 DEF Busy, Open
<1>4. Busy(f, "backlog")
  BY DEF Busy, Open
<1>5. Present(c) # {} /\ Present(e) # {} /\ ~Busy(f, "checkpoint") /\ j # FALSE
  BY <1>4 DEF Phased, Wires
<1>6. Shapely(g)
  <2>1. ASSUME NEW w \in Wires
        PROVE  /\ g[w].retry # Never => ~Open(g, w)
               /\ g[w].st = "asked" => g[w].down = <<>>
    <3>1. CASE w = "backlog"
      BY <1>1, <1>2, <3>1
    <3>2. CASE w # "backlog"
      <4>1. w \in {"updates", "checkpoint"} /\ g[w] = f[w]
        BY <1>1, <3>2 DEF Wires
      <4> QED
        BY <1>3, <4>1 DEF Shapely
    <3> QED
      BY <3>1, <3>2
  <2> QED
    BY <1>1, <2>1 DEF Shapely
<1>7. Phased(g, r, e, k, j)
  <2>1. ~Busy(g, "checkpoint")
    BY <1>3, <1>5
  <2>2. g["updates"].st = "asked" => r = <<>>
    BY <1>1 DEF Phased
  <2>3. ~j => FALSE
    BY <1>4 DEF Phased, Wires
  <2> QED
    BY <1>5, <2>1, <2>2, <2>3 DEF Phased
<1> QED
  BY <1>6, <1>7

LEMMA TakeBacklogSounds == ASSUME IInv, SInv, TakeBacklog PROVE SInv'
<1>1. PICK q : q = Head(flow["backlog"].down)
  OBVIOUS
<1>2. /\ flow["backlog"].down # <<>> /\ q.kind = "checkpoint"
      /\ copy' = Merged(copy, q.posts) /\ count' = q.count
      /\ flow' = [flow EXCEPT !["backlog"] = Closed]
      /\ lost' = lost \cup Overtaken(q)
      /\ UNCHANGED <<log, posts, total, joined, rolling, snap, heard>>
  BY <1>1 DEF TakeBacklog, Applies, host
<1>3. "backlog" \in Wires
  BY DEF Wires
<1>4. /\ q = flow["backlog"].down[1] /\ 1 \in 1 .. Len(flow["backlog"].down)
      /\ q \in Signs /\ SignOK(q, log, posts)
  BY <1>1, <1>2, <1>3, HeadFacts
<1>5. SnapOK(q, log, posts, total) /\ snap <= q.at /\ \A i \in Late(copy, posts, Reach) : i <= q.at
  <2>1. SnapshotOK(q, "backlog", log, posts, total, snap, Late(copy, posts, Reach))
    BY <1>3, <1>4 DEF SInv, Snapshots
  <2> QED
    BY <1>2, <2>1 DEF SnapshotOK
<1>6. flow \in Flows /\ copy \in Posts /\ posts \in Posts /\ q.posts \in Posts /\ q.count \in Nat
      /\ count \in Nat /\ Reach \in Nat
  BY <1>4, TypeFacts DEF IInv, TypeOK, Signs, Posts
<1>7. Reach' = Reach
  BY <1>2 DEF Reach
<1>8. PICK e \in Posts : e = copy'
  BY TakeBacklogKeeps, TypeFacts DEF IInv, TypeOK, Posts
<1>9. ASSUME NEW i \in Time PROVE e[i].st = "absent" <=> copy[i].st = "absent" /\ q.posts[i].st = "absent"
  <2>1. PICK a \in Versions : a = copy[i]
    BY <1>6 DEF Posts
  <2>2. PICK b \in Versions : b = q.posts[i]
    BY <1>6 DEF Posts
  <2>3. e[i] = MergePost(a, b)
    BY <1>2, <1>8, <2>1, <2>2 DEF Merged
  <2> QED
    BY <2>1, <2>2, <2>3, MergePresent
<1>10. Present(copy) \subseteq Present(e) /\ Late(e, posts, Reach) \subseteq Late(copy, posts, Reach)
  BY <1>9 DEF Present, Late
<1>11. Shapely(flow') /\ Phased(flow', rolling, e, Reach, joined)
  <2>1. PICK r, k, j : r = rolling /\ k = Reach /\ j = joined
    OBVIOUS
  <2>2. Shapely(flow) /\ Phased(flow, r, copy, k, j)
    BY <2>1 DEF SInv
  <2>3. Shapely(flow') /\ Phased(flow', r, e, k, j)
    BY <1>2, <1>6, <1>10, <2>2, BacklogClosed
  <2> QED
    BY <2>1, <2>3
<1>12. Covered(flow', e, posts, Reach, lost')
  <2>1. SUFFICES ASSUME NEW i \in Late(e, posts, Reach), i \notin lost' PROVE FALSE
    BY DEF Covered
  <2>2. i \in Late(copy, posts, Reach) \ lost /\ i \in Time /\ e[i].st = "absent"
    BY <1>2, <1>10, <2>1 DEF Late, Present
  <2>3. Fetches(flow["backlog"], i)
    BY <2>2 DEF SInv, Covered
  <2>4. flow["backlog"].st = "none" /\ flow["backlog"].retry = Never
    <3>1. flow["backlog"].st = "none" /\ (flow["backlog"].retry # Never => ~Open(flow, "backlog"))
      BY <1>2, <1>3 DEF SInv, Shapely
    <3> QED
      BY <1>2, <3>1 DEF Open
  <2>5. q.posts[i].st # "absent"
    BY <1>2, <1>4, <2>3, <2>4 DEF Fetches
  <2> QED
    BY <1>9, <2>2, <2>5
<1>13. Counted(q.count, total, posts, e, Reach, lost')
  <2>1. Counted(count, total, posts, copy, Reach, lost)
    BY DEF SInv
  <2>2. q.count <= total
    BY <1>5 DEF SnapOK
  <2>3. ASSUME 0 \notin lost', NEW i \in Present(posts), i <= Reach PROVE posts[i].seq <= q.count
    <3>1. 0 \notin lost /\ ~(q.count < count)
      BY <1>2, <2>3 DEF Overtaken
    <3>2. posts[i].seq <= count /\ posts[i].seq \in Nat
      BY <1>6, <2>1, <2>3, <3>1 DEF Counted, Posts, Present, Versions
    <3> QED
      BY <1>6, <3>1, <3>2
  <2>4. ASSUME NEW i \in Late(e, posts, Reach) PROVE posts[i].seq <= q.count
    <3>1. i \in Present(posts) /\ i <= q.at
      BY <1>5, <1>10, <2>4 DEF Late
    <3> QED
      BY <1>5, <3>1 DEF SnapOK
  <2> QED
    BY <2>2, <2>3, <2>4 DEF Counted
<1>14. Carried(flow', rolling, Reach, log, posts, total, snap, Late(e, posts, Reach)) /\ Streams(flow, flow', rolling)
  <2>1. PICK L, k : L = Late(copy, posts, Reach) /\ k = Reach
    OBVIOUS
  <2>2. Carried(flow, rolling, k, log, posts, total, snap, L)
    BY <2>1 DEF SInv, Carried
  <2>3. \A w \in Wires : IF w \in {"backlog"} THEN flow'[w].down = <<>> ELSE flow'[w].down = flow[w].down
    BY <1>2, <1>6 DEF Flows, Closed
  <2>4. Carried(flow', rolling, k, log, posts, total, snap, L) /\ Streams(flow, flow', rolling)
    <3> PICK S : S = {"backlog"}
      OBVIOUS
    <3>1. "updates" \notin S /\ \A w \in Wires : IF w \in S THEN flow'[w].down = <<>> ELSE flow'[w].down = flow[w].down
      BY <2>3
    <3> QED
      BY <2>2, <3>1, CarriedClosed
  <2>5. Late(e, posts, Reach) \subseteq L
    BY <1>10, <2>1
  <2>6. Snapshots(flow', log, posts, total, snap, Late(e, posts, Reach))
    BY <2>4, <2>5 DEF Carried, Snapshots, SnapshotOK
  <2> QED
    BY <2>1, <2>4, <2>6 DEF Carried
<1>15. flow'["updates"].down = flow["updates"].down
  BY <1>2, <1>6 DEF Flows, Wires
<1>16. CopyTold(e, posts, log, lost', Coming(flow'["updates"].down, rolling, Reach, log))
  <2>1. PICK D : D = Coming(flow["updates"].down, rolling, Reach, log)
    OBVIOUS
  <2>2. PICK l : l = lost \cup Overtaken(q)
    OBVIOUS
  <2>3. CopyTold(e, posts, log, l, D)
    BY <1>2, <1>4, <1>5, <1>8, <2>1, <2>2, BacklogTells
  <2> QED
    BY <1>2, <1>15, <2>1, <2>2, <2>3
<1>17. HostOK(log, posts, total)
  BY DEF SInv
<1> QED
  BY <1>2, <1>7, <1>8, <1>11, <1>12, <1>13, <1>14, <1>16, <1>17 DEF SInv, Carried

-----------------------------------------------------------------------------
LEMMA NextSounds == IInv /\ SInv /\ [Next]_vars => SInv'
<1> SUFFICES ASSUME IInv, SInv, [Next]_vars PROVE SInv'
  OBVIOUS
<1>1. CASE HostPosts \/ (\E id \in Time : HostRevises(id)) \/ HostTakes
  BY <1>1, HostSounds
<1>2. CASE Revoke \/ Restore \/ (\E m \in Message : Send(m)) \/ (\E w \in Wires : Clog(w)) \/ UNCHANGED vars
  BY <1>2, QuietStepSounds
<1>3. ASSUME NEW w \in Wires, WatchArrives(w) PROVE SInv'
  BY <1>3, WatchArrivesSounds
<1>4. ASSUME NEW w \in Wires, Takes(w) PROVE SInv'
  BY <1>4, TakeKickSounds, TakeNackSounds, TakeLogsSounds, TakeCheckpointSounds, TakeBacklogSounds DEF Takes
<1>5. ASSUME NEW w \in Wires, Wake(w) PROVE SInv'
  BY <1>5, WakeSounds
<1>6. CASE Roll
  BY <1>6, RollSounds
<1>7. CASE Join
  BY <1>7, JoinSounds
<1>8. CASE Leave
  BY <1>8, LeaveSounds
<1>9. CASE OnLoad
  BY <1>9, OnLoadSounds
<1>10. CASE Recheck
  BY <1>10, RecheckSounds
<1> QED
  BY <1>1, <1>2, <1>3, <1>4, <1>5, <1>6, <1>7, <1>8, <1>9, <1>10 DEF Next

(* Nothing is to come when the subscriber watches and has nothing to read.      *)
LEMMA QuietHeard ==
    ASSUME IInv, SInv, Quiet
    PROVE  /\ Coming(flow["updates"].down, rolling, Reach, log) = {} /\ Len(log) <= Reach
           /\ \A i : ~Fetches(flow["backlog"], i)
<1>1. /\ flow["updates"].down = <<>> /\ rolling = <<>> /\ flow["updates"].st = "live"
      /\ flow["backlog"].st = "none" /\ flow["backlog"].retry = Never /\ flow["backlog"].down = <<>>
  BY DEF Quiet, Idle, Open
<1>2. TipOK(<<>>, <<>>, Reach, Len(log))
  BY <1>1 DEF IInv, Ordered
<1>3. Len(<<>>) = 0
  OBVIOUS
<1>4. \A n \in {0, 1} : \A t : ~Ahead(<<>>, <<>>, n, t)
  BY <1>3 DEF Ahead
<1>5. Len(log) <= Reach
  BY <1>2, <1>3, <1>4 DEF TipOK
<1>6. Reach \in Nat /\ Len(log) \in Nat
  BY TypeFacts DEF IInv
<1>7. \A t : ~InStream(<<>>, <<>>, t)
  BY <1>3, <1>4 DEF InStream
<1>8. Coming(<<>>, <<>>, Reach, log) = {}
  BY <1>5, <1>6, <1>7 DEF Coming
<1> QED
  BY <1>1, <1>5, <1>8 DEF Fetches

LEMMA SameNow == IInv /\ SInv => SameWhenQuiet
<1> SUFFICES ASSUME IInv, SInv, Quiet
             PROVE  /\ \A i \in Time : i \in lost \/ copy[i] = posts[i]
                    /\ 0 \in lost \/ count = total \/ \A i \in Time : posts[i].seq # total
  BY DEF SameWhenQuiet
<1>1. /\ Coming(flow["updates"].down, rolling, Reach, log) = {} /\ Len(log) <= Reach
      /\ \A i : ~Fetches(flow["backlog"], i)
  BY QuietHeard
<1>2. /\ copy \in Posts /\ posts \in Posts /\ Reach \in Nat /\ Len(log) \in Nat /\ count \in Nat /\ total \in Nat
      /\ \A i \in Time : Upto(copy[i], posts[i])
  BY TypeFacts DEF IInv, CopyOK, TypeOK
<1>3. ASSUME NEW i \in Time, posts[i].st # "absent" PROVE i \in Present(posts) /\ i <= Reach
  <2>1. i \in Present(posts) /\ i <= Len(log)
    BY <1>3 DEF SInv, HostOK, Present
  <2> QED
    BY <1>1, <1>2, <2>1 DEF Time
<1>4. ASSUME NEW i \in Time, i \notin lost PROVE copy[i] = posts[i]
  <2>1. PICK v \in Versions : v = copy[i]
    BY <1>2 DEF Posts
  <2>2. PICK p \in Versions : p = posts[i]
    BY <1>2 DEF Posts
  <2>3. IF v.st = "absent" THEN v = Absent ELSE Alike(v, p) /\ Told(v, p, i, log, {})
    BY <1>1, <1>4, <2>1, <2>2 DEF SInv, CopyTold
  <2>4. p.st = "absent" => p = Absent
    BY <2>2 DEF SInv, HostOK
  <2>5. p.st # "absent" => Alike(p, p)
    BY <2>2 DEF SInv, HostOK, Present
  <2>6. Upto(v, p)
    BY <1>2, <2>1, <2>2
  <2>7. CASE v.st = "absent"
    <3>1. p.st = "absent"
      <4>1. SUFFICES ASSUME p.st # "absent" PROVE FALSE
        OBVIOUS
      <4>2. i \in Late(copy, posts, Reach) \ lost
        BY <1>3, <1>4, <2>1, <2>2, <2>7, <4>1 DEF Late
      <4> QED
        BY <1>1, <4>2 DEF SInv, Covered
    <3> QED
      BY <2>1, <2>2, <2>3, <2>4, <2>7, <3>1
  <2>8. CASE v.st # "absent"
    <3>1. p.st # "absent"
      BY <2>6, <2>8 DEF Upto
    <3>2. v = p
      BY <2>3, <2>5, <2>6, <2>8, <3>1, ToldAll
    <3> QED
      BY <2>1, <2>2, <3>2
  <2> QED
    BY <2>7, <2>8
<1>5. 0 \in lost \/ count = total \/ \A i \in Time : posts[i].seq # total
  <2>1. SUFFICES ASSUME 0 \notin lost, NEW i \in Time, posts[i].seq = total PROVE count = total
    OBVIOUS
  <2>2. count <= total /\ \A x \in Present(posts) : x <= Reach => posts[x].seq <= count
    BY <2>1 DEF SInv, Counted
  <2>3. CASE posts[i].st = "absent"
    <3>1. posts[i] = Absent
      BY <2>3 DEF SInv, HostOK
    <3>2. total = 0
      BY <2>1, <3>1 DEF Absent
    <3> QED
      BY <1>2, <2>2, <3>2
  <2>4. CASE posts[i].st # "absent"
    <3>1. posts[i].seq <= count
      BY <1>3, <2>2, <2>4
    <3> QED
      BY <1>2, <2>1, <2>2, <3>1
  <2> QED
    BY <2>3, <2>4
<1> QED
  BY <1>4, <1>5

(* When the subscriber watches and nothing is on its way, its copy is what the  *)
(* host has, "identical between ships": posts, reactions, replies and count;    *)
(* but for what ca-sync-backlog, ca-apply-reply and inflate-io lose.           *)
THEOREM SameInTheEnd == Spec => []SameWhenQuiet
<1>1. Init => SInv
  BY InitSounds
<1>2. IInv /\ SInv /\ [Next]_vars => SInv'
  BY NextSounds
<1>3. IInv /\ SInv => SameWhenQuiet
  BY SameNow
<1> QED
  BY <1>1, <1>2, <1>3, Invariance, PTL DEF Spec

=============================================================================
