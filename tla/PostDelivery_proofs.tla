------------------------- MODULE PostDelivery_proofs -------------------------
(***************************************************************************)
(* Proofs about PostDelivery for every set of posts, every split into      *)
(* group posts and direct messages, and every bound.  The inductive        *)
(* invariant adds to the type invariant what each piece of knowledge the   *)
(* app holds proves about the ship: an acknowledgement, an answered        *)
(* verification, an event, and a row without a draft, be it the one that a *)
(* deletePost has read.                                                    *)
(***************************************************************************)
EXTENDS PostDelivery, TLAPS

(* Only posts the user has sent have rows, actions and attempts under way. *)
AllPosted ==
    /\ \A i \in DOMAIN queue : queue[i].post \in posted
    /\ \A x \in running \cup settling : x.att.post \in posted
    /\ \A a \in wire \cup Taken \cup acked : a.post \in posted
    /\ \A p \in Post : ~Is(p, {"absent"}) => p \in posted
    /\ tapped \subseteq posted

(* What is known of the ship is true of it. *)
Evidence ==
    /\ \A x \in settling : x.outcome = "ok" => x.att \in Taken
    /\ \A v \in verifying : v.answer = "found" => v.post \in sequenced
    /\ \A i \in DOMAIN facts : facts[i].kind = "post" => facts[i].post \in sequenced
    /\ sequenced \subseteq PostsOf(Taken)
    /\ \A m \in removals : m.was.status # "absent"
    /\ \A m \in removals : ~m.was.draft => m.att.post \in PostsOf(Taken)

(* A row gives up its draft only for a message the ship has. *)
DraftGoneForGood ==
    \A p \in Post : ~Is(p, {"absent"}) /\ ~row[p].draft => p \in PostsOf(Taken)

(* And once an acknowledgement is handled the draft is gone, but for a rollback. *)
AckedHasNoDraft == \A a \in acked : a.post \in restored \/ ~row[a.post].draft

(* An action of the post is yet to write its row: pending, or failed. *)
Underway(p) ==
    \/ \E x \in running : x.phase = "finalizing" /\ x.att.post = p /\ x.att.kind = "send"
    \/ \E x \in settling : x.outcome = "failed" /\ x.att.post = p /\ x.att.kind = "send"

(* What EnqueuedHasSender rests on: once the poke is out the row is not enqueued, *)
(* unless by a retry that waits in the queue.                                     *)
EnqueuedIsUnderway ==
    \A p \in Post : Is(p, {"enqueued"}) =>
        Queued(p) \/ Underway(p) \/ fresh \/ p \in failing \/ p \in restored

IInv ==
    /\ TypeOK
    /\ AllPosted
    /\ Evidence
    /\ DraftGoneForGood
    /\ AckedHasNoDraft
    /\ NothingVanishes
    /\ EnqueuedIsUnderway

USE DEF held, hist

-----------------------------------------------------------------------------
(* What the operators on rows do. *)

(* updatePost changes the status of an existing row and nothing else. *)
LEMMA WrittenRow ==
    ASSUME row \in [Post -> Row], NEW p \in Post, NEW s \in Status \ {"absent"}
    PROVE  /\ Written(p, s) \in [Post -> Row]
           /\ \A q \in Post : /\ Written(p, s)[q].draft = row[q].draft
                              /\ (Written(p, s)[q].status = "absent") = (row[q].status = "absent")
                              /\ Written(p, s)[q].status \in {row[q].status, s}
           /\ \A q \in Post \ {p} : Written(p, s)[q] = row[q]
BY DEF Written, Is, Row, Status

(* Inserting the ship's copies leaves no draft behind, and no row but those of *)
(* direct messages.                                                            *)
LEMMA InsertedRow ==
    ASSUME row \in [Post -> Row], NEW ps \in SUBSET Post
    PROVE  /\ Inserted(ps) \in [Post -> Row]
           /\ \A q \in Post \ ps : Inserted(ps)[q] = row[q]
           /\ \A q \in ps : /\ ~Inserted(ps)[q].draft
                            /\ Inserted(ps)[q].status \in {"absent", "null"}
BY DEF Inserted, Absent, Row, Status

(* What the ship has taken it keeps. *)
LEMMA TakenGrows ==
    ASSUME log \in Seq(Attempt), NEW a \in Attempt, log' = Append(log, a)
    PROVE  /\ Taken' = Taken \cup {a}
           /\ PostsOf(Taken') = PostsOf(Taken) \cup {a.post}
<1>1. DOMAIN log = 1 .. Len(log) /\ Len(log) \in Nat
  OBVIOUS
<1>2. DOMAIN log' = 1 .. Len(log) + 1
  BY <1>1
<1>3. \A i \in DOMAIN log : log'[i] = log[i]
  BY <1>1
<1>4. log'[Len(log) + 1] = a
  BY <1>1
<1>5. Taken' = Taken \cup {a}
  BY <1>1, <1>2, <1>3, <1>4 DEF Taken
<1> QED
  BY <1>5 DEF PostsOf

(* The entries of a sequence with one more at its end. *)
LEMMA AppendEntries ==
    ASSUME NEW T, NEW seq \in Seq(T), NEW e \in T
    PROVE  /\ Append(seq, e) \in Seq(T)
           /\ \A i \in DOMAIN Append(seq, e) :
                 \/ i \in DOMAIN seq /\ Append(seq, e)[i] = seq[i]
                 \/ Append(seq, e)[i] = e
           /\ \A i \in DOMAIN seq : i \in DOMAIN Append(seq, e) /\ Append(seq, e)[i] = seq[i]
           /\ \E i \in DOMAIN Append(seq, e) : Append(seq, e)[i] = e
<1>1. Len(seq) + 1 \in DOMAIN Append(seq, e) /\ Append(seq, e)[Len(seq) + 1] = e
  OBVIOUS
<1> QED
  BY <1>1

(* The entries of a sequence without its first. *)
LEMMA TailEntries ==
    ASSUME NEW T, NEW seq \in Seq(T), seq # <<>>
    PROVE  /\ Head(seq) \in T /\ Tail(seq) \in Seq(T)
           /\ \E j \in DOMAIN seq : Head(seq) = seq[j]
           /\ \A i \in DOMAIN Tail(seq) : \E j \in DOMAIN seq : Tail(seq)[i] = seq[j]
           /\ \A j \in DOMAIN seq : \/ seq[j] = Head(seq)
                                    \/ \E i \in DOMAIN Tail(seq) : Tail(seq)[i] = seq[j]
<1>1. /\ Len(seq) \in Nat \ {0} /\ DOMAIN seq = 1 .. Len(seq)
      /\ Head(seq) = seq[1] /\ Head(seq) \in T /\ Tail(seq) \in Seq(T)
      /\ DOMAIN Tail(seq) = 1 .. Len(seq) - 1
      /\ \A i \in 1 .. Len(seq) - 1 : Tail(seq)[i] = seq[i + 1]
  OBVIOUS
<1>2. \A j \in 2 .. Len(seq) : j - 1 \in DOMAIN Tail(seq) /\ Tail(seq)[j - 1] = seq[j]
  BY <1>1
<1>3. \A i \in DOMAIN Tail(seq) : i + 1 \in DOMAIN seq /\ Tail(seq)[i] = seq[i + 1]
  BY <1>1
<1>4. \A j \in DOMAIN seq : j = 1 \/ j \in 2 .. Len(seq)
  BY <1>1
<1>5. 1 \in DOMAIN seq
  BY <1>1
<1>6. \A i \in DOMAIN Tail(seq) : \E j \in DOMAIN seq : Tail(seq)[i] = seq[j]
  BY <1>3
<1>7. \A j \in DOMAIN seq : \/ seq[j] = Head(seq)
                            \/ \E i \in DOMAIN Tail(seq) : Tail(seq)[i] = seq[j]
  BY <1>1, <1>2, <1>4
<1> QED
  BY <1>1, <1>5, <1>6, <1>7

(* The polls of a channel stay within their bound. *)
LEMMA PollingTypes ==
    ASSUME poll \in [BOOLEAN -> 0 .. PollTries], NEW c \in BOOLEAN
    PROVE  Polling(c) \in [BOOLEAN -> 0 .. PollTries]
<1>1. PollTries \in 0 .. PollTries
  BY ConstantsAssumption
<1> QED
  BY <1>1, Zenon DEF Polling

(* A write that leaves drafts alone and creates or deletes no row keeps what *)
(* the invariant says of messages.                                           *)
LEMMA WriteKeeps ==
    ASSUME IInv, row' \in [Post -> Row],
           \A q \in Post : /\ row'[q].draft = row[q].draft
                           /\ (row'[q].status = "absent") = (row[q].status = "absent"),
           UNCHANGED <<copied, log, posted, cleared, acked, restored>>
    PROVE  DraftGoneForGood' /\ NothingVanishes' /\ AckedHasNoDraft'
<1>1. Taken' = Taken
  BY DEF Taken
<1>2. DraftGoneForGood'
  BY <1>1 DEF IInv, DraftGoneForGood, Is
<1>3. NothingVanishes'
  BY DEF IInv, TypeOK, HistoryTypeOK, NothingVanishes, Is
<1>4. AckedHasNoDraft'
  BY DEF IInv, TypeOK, HistoryTypeOK, AckedHasNoDraft, Attempt
<1> QED
  BY <1>2, <1>3, <1>4

(* So does storing the ship's copies of messages the channel has. *)
LEMMA InsertKeeps ==
    ASSUME IInv, NEW ps \in SUBSET sequenced, row' = Inserted(ps), copied' = copied \cup ps,
           UNCHANGED <<log, posted, cleared, acked, restored>>
    PROVE  /\ DatabaseTypeOK'
           /\ DraftGoneForGood' /\ NothingVanishes' /\ AckedHasNoDraft'
           /\ \A p \in Post : ~Is(p, {"absent"})' => p \in posted
           /\ \A p \in Post : Is(p, {"enqueued"})' => Is(p, {"enqueued"})
<1>1. /\ row \in [Post -> Row] /\ ps \subseteq Post /\ copied \subseteq Post
      /\ ps \subseteq PostsOf(Taken)
  BY DEF IInv, TypeOK, DatabaseTypeOK, NetTypeOK, Evidence
<1>2. /\ row' \in [Post -> Row]
      /\ \A q \in Post \ ps : row'[q] = row[q]
      /\ \A q \in ps : ~row'[q].draft /\ row'[q].status \in {"absent", "null"}
  BY <1>1, InsertedRow
<1>3. Taken' = Taken
  BY DEF Taken
<1>4. DatabaseTypeOK'
  BY <1>1, <1>2 DEF DatabaseTypeOK
<1>5. DraftGoneForGood'
  BY <1>1, <1>2, <1>3 DEF IInv, DraftGoneForGood, Is
<1>6. NothingVanishes'
  BY <1>2 DEF IInv, TypeOK, HistoryTypeOK, NothingVanishes, Is
<1>7. AckedHasNoDraft'
  BY <1>2 DEF IInv, TypeOK, HistoryTypeOK, AckedHasNoDraft, Attempt
<1>8. ps \subseteq posted
  BY <1>1 DEF IInv, AllPosted, PostsOf
<1>9. \A p \in Post : ~Is(p, {"absent"})' => p \in posted
  BY <1>2, <1>8 DEF IInv, AllPosted, Is
<1>10. \A p \in Post : Is(p, {"enqueued"})' => Is(p, {"enqueued"})
  BY <1>2 DEF Is
<1> QED
  BY <1>4, <1>5, <1>6, <1>7, <1>9, <1>10

-----------------------------------------------------------------------------
(* The initial state and each action. *)

LEMMA InitIInv == Init => IInv
<1> SUFFICES ASSUME Init PROVE IInv
  OBVIOUS
<1>1. DatabaseTypeOK
  BY DEF Init, DatabaseTypeOK, Row, Status, Absent
<1>6. NetTypeOK
  BY DEF Init, NetTypeOK
<1>2. AppTypeOK
  <2>1. 0 \in 0 .. PollTries
    BY ConstantsAssumption
  <2>2. poll \in [BOOLEAN -> 0 .. PollTries]
    BY <2>1, Zenon DEF Init
  <2>3. queue \in Seq(Attempt)
    BY DEF Init
  <2> QED
    BY <2>2, <2>3 DEF Init, AppTypeOK, Up
<1>3. HistoryTypeOK
  BY ConstantsAssumption DEF Init, HistoryTypeOK
<1>4. AllPosted /\ Evidence /\ DraftGoneForGood /\ AckedHasNoDraft
  BY DEF Init, AllPosted, Evidence, DraftGoneForGood, AckedHasNoDraft, Is, Absent, Taken
<1>5. NothingVanishes /\ EnqueuedIsUnderway
  BY DEF Init, NothingVanishes, EnqueuedIsUnderway, Is, Absent
<1> QED
  BY <1>1, <1>2, <1>3, <1>4, <1>5, <1>6 DEF IInv, TypeOK

(* An attempt joins the queue. *)
LEMMA EnqueueTypes ==
    ASSUME TypeOK, NEW p \in Post, NEW kind \in {"send", "delete"}, Enqueue(p, kind)
    PROVE  /\ queue' \in Seq(Attempt) /\ woken' \in BOOLEAN /\ sends' \in 0 .. MaxSends
           /\ \A i \in DOMAIN queue' : \/ i \in DOMAIN queue /\ queue'[i] = queue[i]
                                       \/ queue'[i].post = p /\ queue'[i].n = sends + 1
           /\ \A i \in DOMAIN queue : i \in DOMAIN queue' /\ queue'[i] = queue[i]
           /\ \E i \in DOMAIN queue' : queue'[i].post = p /\ queue'[i].kind = kind
           /\ queue'[Len(queue')] \in Attempt /\ queue'[Len(queue')].post = p
<1> DEFINE e == [post |-> p, n |-> sends + 1, kind |-> kind]
<1>1. sends + 1 \in 1 .. MaxSends
  BY ConstantsAssumption DEF TypeOK, HistoryTypeOK, Enqueue
<1>2. e \in Attempt /\ e.post = p /\ e.kind = kind /\ e.n = sends + 1
  BY <1>1 DEF Attempt
<1>3. queue \in Seq(Attempt) /\ queue' = Append(queue, e)
  BY DEF TypeOK, AppTypeOK, Enqueue
<1>4. /\ queue' \in Seq(Attempt)
      /\ \A i \in DOMAIN queue' : (i \in DOMAIN queue /\ queue'[i] = queue[i]) \/ queue'[i] = e
      /\ \A i \in DOMAIN queue : i \in DOMAIN queue' /\ queue'[i] = queue[i]
      /\ \E i \in DOMAIN queue' : queue'[i] = e
  BY <1>2, <1>3, AppendEntries
<1>5. woken' \in BOOLEAN /\ sends' \in 0 .. MaxSends
  BY <1>1, ConstantsAssumption DEF TypeOK, AppTypeOK, HistoryTypeOK, Enqueue
<1>6. queue'[Len(queue')] = e
  BY <1>2, <1>3
<1> HIDE DEF e
<1> QED
  BY <1>2, <1>4, <1>5, <1>6

LEMMA SendStep == ASSUME IInv, NEW p \in Post, Send(p) PROVE IInv'
<1>1. Enqueue(p, "send") /\ TypeOK
  BY DEF Send, IInv
<1>2. /\ queue' \in Seq(Attempt) /\ woken' \in BOOLEAN /\ sends' \in 0 .. MaxSends
      /\ \A i \in DOMAIN queue' : \/ i \in DOMAIN queue /\ queue'[i] = queue[i]
                                  \/ queue'[i].post = p
      /\ \A i \in DOMAIN queue : i \in DOMAIN queue' /\ queue'[i] = queue[i]
      /\ \E i \in DOMAIN queue' : queue'[i].post = p /\ queue'[i].kind = "send"
  BY <1>1, EnqueueTypes
<1>3. /\ row' \in [Post -> Row]
      /\ row'[p] = [status |-> "enqueued", draft |-> TRUE, gone |-> FALSE]
      /\ \A q \in Post \ {p} : row'[q] = row[q]
  BY <1>1 DEF Send, TypeOK, DatabaseTypeOK, Row, Status
<1>4. TypeOK'
  BY <1>1, <1>2, <1>3 DEF Send, net, TypeOK, DatabaseTypeOK, AppTypeOK, NetTypeOK, HistoryTypeOK
<1>5. AllPosted'
  BY <1>2, <1>3 DEF IInv, Send, net, AllPosted, Taken, Is
<1>6. Evidence'
  BY DEF IInv, Send, net, Evidence, Taken, PostsOf
<1>7. DraftGoneForGood'
  BY <1>3 DEF IInv, Send, net, DraftGoneForGood, Taken, PostsOf, Is
<1>8. AckedHasNoDraft'
  <2>1. \A a \in acked : a.post \in Post \ {p}
    BY <1>1 DEF IInv, Send, AllPosted, TypeOK, HistoryTypeOK, Attempt
  <2> QED
    BY <2>1, <1>3 DEF IInv, Send, AckedHasNoDraft
<1>9. NothingVanishes'
  BY <1>1, <1>3 DEF IInv, Send, NothingVanishes, Is, TypeOK, HistoryTypeOK
<1>10. EnqueuedIsUnderway'
  BY <1>2, <1>3 DEF IInv, Send, EnqueuedIsUnderway, Is, Queued, Underway
<1> QED
  BY <1>4, <1>5, <1>6, <1>7, <1>8, <1>9, <1>10 DEF IInv

LEMMA RetryStep == ASSUME IInv, NEW p \in Post, Retry(p) PROVE IInv'
<1>1. Enqueue(p, "send") /\ TypeOK
  BY DEF Retry, IInv
<1>2. /\ queue' \in Seq(Attempt) /\ woken' \in BOOLEAN /\ sends' \in 0 .. MaxSends
      /\ \A i \in DOMAIN queue' : \/ i \in DOMAIN queue /\ queue'[i] = queue[i]
                                  \/ queue'[i].post = p
      /\ \A i \in DOMAIN queue : i \in DOMAIN queue' /\ queue'[i] = queue[i]
      /\ \E i \in DOMAIN queue' : queue'[i].post = p /\ queue'[i].kind = "send"
  BY <1>1, EnqueueTypes
<1>3. /\ row' \in [Post -> Row]
      /\ \A q \in Post : /\ row'[q].draft = row[q].draft
                         /\ (row'[q].status = "absent") = (row[q].status = "absent")
      /\ \A q \in Post \ {p} : row'[q] = row[q]
  BY <1>1, WrittenRow DEF Retry, TypeOK, DatabaseTypeOK, Status
<1>4. TypeOK'
  BY <1>1, <1>2, <1>3 DEF Retry, net, TypeOK, DatabaseTypeOK, AppTypeOK, NetTypeOK, HistoryTypeOK
<1>5. AllPosted'
  <2>1. p \in posted
    BY DEF Retry, ShownFailed, IInv, AllPosted, Is
  <2> QED
    BY <1>2, <1>3, <2>1 DEF IInv, Retry, net, AllPosted, Taken, Is
<1>6. Evidence'
  BY DEF IInv, Retry, net, Evidence, Taken, PostsOf
<1>7. DraftGoneForGood'
  BY <1>3 DEF IInv, Retry, net, DraftGoneForGood, Taken, PostsOf, Is
<1>8. AckedHasNoDraft'
  BY <1>1, <1>3 DEF IInv, Retry, AckedHasNoDraft, TypeOK, HistoryTypeOK, Attempt
<1>9. NothingVanishes'
  BY <1>1, <1>3 DEF IInv, Retry, NothingVanishes, Is, TypeOK, HistoryTypeOK
<1>10. EnqueuedIsUnderway'
  BY <1>2, <1>3 DEF IInv, Retry, EnqueuedIsUnderway, Is, Queued, Underway
<1> QED
  BY <1>4, <1>5, <1>6, <1>7, <1>8, <1>9, <1>10 DEF IInv

LEMMA RenderedStep == ASSUME IInv, NEW p \in Post, Rendered(p) PROVE IInv'
<1> USE DEF Rendered, app, net
<1>1. TypeOK'
  BY DEF IInv, TypeOK, DatabaseTypeOK, AppTypeOK, NetTypeOK, HistoryTypeOK
<1>2. AllPosted' /\ Evidence' /\ DraftGoneForGood' /\ AckedHasNoDraft'
  BY DEF IInv, AllPosted, Evidence, DraftGoneForGood, AckedHasNoDraft, Taken, PostsOf, Is
<1>3. NothingVanishes' /\ EnqueuedIsUnderway'
  BY DEF IInv, NothingVanishes, EnqueuedIsUnderway, Is, Queued, Underway
<1> QED
  BY <1>1, <1>2, <1>3 DEF IInv

LEMMA RemoveStep == ASSUME IInv, NEW p \in Post, Remove(p) PROVE IInv'
<1> DEFINE m == [att |-> queue'[Len(queue')], was |-> row[p]]
<1>1. Enqueue(p, "delete") /\ TypeOK
  BY DEF Remove, IInv
<1>2. /\ queue' \in Seq(Attempt) /\ woken' \in BOOLEAN /\ sends' \in 0 .. MaxSends
      /\ \A i \in DOMAIN queue' : \/ i \in DOMAIN queue /\ queue'[i] = queue[i]
                                  \/ queue'[i].post = p
      /\ \A i \in DOMAIN queue : i \in DOMAIN queue' /\ queue'[i] = queue[i]
      /\ m.att \in Attempt /\ m.att.post = p /\ m.was = row[p]
      /\ removals' = removals \cup {m}
  <2>1. /\ queue' \in Seq(Attempt) /\ woken' \in BOOLEAN /\ sends' \in 0 .. MaxSends
        /\ \A i \in DOMAIN queue' : \/ i \in DOMAIN queue /\ queue'[i] = queue[i]
                                    \/ queue'[i].post = p
        /\ \A i \in DOMAIN queue : i \in DOMAIN queue' /\ queue'[i] = queue[i]
        /\ queue'[Len(queue')] \in Attempt /\ queue'[Len(queue')].post = p
    BY <1>1, EnqueueTypes
  <2>2. removals' = removals \cup {m}
    BY DEF Remove
  <2> QED
    BY <2>1, <2>2
<1>3. /\ row' \in [Post -> Row] /\ m.was \in Row
      /\ \A q \in Post : row'[q].draft = row[q].draft /\ row'[q].status = row[q].status
  BY <1>1 DEF Remove, TypeOK, DatabaseTypeOK, Row
<1> HIDE DEF m
<1>4. TypeOK'
  BY <1>1, <1>2, <1>3 DEF Remove, net, TypeOK, DatabaseTypeOK, AppTypeOK, NetTypeOK, HistoryTypeOK
<1>5. AllPosted'
  <2>1. p \in posted
    BY DEF Remove, IInv, AllPosted
  <2> QED
    BY <1>2, <1>3, <2>1 DEF IInv, Remove, net, AllPosted, Taken, Is
<1>6. Evidence'
  <2>1. row[p].status # "absent"
    BY DEF Remove, Is
  <2>2. ~row[p].draft => p \in PostsOf(Taken)
    BY <2>1 DEF IInv, DraftGoneForGood, Is
  <2> QED
    BY <1>2, <2>1, <2>2 DEF IInv, Remove, net, Evidence, Taken, PostsOf
<1>7. DraftGoneForGood' /\ NothingVanishes' /\ AckedHasNoDraft'
  BY <1>3, WriteKeeps DEF Remove, net
<1>8. EnqueuedIsUnderway'
  BY <1>2, <1>3 DEF IInv, Remove, EnqueuedIsUnderway, Is, Queued, Underway
<1> QED
  BY <1>4, <1>5, <1>6, <1>7, <1>8 DEF IInv

LEMMA HideFailedStep == ASSUME IInv, NEW p \in Post, HideFailed(p) PROVE IInv'
<1> USE DEF HideFailed, app, net
<1>1. /\ row' \in [Post -> Row]
      /\ \A q \in Post : row'[q].draft = row[q].draft /\ row'[q].status = row[q].status
  BY DEF IInv, TypeOK, DatabaseTypeOK, Row
<1>2. TypeOK'
  BY <1>1 DEF IInv, TypeOK, DatabaseTypeOK, AppTypeOK, NetTypeOK, HistoryTypeOK
<1>3. AllPosted' /\ Evidence'
  BY <1>1 DEF IInv, AllPosted, Evidence, Taken, PostsOf, Is
<1>4. DraftGoneForGood' /\ NothingVanishes' /\ AckedHasNoDraft'
  BY <1>1, WriteKeeps
<1>5. EnqueuedIsUnderway'
  BY <1>1 DEF IInv, EnqueuedIsUnderway, Is, Queued, Underway
<1> QED
  BY <1>2, <1>3, <1>4, <1>5 DEF IInv

LEMMA ClearUnsentStep == ASSUME IInv, NEW p \in Post, ClearUnsent(p) PROVE IInv'
<1>1. /\ row' \in [Post -> Row]
      /\ row'[p] = Absent
      /\ \A q \in Post \ {p} : row'[q] = row[q]
  BY DEF IInv, ClearUnsent, TypeOK, DatabaseTypeOK, Row, Status, Absent
<1>2. TypeOK'
  BY <1>1 DEF IInv, ClearUnsent, app, net, TypeOK, DatabaseTypeOK, AppTypeOK, NetTypeOK,
              HistoryTypeOK
<1>3. AllPosted' /\ Evidence'
  BY <1>1 DEF IInv, ClearUnsent, app, net, AllPosted, Evidence, Taken, PostsOf, Is, Absent
<1>4. DraftGoneForGood'
  BY <1>1 DEF IInv, ClearUnsent, net, DraftGoneForGood, Taken, PostsOf, Is, Absent
<1>5. AckedHasNoDraft'
  BY <1>1 DEF IInv, ClearUnsent, AckedHasNoDraft, Absent, TypeOK, HistoryTypeOK, Attempt
<1>6. NothingVanishes'
  BY <1>1 DEF IInv, ClearUnsent, NothingVanishes, Is, TypeOK, HistoryTypeOK
<1>7. EnqueuedIsUnderway'
  BY <1>1 DEF IInv, ClearUnsent, app, EnqueuedIsUnderway, Is, Absent, Queued, Underway
<1> QED
  BY <1>2, <1>3, <1>4, <1>5, <1>6, <1>7 DEF IInv

LEMMA FlushStep == ASSUME IInv, FlushPending PROVE IInv'
<1> USE DEF FlushPending, net
<1>1. CASE ~MayTakeNext
  <2>1. TypeOK'
    BY <1>1 DEF IInv, TypeOK, DatabaseTypeOK, AppTypeOK, NetTypeOK, HistoryTypeOK
  <2>2. AllPosted' /\ Evidence' /\ DraftGoneForGood' /\ AckedHasNoDraft'
    BY <1>1 DEF IInv, AllPosted, Evidence, DraftGoneForGood, AckedHasNoDraft, Taken, PostsOf, Is
  <2>3. NothingVanishes' /\ EnqueuedIsUnderway'
    BY <1>1 DEF IInv, NothingVanishes, EnqueuedIsUnderway, Is, Queued, Underway
  <2> QED
    BY <2>1, <2>2, <2>3 DEF IInv
<1>2. CASE MayTakeNext
  <2> DEFINE x == [att |-> Head(queue), phase |-> PhaseOf(Head(queue))]
  <2>1. running' = running \cup {x} /\ queue' = Tail(queue) /\ queue # <<>>
    BY <1>2 DEF MayTakeNext
  <2>2. queue \in Seq(Attempt)
    BY DEF IInv, TypeOK, AppTypeOK
  <2>3. /\ Head(queue) \in Attempt /\ queue' \in Seq(Attempt)
        /\ \E j \in DOMAIN queue : Head(queue) = queue[j]
        /\ \A i \in DOMAIN queue' : \E j \in DOMAIN queue : queue'[i] = queue[j]
        /\ \A j \in DOMAIN queue : \/ queue[j] = Head(queue)
                                  \/ \E i \in DOMAIN queue' : queue'[i] = queue[j]
    BY <2>1, <2>2, TailEntries
  <2>8. /\ x \in [att : Attempt, phase : {"finalizing", "poked", "removing"}]
        /\ x.att = Head(queue) /\ (x.att.kind = "send" => x.phase = "finalizing")
    BY <2>3 DEF PhaseOf
  <2>4. TypeOK'
    BY <2>1, <2>3, <2>8 DEF IInv, TypeOK, DatabaseTypeOK, AppTypeOK, NetTypeOK, HistoryTypeOK
  <2>5. AllPosted'
    BY <2>1, <2>3 DEF IInv, AllPosted, Taken, Is
  <2>6. Evidence' /\ DraftGoneForGood' /\ AckedHasNoDraft' /\ NothingVanishes'
    BY DEF IInv, Evidence, DraftGoneForGood, AckedHasNoDraft, NothingVanishes, Taken, PostsOf, Is
  <2>7. EnqueuedIsUnderway'
    <3> SUFFICES ASSUME NEW p \in Post, Is(p, {"enqueued"})
                 PROVE  Queued(p)' \/ Underway(p)' \/ fresh \/ p \in failing \/ p \in restored
      BY DEF EnqueuedIsUnderway, Is
    <3>1. Queued(p) \/ Underway(p) \/ fresh \/ p \in failing \/ p \in restored
      BY DEF IInv, EnqueuedIsUnderway
    <3>2. Underway(p) => Underway(p)'
      BY <2>1 DEF Underway
    <3>3. Queued(p) => Queued(p)' \/ Underway(p)'
      <4> SUFFICES ASSUME NEW j \in DOMAIN queue, queue[j].post = p, queue[j].kind = "send"
                   PROVE  Queued(p)' \/ Underway(p)'
        BY DEF Queued
      <4>1. CASE queue[j] = Head(queue)
        BY <4>1, <2>1, <2>8 DEF Underway
      <4>2. CASE \E i \in DOMAIN queue' : queue'[i] = queue[j]
        BY <4>2 DEF Queued
      <4> QED
        BY <4>1, <4>2, <2>3
    <3> QED
      BY <3>1, <3>2, <3>3
  <2> QED
    BY <2>4, <2>5, <2>6, <2>7 DEF IInv
<1> QED
  BY <1>1, <1>2

LEMMA SendPokeStep == ASSUME IInv, NEW x \in running, SendPoke(x) PROVE IInv'
<1> DEFINE y == [x EXCEPT !.phase = "poked"]
<1>1. /\ x \in [att : Attempt, phase : {"finalizing", "poked", "removing"}]
      /\ x.att \in Attempt /\ x.att.post \in Post
      /\ y \in [att : Attempt, phase : {"finalizing", "poked", "removing"}] /\ y.att = x.att
  BY DEF IInv, TypeOK, AppTypeOK, Attempt
<1>2. /\ running' = (running \ {x}) \cup {y}
      /\ wire' = wire \cup {x.att}
  BY DEF SendPoke
<1>3. /\ row' \in [Post -> Row]
      /\ \A q \in Post : /\ row'[q].draft = row[q].draft
                         /\ (row'[q].status = "absent") = (row[q].status = "absent")
      /\ \A q \in Post \ {x.att.post} : row'[q] = row[q]
  BY <1>1, WrittenRow DEF IInv, SendPoke, TypeOK, DatabaseTypeOK, Status
<1>10. row'[x.att.post].status # "enqueued"
  BY <1>1 DEF IInv, TypeOK, DatabaseTypeOK, SendPoke, Written, Is, Row
<1>4. TypeOK'
  BY <1>1, <1>2, <1>3 DEF IInv, SendPoke, TypeOK, DatabaseTypeOK, AppTypeOK, NetTypeOK,
                          HistoryTypeOK
<1>5. AllPosted'
  BY <1>1, <1>2, <1>3 DEF IInv, SendPoke, AllPosted, Taken, Is
<1>6. Evidence'
  BY DEF IInv, SendPoke, Evidence, Taken, PostsOf
<1>7. DraftGoneForGood' /\ NothingVanishes'
  BY <1>3 DEF IInv, SendPoke, DraftGoneForGood, NothingVanishes, Taken, PostsOf, Is, TypeOK,
              HistoryTypeOK
<1>8. AckedHasNoDraft'
  BY <1>3 DEF IInv, SendPoke, AckedHasNoDraft, TypeOK, HistoryTypeOK, Attempt
<1>9. EnqueuedIsUnderway'
  <2> SUFFICES ASSUME NEW q \in Post, row'[q].status = "enqueued"
               PROVE  Queued(q)' \/ Underway(q)' \/ fresh' \/ q \in failing' \/ q \in restored'
    BY DEF EnqueuedIsUnderway, Is
  <2>1. q # x.att.post /\ Is(q, {"enqueued"})
    BY <1>3, <1>10 DEF Is
  <2>2. Queued(q) \/ Underway(q) \/ fresh \/ q \in failing \/ q \in restored
    BY <2>1 DEF IInv, EnqueuedIsUnderway
  <2>3. Underway(q) => Underway(q)'
    BY <1>2, <2>1 DEF SendPoke, Underway
  <2>4. Queued(q) => Queued(q)'
    BY DEF SendPoke, Queued
  <2> QED
    BY <2>2, <2>3, <2>4 DEF SendPoke
<1> QED
  BY <1>4, <1>5, <1>6, <1>7, <1>8, <1>9 DEF IInv

(* An action ends, one way or another. *)
LEMMA EndsStep ==
    ASSUME IInv, NEW x \in running, NEW outcome \in {"ok", "doubt", "failed", "refused"}, Ends(x, outcome),
           outcome = "ok" => x.att \in Taken,
           x.phase = "finalizing" => outcome = "failed"
    PROVE  IInv'
<1> DEFINE y == [att |-> x.att, outcome |-> outcome]
<1>1. /\ x.att \in Attempt
      /\ y \in [att : Attempt, outcome : {"ok", "doubt", "failed", "refused"}]
  BY DEF IInv, TypeOK, AppTypeOK
<1>2. running' = running \ {x} /\ settling' = settling \cup {y}
  BY DEF Ends
<1>3. TypeOK'
  BY <1>1, <1>2 DEF IInv, Ends, net, TypeOK, DatabaseTypeOK, AppTypeOK, NetTypeOK, HistoryTypeOK
<1>4. AllPosted' /\ Evidence'
  BY <1>2 DEF IInv, Ends, net, AllPosted, Evidence, Taken, PostsOf, Is
<1>5. DraftGoneForGood' /\ NothingVanishes' /\ AckedHasNoDraft'
  BY DEF IInv, Ends, net, DraftGoneForGood, NothingVanishes, AckedHasNoDraft, Taken, PostsOf, Is
<1>6. EnqueuedIsUnderway'
  <2> SUFFICES ASSUME NEW q \in Post, Is(q, {"enqueued"})
               PROVE  Queued(q)' \/ Underway(q)' \/ fresh' \/ q \in failing' \/ q \in restored'
    BY DEF EnqueuedIsUnderway, Is, Ends
  <2>1. Queued(q) \/ Underway(q) \/ fresh \/ q \in failing \/ q \in restored
    BY DEF IInv, EnqueuedIsUnderway
  <2>2. y \in settling' /\ y.att = x.att /\ y.outcome = outcome
    BY <1>2
  <2>3. Underway(q) => Underway(q)'
    BY <1>2, <2>2 DEF Underway
  <2>4. Queued(q) => Queued(q)'
    BY DEF Ends, Queued
  <2> QED
    BY <2>1, <2>3, <2>4 DEF Ends
<1> QED
  BY <1>3, <1>4, <1>5, <1>6 DEF IInv

(* The delete is done: nothing of it is left. *)
LEMMA RemovalAckedStep == ASSUME IInv, NEW x \in running, RemovalAcked(x) PROVE IInv'
<1> USE DEF RemovalAcked, net
<1>1. TypeOK'
  BY DEF IInv, TypeOK, DatabaseTypeOK, AppTypeOK, NetTypeOK, HistoryTypeOK
<1>2. AllPosted' /\ Evidence' /\ DraftGoneForGood' /\ AckedHasNoDraft' /\ NothingVanishes'
  BY DEF IInv, AllPosted, Evidence, DraftGoneForGood, AckedHasNoDraft, NothingVanishes, Taken,
         PostsOf, Is
<1>3. EnqueuedIsUnderway'
  BY DEF IInv, EnqueuedIsUnderway, Is, Queued, Underway
<1> QED
  BY <1>1, <1>2, <1>3 DEF IInv

(* A rollback either changes nothing of the delivery, or its post is noted. *)
LEMMA RollBackStep == ASSUME IInv, NEW x \in settling, RollBack(x) PROVE IInv'
<1> DEFINE p == x.att.post
<1>1. PICK m \in removals :
         /\ m.att = x.att
         /\ removals' = removals \ {m}
         /\ row' = RolledBack(p, m.was)
         /\ restored' = IF Delivery(row'[p]) = Delivery(row[p]) THEN restored
                        ELSE restored \cup {p}
  BY DEF RollBack
<1>2. /\ x.outcome = "refused" /\ settling' = settling \ {x}
      /\ p \in Post /\ m.was \in Row /\ row \in [Post -> Row]
      /\ m.was.status # "absent"
      /\ ~m.was.draft => p \in PostsOf(Taken)
  <2>1. x.att \in Attempt /\ m.was \in Row /\ row \in [Post -> Row]
    BY DEF IInv, TypeOK, AppTypeOK, DatabaseTypeOK
  <2>2. m.was.status # "absent" /\ (~m.was.draft => m.att.post \in PostsOf(Taken))
    BY DEF IInv, Evidence
  <2>3. x.outcome = "refused" /\ settling' = settling \ {x}
    BY DEF RollBack
  <2>4. p \in Post
    BY <2>1 DEF Attempt
  <2> QED
    BY <2>1, <2>2, <2>3, <2>4, <1>1
<1>3. /\ row' \in [Post -> Row]
      /\ \A q \in Post \ {p} : row'[q] = row[q]
      /\ row'[p] = row[p] \/ (row[p].status # "absent" /\ row'[p] = m.was)
  BY <1>1, <1>2 DEF RolledBack, Is
<1>4. /\ restored \subseteq restored' /\ restored' \subseteq restored \cup {p}
      /\ \/ p \in restored'
         \/ row'[p].status = row[p].status /\ row'[p].draft = row[p].draft
  BY <1>1 DEF Delivery
<1>5. \A q \in Post : (row'[q].status = "absent") = (row[q].status = "absent")
  BY <1>2, <1>3
<1>6. Taken' = Taken
  BY DEF RollBack, net, Taken
<1>7. TypeOK'
  BY <1>1, <1>2, <1>3, <1>4 DEF IInv, RollBack, net, TypeOK, DatabaseTypeOK, AppTypeOK, NetTypeOK,
                                HistoryTypeOK
<1>8. AllPosted' /\ Evidence'
  BY <1>1, <1>5, <1>6 DEF IInv, RollBack, net, AllPosted, Evidence, Is
<1>9. DraftGoneForGood'
  BY <1>2, <1>3, <1>5, <1>6 DEF IInv, DraftGoneForGood, Is
<1>10. NothingVanishes'
  BY <1>5 DEF IInv, RollBack, NothingVanishes, Is, TypeOK, HistoryTypeOK
<1>11. AckedHasNoDraft'
  BY <1>3, <1>4 DEF IInv, RollBack, AckedHasNoDraft, TypeOK, HistoryTypeOK, Attempt
<1>12. EnqueuedIsUnderway'
  <2> SUFFICES ASSUME NEW q \in Post, row'[q].status = "enqueued"
               PROVE  Queued(q)' \/ Underway(q)' \/ fresh' \/ q \in failing' \/ q \in restored'
    BY DEF EnqueuedIsUnderway, Is
  <2>1. q \in restored' \/ Is(q, {"enqueued"})
    BY <1>3, <1>4 DEF Is
  <2>2. Is(q, {"enqueued"}) =>
           Queued(q) \/ Underway(q) \/ fresh \/ q \in failing \/ q \in restored
    BY DEF IInv, EnqueuedIsUnderway
  <2>3. (Queued(q) => Queued(q)') /\ (Underway(q) => Underway(q)')
    BY <1>2 DEF RollBack, Queued, Underway
  <2> QED
    BY <2>1, <2>2, <2>3, <1>4 DEF RollBack
<1> QED
  BY <1>7, <1>8, <1>9, <1>10, <1>11, <1>12 DEF IInv

LEMMA SettleStep == ASSUME IInv, NEW x \in settling, Settle(x) PROVE IInv'
<1> DEFINE p == x.att.post
<1>1. /\ x \in [att : Attempt, outcome : {"ok", "doubt", "failed", "refused"}]
      /\ x.att \in Attempt /\ p \in Post
      /\ row \in [Post -> Row]
  BY DEF IInv, TypeOK, AppTypeOK, DatabaseTypeOK, Attempt
<1>2. CASE x.outcome = "ok"
  <2>1. /\ row' = [row EXCEPT ![p].draft = FALSE]
        /\ poll' = Polling(ChannelOf(p))
        /\ acked' = acked \cup {x.att}
    BY <1>2 DEF Settle, Delivered
  <2>2. /\ row' \in [Post -> Row] /\ ~row'[p].draft
        /\ \A q \in Post : row'[q].status = row[q].status
        /\ \A q \in Post \ {p} : row'[q] = row[q]
    BY <1>1, <2>1 DEF Row
  <2>3. poll' \in [BOOLEAN -> 0 .. PollTries]
    <3>1. ChannelOf(p) \in BOOLEAN /\ poll \in [BOOLEAN -> 0 .. PollTries]
      BY DEF IInv, TypeOK, AppTypeOK, ChannelOf
    <3> QED
      BY <2>1, <3>1, PollingTypes
  <2>4. p \in PostsOf(Taken)
    BY <1>2 DEF IInv, Evidence, PostsOf
  <2>5. TypeOK'
    BY <1>1, <2>1, <2>2, <2>3 DEF IInv, Settle, net, TypeOK, DatabaseTypeOK, AppTypeOK, NetTypeOK,
                                  HistoryTypeOK
  <2>6. AllPosted' /\ Evidence'
    BY <2>1, <2>2 DEF IInv, Settle, net, AllPosted, Evidence, Taken, PostsOf, Is
  <2>7. DraftGoneForGood' /\ NothingVanishes'
    BY <2>2, <2>4 DEF IInv, Settle, net, DraftGoneForGood, NothingVanishes, Taken, PostsOf, Is,
                      TypeOK, HistoryTypeOK
  <2>8. AckedHasNoDraft'
    BY <2>1, <2>2 DEF IInv, Settle, AckedHasNoDraft, TypeOK, HistoryTypeOK, Attempt
  <2>9. EnqueuedIsUnderway'
    BY <1>2, <2>2 DEF IInv, Settle, EnqueuedIsUnderway, Is, Queued, Underway
  <2> QED
    BY <2>5, <2>6, <2>7, <2>8, <2>9 DEF IInv
<1>3. CASE x.outcome # "ok"
  <2>1. /\ row' \in {Written(p, "needs_verification"), Written(p, "failed")}
        /\ x.outcome = "failed" => row' = Written(p, "failed")
        /\ poll' = poll /\ acked' = acked
    BY <1>3 DEF Settle, Doubtful
  <2>2. /\ row' \in [Post -> Row]
        /\ \A q \in Post : /\ row'[q].draft = row[q].draft
                           /\ (row'[q].status = "absent") = (row[q].status = "absent")
        /\ \A q \in Post \ {p} : row'[q] = row[q]
    BY <1>1, <2>1, WrittenRow DEF Status
  <2>3. row'[p].status # "enqueued"
    BY <1>1, <2>1 DEF Written, Is, Row
  <2>4. TypeOK'
    BY <1>1, <2>1, <2>2 DEF IInv, Settle, net, TypeOK, DatabaseTypeOK, AppTypeOK, NetTypeOK,
                            HistoryTypeOK
  <2>5. AllPosted' /\ Evidence'
    BY <2>1, <2>2 DEF IInv, Settle, net, AllPosted, Evidence, Taken, PostsOf, Is
  <2>6. DraftGoneForGood' /\ NothingVanishes'
    BY <2>2 DEF IInv, Settle, net, DraftGoneForGood, NothingVanishes, Taken, PostsOf, Is, TypeOK,
                HistoryTypeOK
  <2>7. AckedHasNoDraft'
    BY <2>1, <2>2 DEF IInv, Settle, AckedHasNoDraft, TypeOK, HistoryTypeOK, Attempt
  <2>8. EnqueuedIsUnderway'
    BY <2>2, <2>3 DEF IInv, Settle, EnqueuedIsUnderway, Is, Queued, Underway
  <2> QED
    BY <2>4, <2>5, <2>6, <2>7, <2>8 DEF IInv
<1> QED
  BY <1>2, <1>3

(* The ship takes an attempt off the wire. *)
LEMMA TakeStep == ASSUME IInv, NEW a \in wire, Take(a) PROVE IInv'
<1>1. /\ a \in Attempt /\ a.post \in Post /\ a.post \in posted
      /\ log \in Seq(Attempt) /\ log' = Append(log, a)
      /\ facts \in Seq([kind : {"pending", "post"}, post : Post])
  BY DEF IInv, TypeOK, NetTypeOK, AllPosted, Take, Attempt
<1>2. Taken' = Taken \cup {a} /\ PostsOf(Taken') = PostsOf(Taken) \cup {a.post}
  BY <1>1, TakenGrows
<1>3. log' \in Seq(Attempt)
  BY <1>1
<1>4. /\ facts' \in Seq([kind : {"pending", "post"}, post : Post])
      /\ sequenced \subseteq sequenced' /\ sequenced' \subseteq sequenced \cup {a.post}
      /\ \A i \in DOMAIN facts' : facts'[i].kind = "post" => facts'[i].post \in sequenced'
  <2>1. \A i \in DOMAIN facts : facts[i].kind = "post" => facts[i].post \in sequenced
    BY DEF IInv, Evidence
  <2>2. CASE TakeForHost(a)
    <3> DEFINE f == [kind |-> "pending", post |-> a.post]
    <3>1. f \in [kind : {"pending", "post"}, post : Post] /\ f.kind # "post"
      BY <1>1
    <3>2. facts' = Append(facts, f) /\ sequenced' = sequenced
      BY <2>2 DEF TakeForHost, Emitted
    <3>3. /\ facts' \in Seq([kind : {"pending", "post"}, post : Post])
          /\ \A i \in DOMAIN facts' : (i \in DOMAIN facts /\ facts'[i] = facts[i]) \/ facts'[i] = f
      BY <1>1, <3>1, <3>2, AppendEntries
    <3> QED
      BY <2>1, <3>1, <3>2, <3>3
  <2>3. CASE TakeDm(a)
    <3> DEFINE f == [kind |-> "post", post |-> a.post]
    <3>1. f \in [kind : {"pending", "post"}, post : Post] /\ f.post = a.post
      BY <1>1
    <3>2. facts' \in {facts, Append(facts, f)} /\ sequenced' = sequenced \cup {a.post}
      BY <2>3 DEF TakeDm, Emitted
    <3>3. /\ Append(facts, f) \in Seq([kind : {"pending", "post"}, post : Post])
          /\ \A i \in DOMAIN Append(facts, f) :
                (i \in DOMAIN facts /\ Append(facts, f)[i] = facts[i]) \/ Append(facts, f)[i] = f
      BY <1>1, <3>1, AppendEntries
    <3> QED
      BY <1>1, <2>1, <3>1, <3>2, <3>3
  <2> QED
    BY <2>2, <2>3 DEF Take
<1>5. TypeOK'
  BY <1>1, <1>3, <1>4 DEF IInv, Take, app, TypeOK, DatabaseTypeOK, AppTypeOK, NetTypeOK,
                          HistoryTypeOK
<1>6. AllPosted'
  BY <1>1, <1>2 DEF IInv, Take, app, AllPosted, Is
<1>7. Evidence'
  BY <1>2, <1>4 DEF IInv, Take, app, Evidence
<1>8. DraftGoneForGood' /\ NothingVanishes' /\ AckedHasNoDraft'
  BY <1>2 DEF IInv, Take, DraftGoneForGood, NothingVanishes, AckedHasNoDraft, Is
<1>9. EnqueuedIsUnderway'
  BY DEF IInv, Take, app, EnqueuedIsUnderway, Is, Queued, Underway
<1> QED
  BY <1>5, <1>6, <1>7, <1>8, <1>9 DEF IInv

LEMMA LoseStep == ASSUME IInv, NEW a \in wire, Lose(a) PROVE IInv'
<1> USE DEF Lose, app
<1>1. TypeOK'
  BY DEF IInv, TypeOK, DatabaseTypeOK, AppTypeOK, NetTypeOK, HistoryTypeOK
<1>2. AllPosted' /\ Evidence' /\ DraftGoneForGood' /\ AckedHasNoDraft'
  BY DEF IInv, AllPosted, Evidence, DraftGoneForGood, AckedHasNoDraft, Taken, PostsOf, Is
<1>3. NothingVanishes' /\ EnqueuedIsUnderway'
  BY DEF IInv, NothingVanishes, EnqueuedIsUnderway, Is, Queued, Underway
<1> QED
  BY <1>1, <1>2, <1>3 DEF IInv

LEMMA HostSequencesStep == ASSUME IInv, NEW p \in Post, HostSequences(p) PROVE IInv'
<1> DEFINE f == [kind |-> "post", post |-> p]
<1>1. /\ f \in [kind : {"pending", "post"}, post : Post] /\ f.post = p
      /\ facts \in Seq([kind : {"pending", "post"}, post : Post])
      /\ facts' = Append(facts, f) /\ sequenced' = sequenced \cup {p}
      /\ p \in PostsOf(Taken)
  BY DEF IInv, TypeOK, NetTypeOK, HostSequences, Emitted
<1>2. /\ facts' \in Seq([kind : {"pending", "post"}, post : Post])
      /\ \A i \in DOMAIN facts' : (i \in DOMAIN facts /\ facts'[i] = facts[i]) \/ facts'[i] = f
  BY <1>1, AppendEntries
<1>3. TypeOK'
  BY <1>1, <1>2 DEF IInv, HostSequences, app, TypeOK, DatabaseTypeOK, AppTypeOK, NetTypeOK,
                    HistoryTypeOK
<1>4. Taken' = Taken
  BY DEF HostSequences, Taken
<1>5. AllPosted'
  BY <1>4 DEF IInv, HostSequences, app, AllPosted, Is
<1>6. Evidence'
  BY <1>1, <1>2, <1>4 DEF IInv, HostSequences, app, Evidence
<1>7. DraftGoneForGood' /\ NothingVanishes' /\ AckedHasNoDraft'
  BY <1>4 DEF IInv, HostSequences, DraftGoneForGood, NothingVanishes, AckedHasNoDraft, Is
<1>8. EnqueuedIsUnderway'
  BY DEF IInv, HostSequences, app, EnqueuedIsUnderway, Is, Queued, Underway
<1> QED
  BY <1>3, <1>5, <1>6, <1>7, <1>8 DEF IInv

LEMMA HearFactStep == ASSUME IInv, HearFact PROVE IInv'
<1> DEFINE f == Head(facts)
<1>1. /\ facts \in Seq([kind : {"pending", "post"}, post : Post])
      /\ facts # <<>> /\ facts' = Tail(facts)
  BY DEF IInv, TypeOK, NetTypeOK, HearFact
<1>2. /\ f \in [kind : {"pending", "post"}, post : Post]
      /\ facts' \in Seq([kind : {"pending", "post"}, post : Post])
      /\ \E j \in DOMAIN facts : f = facts[j]
      /\ \A i \in DOMAIN facts' : \E j \in DOMAIN facts : facts'[i] = facts[j]
  BY <1>1, TailEntries
<1>3. \A j \in DOMAIN facts : facts[j].kind = "post" => facts[j].post \in sequenced
  BY DEF IInv, Evidence
<1>4. Evidence'
  BY <1>2, <1>3 DEF IInv, HearFact, app, Evidence, Taken, PostsOf
<1>5. CASE f.kind = "pending"
  <2>1. row' = Written(f.post, "sent") /\ copied' = copied
    BY <1>5 DEF HearFact, MarkedSent
  <2>2. /\ row' \in [Post -> Row]
        /\ \A q \in Post : /\ row'[q].draft = row[q].draft
                           /\ (row'[q].status = "absent") = (row[q].status = "absent")
                           /\ row'[q].status \in {row[q].status, "sent"}
    BY <1>2, <2>1, WrittenRow DEF IInv, TypeOK, DatabaseTypeOK, Status
  <2>3. TypeOK'
    BY <1>2, <2>1, <2>2 DEF IInv, HearFact, app, TypeOK, DatabaseTypeOK, AppTypeOK,
                            NetTypeOK, HistoryTypeOK
  <2>4. AllPosted'
    BY <2>2 DEF IInv, HearFact, app, AllPosted, Taken, Is
  <2>5. DraftGoneForGood' /\ NothingVanishes' /\ AckedHasNoDraft'
    BY <2>1, <2>2, WriteKeeps DEF HearFact
  <2>6. EnqueuedIsUnderway'
    BY <2>2 DEF IInv, HearFact, app, EnqueuedIsUnderway, Is, Queued, Underway
  <2> QED
    BY <1>4, <2>3, <2>4, <2>5, <2>6 DEF IInv
<1>6. CASE f.kind = "post"
  <2>1. row' = Inserted({f.post}) /\ copied' = copied \cup {f.post}
    BY <1>6 DEF HearFact
  <2>2. {f.post} \in SUBSET sequenced
    BY <1>2, <1>3, <1>6
  <2>3. /\ DatabaseTypeOK'
        /\ DraftGoneForGood' /\ NothingVanishes' /\ AckedHasNoDraft'
        /\ \A p \in Post : ~Is(p, {"absent"})' => p \in posted
        /\ \A p \in Post : Is(p, {"enqueued"})' => Is(p, {"enqueued"})
    BY <2>1, <2>2, InsertKeeps DEF HearFact
  <2>4. TypeOK'
    BY <1>2, <2>3 DEF IInv, HearFact, app, TypeOK, AppTypeOK, NetTypeOK, HistoryTypeOK
  <2>5. AllPosted'
    BY <2>3 DEF IInv, HearFact, app, AllPosted, Taken
  <2>6. EnqueuedIsUnderway'
    BY <2>3 DEF IInv, HearFact, app, EnqueuedIsUnderway, Queued, Underway
  <2> QED
    BY <1>4, <2>3, <2>4, <2>5, <2>6 DEF IInv
<1> QED
  BY <1>2, <1>5, <1>6

LEMMA PollStep == ASSUME IInv, NEW c \in BOOLEAN, Poll(c) PROVE IInv'
<1> USE DEF net
<1>1. PICK fetched \in {{}, sequenced \cap InChannel(c)} :
          LET got  == IF InFlight(row, copied) \cap InChannel(c) = {} THEN {} ELSE fetched
              rows == Inserted(got)
              left == IF InFlight(rows, copied \cup got) \cap InChannel(c) = {}
                      THEN 0 ELSE poll[c] - 1
          IN  /\ row' = rows
              /\ copied' = copied \cup got
              /\ poll' = [poll EXCEPT ![c] = left]
              /\ stranded' = stranded \cup GivenUp(c, left)
  BY DEF Poll
<1> DEFINE got  == IF InFlight(row, copied) \cap InChannel(c) = {} THEN {} ELSE fetched
           left == IF InFlight(Inserted(got), copied \cup got) \cap InChannel(c) = {}
                   THEN 0 ELSE poll[c] - 1
<1>2. /\ row' = Inserted(got) /\ copied' = copied \cup got
      /\ poll' = [poll EXCEPT ![c] = left]
      /\ stranded' = stranded \cup GivenUp(c, left)
  BY <1>1
<1>3. got \in SUBSET sequenced
  OBVIOUS
<1> HIDE DEF got
<1>4. /\ DatabaseTypeOK'
      /\ DraftGoneForGood' /\ NothingVanishes' /\ AckedHasNoDraft'
      /\ \A p \in Post : ~Is(p, {"absent"})' => p \in posted
      /\ \A p \in Post : Is(p, {"enqueued"})' => Is(p, {"enqueued"})
  BY <1>2, <1>3, InsertKeeps DEF Poll
<1>5. poll' \in [BOOLEAN -> 0 .. PollTries]
  <2>1. poll \in [BOOLEAN -> 0 .. PollTries]
    BY DEF IInv, TypeOK, AppTypeOK
  <2>2. poll[c] \in 0 .. PollTries
    BY <2>1, Zenon
  <2>3. left \in 0 .. PollTries
    BY <2>2, ConstantsAssumption DEF Poll
  <2> HIDE DEF left
  <2> QED
    BY <1>2, <2>1, <2>3, Zenon
<1>6. stranded' \subseteq Post
  BY <1>2 DEF IInv, TypeOK, HistoryTypeOK, GivenUp, InChannel
<1>7. TypeOK'
  BY <1>4, <1>5, <1>6 DEF IInv, Poll, TypeOK, AppTypeOK, NetTypeOK, HistoryTypeOK
<1>8. AllPosted'
  BY <1>4 DEF IInv, Poll, AllPosted, Taken
<1>9. Evidence'
  BY DEF IInv, Poll, Evidence, Taken, PostsOf
<1>10. EnqueuedIsUnderway'
  BY <1>4 DEF IInv, Poll, EnqueuedIsUnderway, Queued, Underway
<1> QED
  BY <1>4, <1>7, <1>8, <1>9, <1>10 DEF IInv

LEMMA VerifyAnsweredStep == ASSUME IInv, NEW v \in verifying, VerifyAnswered(v) PROVE IInv'
<1> USE DEF VerifyAnswered, net
<1>1. v \in [post : Post, answer : {"asked", "found", "missing"}]
  BY DEF IInv, TypeOK, AppTypeOK
<1>2. /\ verifying' \subseteq [post : Post, answer : {"asked", "found", "missing"}]
      /\ \A w \in verifying' : w.answer = "found" => w.post \in sequenced
  <2>1. \A w \in verifying : w.answer = "found" => w.post \in sequenced
    BY DEF IInv, Evidence
  <2>2. verifying \subseteq [post : Post, answer : {"asked", "found", "missing"}]
    BY DEF IInv, TypeOK, AppTypeOK
  <2>3. CASE verifying' = verifying \ {v}
    BY <2>1, <2>2, <2>3
  <2>4. CASE \E answer \in {"missing"} \cup (IF v.post \in sequenced THEN {"found"} ELSE {}) :
                verifying' = (verifying \ {v}) \cup {[v EXCEPT !.answer = answer]}
    <3>1. PICK answer \in {"missing"} \cup (IF v.post \in sequenced THEN {"found"} ELSE {}) :
                verifying' = (verifying \ {v}) \cup {[v EXCEPT !.answer = answer]}
      BY <2>4
    <3> DEFINE w == [v EXCEPT !.answer = answer]
    <3>2. answer \in {"missing", "found"} /\ (answer = "found" => v.post \in sequenced)
      OBVIOUS
    <3>3. /\ w \in [post : Post, answer : {"asked", "found", "missing"}]
          /\ w.answer = answer /\ w.post = v.post
      BY <1>1, <3>2
    <3> HIDE DEF w
    <3>4. verifying' = (verifying \ {v}) \cup {w}
      BY <3>1 DEF w
    <3> QED
      BY <2>1, <2>2, <3>2, <3>3, <3>4
  <2> QED
    BY <2>3, <2>4
<1>3. TypeOK'
  BY <1>2 DEF IInv, TypeOK, DatabaseTypeOK, AppTypeOK, NetTypeOK, HistoryTypeOK
<1>4. Evidence'
  BY <1>2 DEF IInv, Evidence, Taken, PostsOf
<1>5. AllPosted' /\ DraftGoneForGood' /\ AckedHasNoDraft' /\ NothingVanishes'
  BY DEF IInv, AllPosted, DraftGoneForGood, AckedHasNoDraft, NothingVanishes, Taken, PostsOf, Is
<1>6. EnqueuedIsUnderway'
  BY DEF IInv, EnqueuedIsUnderway, Is, Queued, Underway
<1> QED
  BY <1>3, <1>4, <1>5, <1>6 DEF IInv

LEMMA VerifyWritesStep == ASSUME IInv, NEW v \in verifying, VerifyWrites(v) PROVE IInv'
<1>6. /\ log' = log /\ posted' = posted /\ cleared' = cleared /\ acked' = acked
      /\ copied' = copied /\ restored' = restored
  BY DEF VerifyWrites, net
<1>1. /\ v \in [post : Post, answer : {"asked", "found", "missing"}] /\ v.post \in Post
      /\ row \in [Post -> Row]
  BY DEF IInv, TypeOK, AppTypeOK, DatabaseTypeOK
<1>2. /\ row' \in [Post -> Row]
      /\ \A q \in Post : (row'[q].status = "absent") = (row[q].status = "absent")
      /\ \A q \in Post : row'[q].status \in {row[q].status, "failed", "sent"}
      /\ DraftGoneForGood' /\ NothingVanishes' /\ AckedHasNoDraft'
  <2>1. CASE v.answer = "missing"
    <3>1. row' = Written(v.post, "failed")
      BY <2>1 DEF VerifyWrites
    <3>2. /\ row' \in [Post -> Row]
          /\ \A q \in Post : /\ row'[q].draft = row[q].draft
                             /\ (row'[q].status = "absent") = (row[q].status = "absent")
                             /\ row'[q].status \in {row[q].status, "failed"}
      BY <1>1, <3>1, WrittenRow DEF Status
    <3> QED
      BY <1>6, <3>2, WriteKeeps
  <2>2. CASE v.answer = "found"
    <3> DEFINE w == Written(v.post, "sent")
    <3>1. row' = [w EXCEPT ![v.post].draft = FALSE]
      BY <2>2 DEF VerifyWrites
    <3>2. /\ w \in [Post -> Row]
          /\ \A q \in Post : /\ w[q].draft = row[q].draft
                             /\ (w[q].status = "absent") = (row[q].status = "absent")
                             /\ w[q].status \in {row[q].status, "sent"}
      BY <1>1, WrittenRow DEF Status
    <3> HIDE DEF w
    <3>3. /\ row' \in [Post -> Row]
          /\ \A q \in Post : row'[q].status = w[q].status
          /\ \A q \in Post \ {v.post} : row'[q].draft = row[q].draft
          /\ ~row'[v.post].draft
      <4>1. /\ row'[v.post] = [w[v.post] EXCEPT !.draft = FALSE] /\ w[v.post] \in Row
            /\ \A q \in Post \ {v.post} : row'[q] = w[q] /\ w[q] \in Row
            /\ DOMAIN row' = Post /\ row' = [q \in Post |-> row'[q]]
        BY <1>1, <3>1, <3>2
      <4>2. row'[v.post] \in Row /\ row'[v.post].status = w[v.post].status /\ ~row'[v.post].draft
        BY <4>1 DEF Row
      <4>3. row' \in [Post -> Row]
        BY <4>1, <4>2
      <4>4. \A q \in Post \ {v.post} : row'[q].status = w[q].status /\ row'[q].draft = row[q].draft
        BY <3>2, <4>1
      <4> QED
        BY <4>2, <4>3, <4>4
    <3>4. v.post \in PostsOf(Taken)
      BY <2>2 DEF IInv, Evidence
    <3>8. Taken' = Taken
      BY <1>6 DEF Taken
    <3>5. DraftGoneForGood'
      <4> SUFFICES ASSUME NEW q \in Post, row'[q].status # "absent", ~row'[q].draft
                   PROVE  q \in PostsOf(Taken)
        BY <3>8 DEF DraftGoneForGood, Is
      <4> QED
        BY <3>2, <3>3, <3>4 DEF IInv, DraftGoneForGood, Is
    <3>6. NothingVanishes'
      BY <1>6, <3>2, <3>3 DEF IInv, TypeOK, HistoryTypeOK, NothingVanishes, Is
    <3>7. AckedHasNoDraft'
      BY <1>6, <3>2, <3>3 DEF IInv, TypeOK, HistoryTypeOK, AckedHasNoDraft, Attempt
    <3> QED
      BY <3>2, <3>3, <3>5, <3>6, <3>7
  <2>3. v.answer \in {"missing", "found"}
    BY <1>1 DEF VerifyWrites
  <2> QED
    BY <2>1, <2>2, <2>3
<1>3. TypeOK'
  BY <1>2 DEF IInv, VerifyWrites, net, TypeOK, DatabaseTypeOK, AppTypeOK, NetTypeOK, HistoryTypeOK
<1>4. AllPosted' /\ Evidence'
  BY <1>2 DEF IInv, VerifyWrites, net, AllPosted, Evidence, Taken, PostsOf, Is
<1>5. EnqueuedIsUnderway'
  BY <1>2 DEF IInv, VerifyWrites, EnqueuedIsUnderway, Is, Queued, Underway
<1> QED
  BY <1>2, <1>3, <1>4, <1>5 DEF IInv

LEMMA SyncEndsStep == ASSUME IInv, SyncEnds PROVE IInv'
<1> USE DEF SyncEnds, net
<1>1. budget' \in [drops : Nat, restarts : Nat, syncs : Nat]
  <2>1. budget \in [drops : Nat, restarts : Nat, syncs : Nat]
    BY DEF IInv, TypeOK, HistoryTypeOK
  <2> QED
    BY <2>1 DEF Spend
<1>2. TypeOK'
  BY <1>1 DEF IInv, TypeOK, DatabaseTypeOK, AppTypeOK, NetTypeOK, HistoryTypeOK, Enqueued
<1>3. AllPosted' /\ Evidence' /\ DraftGoneForGood' /\ AckedHasNoDraft' /\ NothingVanishes'
  BY DEF IInv, AllPosted, Evidence, DraftGoneForGood, AckedHasNoDraft, NothingVanishes, Taken,
         PostsOf, Is
<1>4. EnqueuedIsUnderway'
  BY DEF IInv, EnqueuedIsUnderway, Enqueued, Is, Queued, Underway
<1> QED
  BY <1>2, <1>3, <1>4 DEF IInv

LEMMA FailEnqueuedStep == ASSUME IInv, NEW p \in Post, FailEnqueued(p) PROVE IInv'
<1> USE DEF FailEnqueued, net
<1>1. /\ row' \in [Post -> Row]
      /\ \A q \in Post : /\ row'[q].draft = row[q].draft
                         /\ (row'[q].status = "absent") = (row[q].status = "absent")
      /\ \A q \in Post \ {p} : row'[q] = row[q]
      /\ row'[p].status # "enqueued"
  <2>1. row \in [Post -> Row] /\ row' = Written(p, "failed")
    BY DEF IInv, TypeOK, DatabaseTypeOK
  <2>2. row'[p].status # "enqueued"
    BY <2>1 DEF Written, Is, Row
  <2> QED
    BY <2>1, <2>2, WrittenRow DEF Status
<1>2. TypeOK'
  BY <1>1 DEF IInv, TypeOK, DatabaseTypeOK, AppTypeOK, NetTypeOK, HistoryTypeOK
<1>3. AllPosted' /\ Evidence'
  BY <1>1 DEF IInv, AllPosted, Evidence, Taken, PostsOf, Is
<1>4. DraftGoneForGood' /\ NothingVanishes' /\ AckedHasNoDraft'
  BY <1>1, WriteKeeps
<1>5. EnqueuedIsUnderway'
  BY <1>1 DEF IInv, EnqueuedIsUnderway, Is, Queued, Underway
<1> QED
  BY <1>2, <1>3, <1>4, <1>5 DEF IInv

LEMMA GoUpStep == ASSUME IInv, GoUp PROVE IInv'
<1> USE DEF net
<1>1. CASE GoActive
  <2> USE <1>1 DEF GoActive
  <2> DEFINE asked == {[post |-> p, answer |-> "asked"] :
                          p \in {q \in Post : Is(q, {"needs_verification"})}}
  <2>1. /\ verifying' = verifying \cup asked
        /\ asked \subseteq [post : Post, answer : {"asked", "found", "missing"}]
        /\ \A v \in asked : v.answer = "asked"
    OBVIOUS
  <2> HIDE DEF asked
  <2>2. TypeOK'
    BY <2>1 DEF IInv, TypeOK, DatabaseTypeOK, AppTypeOK, NetTypeOK, HistoryTypeOK, OnSession, Up
  <2>3. Evidence'
    BY <2>1 DEF IInv, Evidence, Taken, PostsOf
  <2>4. AllPosted' /\ DraftGoneForGood' /\ AckedHasNoDraft' /\ NothingVanishes'
    BY DEF IInv, AllPosted, DraftGoneForGood, AckedHasNoDraft, NothingVanishes, Taken, PostsOf, Is
  <2>5. EnqueuedIsUnderway'
    BY DEF IInv, EnqueuedIsUnderway, Is, Queued, Underway
  <2> QED
    BY <2>2, <2>3, <2>4, <2>5 DEF IInv
<1>2. CASE GoReconnected
  <2> USE <1>2 DEF GoReconnected
  <2>1. TypeOK'
    BY DEF IInv, TypeOK, DatabaseTypeOK, AppTypeOK, NetTypeOK, HistoryTypeOK, OnSession, Up
  <2>2. AllPosted' /\ Evidence' /\ DraftGoneForGood' /\ AckedHasNoDraft' /\ NothingVanishes'
    BY DEF IInv, AllPosted, Evidence, DraftGoneForGood, AckedHasNoDraft, NothingVanishes, Taken,
           PostsOf, Is
  <2>3. EnqueuedIsUnderway'
    BY DEF IInv, EnqueuedIsUnderway, Is, Queued, Underway
  <2> QED
    BY <2>1, <2>2, <2>3 DEF IInv
<1> QED
  BY <1>1, <1>2 DEF GoUp

LEMMA DropStep == ASSUME IInv, Drop PROVE IInv'
<1> USE DEF Drop, net
<1>1. budget' \in [drops : Nat, restarts : Nat, syncs : Nat]
  BY DEF IInv, TypeOK, HistoryTypeOK, Spend
<1>2. TypeOK'
  BY <1>1 DEF IInv, TypeOK, DatabaseTypeOK, AppTypeOK, NetTypeOK, HistoryTypeOK
<1>3. AllPosted' /\ Evidence' /\ DraftGoneForGood' /\ AckedHasNoDraft' /\ NothingVanishes'
  BY DEF IInv, AllPosted, Evidence, DraftGoneForGood, AckedHasNoDraft, NothingVanishes, Taken,
         PostsOf, Is
<1>4. EnqueuedIsUnderway'
  BY DEF IInv, EnqueuedIsUnderway, Is, Queued, Underway
<1> QED
  BY <1>2, <1>3, <1>4 DEF IInv

LEMMA RestartStep == ASSUME IInv, Restart PROVE IInv'
<1> USE DEF Restart
<1>1. /\ budget' \in [drops : Nat, restarts : Nat, syncs : Nat]
      /\ stranded' \subseteq Post
  BY DEF IInv, TypeOK, HistoryTypeOK, Spend
<1>2. AppTypeOK'
  <2>1. 0 \in 0 .. PollTries
    BY ConstantsAssumption
  <2>2. poll' \in [BOOLEAN -> 0 .. PollTries]
    BY <2>1, Zenon
  <2>3. queue' \in Seq(Attempt)
    OBVIOUS
  <2> QED
    BY <2>2, <2>3 DEF AppTypeOK, Up
<1>3. TypeOK'
  BY <1>1, <1>2 DEF IInv, TypeOK, DatabaseTypeOK, NetTypeOK, HistoryTypeOK
<1>4. AllPosted' /\ Evidence' /\ DraftGoneForGood' /\ AckedHasNoDraft' /\ NothingVanishes'
  BY DEF IInv, AllPosted, Evidence, DraftGoneForGood, AckedHasNoDraft, NothingVanishes, Taken,
         PostsOf, Is
<1>5. EnqueuedIsUnderway'
  BY DEF EnqueuedIsUnderway
<1> QED
  BY <1>3, <1>4, <1>5 DEF IInv

LEMMA StutterStep == ASSUME IInv, UNCHANGED vars PROVE IInv'
<1> USE DEF vars, app, net
<1>1. TypeOK'
  BY DEF IInv, TypeOK, DatabaseTypeOK, AppTypeOK, NetTypeOK, HistoryTypeOK
<1>2. AllPosted' /\ Evidence' /\ DraftGoneForGood' /\ AckedHasNoDraft' /\ NothingVanishes'
  BY DEF IInv, AllPosted, Evidence, DraftGoneForGood, AckedHasNoDraft, NothingVanishes, Taken,
         PostsOf, Is
<1>3. EnqueuedIsUnderway'
  BY DEF IInv, EnqueuedIsUnderway, Is, Queued, Underway
<1> QED
  BY <1>1, <1>2, <1>3 DEF IInv

-----------------------------------------------------------------------------
(* The order of the sends. *)

(* Attempts whose acknowledgement the app has, handled or not yet. *)
Confirmed == acked \cup {x.att : x \in {y \in settling : y.outcome = "ok"}}

Current == {x.att : x \in running}
Waiting == {queue[i] : i \in DOMAIN queue}

(* The queue is in order, what runs is older than what waits, and what is *)
(* confirmed is older than both.                                          *)
OldestFirst ==
    /\ \A i, j \in DOMAIN queue : i < j => queue[i].n < queue[j].n
    /\ \A x, y \in running : x = y
    /\ \A a \in Current, i \in DOMAIN queue : a.n < queue[i].n
    /\ \A a \in Confirmed : /\ a \in Taken
                           /\ \A b \in Current \cup Waiting : a.n < b.n
    /\ \A a \in Current \cup Waiting \cup wire \cup Taken : a.n <= sends

(* What has not been poked is nowhere else, and nothing is taken twice. *)
TakenOnce ==
    /\ \A a \in Waiting : a \notin wire \cup Taken
    /\ \A x \in running : x.phase = "finalizing" => x.att \notin wire \cup Taken
    /\ wire \cap Taken = {}
    /\ \A i, j \in DOMAIN log : i # j => log[i] # log[j]

(* Nothing confirmed was taken after what is still awaited, or is newer than *)
(* what was confirmed and taken later.                                       *)
LogOrdered ==
    \A i, j \in DOMAIN log : i < j /\ log[j] \in Confirmed =>
        log[i] \notin Current /\ (log[i] \in Confirmed => log[i].n < log[j].n)

OrderInv == OldestFirst /\ TakenOnce /\ LogOrdered

LEMMA InitOrder == Init => OrderInv
BY DEF Init, OrderInv, OldestFirst, TakenOnce, LogOrdered, Confirmed, Current, Waiting, Taken

(* Where nothing new is queued, run, poked, taken or confirmed the order stays. *)
LEMMA LessKeepsOrder ==
    ASSUME OrderInv, log' = log, sends' = sends, wire' \subseteq wire,
           running' \subseteq running, queue' \in {queue, <<>>}, Confirmed' \subseteq Confirmed
    PROVE  OrderInv'
<1>1. /\ Taken' = Taken /\ Current' \subseteq Current /\ Waiting' \subseteq Waiting
      /\ queue' = queue \/ DOMAIN queue' = {}
  BY DEF Taken, Current, Waiting
<1>2. OldestFirst'
  BY <1>1 DEF OrderInv, OldestFirst
<1>3. TakenOnce'
  BY <1>1 DEF OrderInv, TakenOnce
<1>4. LogOrdered'
  BY <1>1 DEF OrderInv, LogOrdered
<1> QED
  BY <1>2, <1>3, <1>4 DEF OrderInv

(* An attempt that joins the queue is newer than all there are. *)
LEMMA EnqueueKeepsOrder ==
    ASSUME IInv, OrderInv, NEW p \in Post, NEW kind \in {"send", "delete"}, Enqueue(p, kind),
           UNCHANGED <<running, settling, wire, log, acked>>
    PROVE  OrderInv'
<1> DEFINE e == [post |-> p, n |-> sends + 1, kind |-> kind]
<1>1. /\ queue \in Seq(Attempt) /\ queue' = Append(queue, e) /\ sends' = sends + 1
      /\ sends \in Nat /\ e.n = sends + 1 /\ e \in Attempt
  <2>1. sends + 1 \in 1 .. MaxSends /\ sends \in Nat
    BY ConstantsAssumption DEF IInv, TypeOK, HistoryTypeOK, Enqueue
  <2> QED
    BY <2>1 DEF IInv, TypeOK, AppTypeOK, Enqueue, Attempt
<1> HIDE DEF e
<1>2. \A i, j \in DOMAIN queue' : i < j => i \in DOMAIN queue /\ queue'[i] = queue[i]
                                  /\ (queue'[j] = e \/ (j \in DOMAIN queue /\ queue'[j] = queue[j]))
  BY <1>1
<1>3. /\ Taken' = Taken /\ Current' = Current /\ Confirmed' = Confirmed
      /\ Waiting' = Waiting \cup {e}
      /\ \A j \in DOMAIN queue' : queue'[j] = e \/ (j \in DOMAIN queue /\ queue'[j] = queue[j])
  <2>1. /\ \A i \in DOMAIN Append(queue, e) : \/ i \in DOMAIN queue /\ Append(queue, e)[i] = queue[i]
                                             \/ Append(queue, e)[i] = e
        /\ \A i \in DOMAIN queue : i \in DOMAIN Append(queue, e) /\ Append(queue, e)[i] = queue[i]
        /\ \E i \in DOMAIN Append(queue, e) : Append(queue, e)[i] = e
    BY <1>1, AppendEntries
  <2>2. Waiting' = Waiting \cup {e}
    BY <1>1, <2>1 DEF Waiting
  <2> QED
    BY <1>1, <2>1, <2>2 DEF Taken, Current, Confirmed
<1>4. \A a \in Current \cup Waiting \cup wire \cup Taken \cup Confirmed :
         a \in Attempt /\ a.n \in Nat /\ a.n <= sends /\ a.n < e.n /\ a # e
  <2>1. \A a \in Current \cup Waiting \cup wire \cup Taken \cup Confirmed :
           a \in Attempt /\ a.n <= sends
    BY DEF IInv, TypeOK, AppTypeOK, NetTypeOK, HistoryTypeOK, OrderInv, OldestFirst, Current,
           Waiting, Taken
  <2>2. \A a \in Attempt : a.n \in Nat
    BY ConstantsAssumption DEF Attempt
  <2> QED
    BY <2>1, <2>2, <1>1
<1>5. OldestFirst'
  <2>1. \A i, j \in DOMAIN queue' : i < j => queue'[i].n < queue'[j].n
    BY <1>2, <1>4 DEF OrderInv, OldestFirst, Waiting
  <2>2. \A a \in Current', i \in DOMAIN queue' : a.n < queue'[i].n
    BY <1>3, <1>4 DEF OrderInv, OldestFirst
  <2>3. \A a \in Confirmed' : /\ a \in Taken'
                             /\ \A b \in Current' \cup Waiting' : a.n < b.n
    BY <1>3, <1>4 DEF OrderInv, OldestFirst
  <2>4. \A a \in Current' \cup Waiting' \cup wire' \cup Taken' : a.n <= sends'
    BY <1>1, <1>3, <1>4
  <2>5. \A x, y \in running' : x = y
    BY DEF OrderInv, OldestFirst
  <2> QED
    BY <2>1, <2>2, <2>3, <2>4, <2>5 DEF OldestFirst
<1>6. TakenOnce'
  BY <1>3, <1>4 DEF OrderInv, TakenOnce
<1>7. LogOrdered'
  BY <1>3 DEF OrderInv, LogOrdered
<1> QED
  BY <1>5, <1>6, <1>7 DEF OrderInv

LEMMA FlushKeepsOrder == ASSUME IInv, OrderInv, FlushPending PROVE OrderInv'
<1>1. /\ log' = log /\ sends' = sends /\ wire' = wire
  BY DEF FlushPending, net
<1>2. Confirmed' = Confirmed /\ Taken' = Taken
  BY <1>1 DEF FlushPending, Confirmed, Taken
<1>3. CASE ~MayTakeNext
  BY <1>1, <1>2, <1>3, LessKeepsOrder DEF FlushPending
<1>4. CASE MayTakeNext
  <2> DEFINE x == [att |-> Head(queue), phase |-> PhaseOf(Head(queue))]
  <2>1. /\ running = {} /\ running' = {x} /\ queue' = Tail(queue) /\ queue # <<>>
        /\ x.att = Head(queue)
    BY <1>4 DEF MayTakeNext, FlushPending
  <2> HIDE DEF x
  <2>2. queue \in Seq(Attempt)
    BY DEF IInv, TypeOK, AppTypeOK
  <2>3. /\ Current = {} /\ Current' = {Head(queue)}
    BY <2>1 DEF Current
  <2>4. /\ 1 \in DOMAIN queue /\ Head(queue) = queue[1]
        /\ \A i \in DOMAIN queue' : i + 1 \in DOMAIN queue /\ queue'[i] = queue[i + 1] /\ i \in Nat
                                    /\ 1 < i + 1
    BY <2>1, <2>2
  <2>5. Waiting' \subseteq Waiting /\ Head(queue) \in Waiting
    BY <2>4 DEF Waiting
  <2>6. OldestFirst'
    <3>1. \A i, j \in DOMAIN queue' : i < j => queue'[i].n < queue'[j].n
      BY <2>4 DEF OrderInv, OldestFirst
    <3>2. \A i \in DOMAIN queue' : Head(queue).n < queue'[i].n
      BY <2>4 DEF OrderInv, OldestFirst
    <3> QED
      BY <3>1, <3>2, <1>1, <1>2, <2>1, <2>3, <2>5 DEF OrderInv, OldestFirst
  <2>7. TakenOnce'
    BY <1>1, <1>2, <2>1, <2>5 DEF OrderInv, TakenOnce
  <2>8. LogOrdered'
    <3>1. Head(queue) \notin Taken
      BY <2>5 DEF OrderInv, TakenOnce
    <3> QED
      BY <1>1, <1>2, <2>3, <3>1 DEF OrderInv, LogOrdered, Taken
  <2> QED
    BY <2>6, <2>7, <2>8 DEF OrderInv
<1> QED
  BY <1>3, <1>4

LEMMA SendPokeKeepsOrder == ASSUME IInv, OrderInv, NEW x \in running, SendPoke(x) PROVE OrderInv'
<1> DEFINE y == [x EXCEPT !.phase = "poked"]
<1>1. /\ log' = log /\ sends' = sends /\ queue' = queue
      /\ wire' = wire \cup {x.att} /\ x.phase = "finalizing"
      /\ running' = (running \ {x}) \cup {y}
  BY DEF SendPoke
<1>2. y.att = x.att /\ y.phase = "poked"
  BY DEF IInv, TypeOK, AppTypeOK
<1> HIDE DEF y
<1>3. running = {x} /\ running' = {y}
  BY <1>1 DEF OrderInv, OldestFirst
<1>4. /\ Confirmed' = Confirmed /\ Taken' = Taken /\ Waiting' = Waiting /\ Current' = Current
      /\ x.att \in Current
  BY <1>1, <1>2, <1>3 DEF SendPoke, Confirmed, Taken, Waiting, Current
<1>5. OldestFirst'
  BY <1>1, <1>3, <1>4 DEF OrderInv, OldestFirst
<1>6. TakenOnce'
  <2>1. x.att \notin Waiting
    <3>1. x.att.n \in Nat
      BY ConstantsAssumption DEF IInv, TypeOK, AppTypeOK, Attempt
    <3> QED
      BY <1>4, <3>1 DEF OrderInv, OldestFirst, Waiting
  <2> QED
    BY <1>1, <1>2, <1>3, <1>4, <2>1 DEF OrderInv, TakenOnce
<1>7. LogOrdered'
  BY <1>1, <1>4 DEF OrderInv, LogOrdered
<1> QED
  BY <1>5, <1>6, <1>7 DEF OrderInv

(* An acknowledgement is of the one attempt that runs: newer than all that are *)
(* confirmed, older than all that wait.                                        *)
LEMMA AckKeepsOrder == ASSUME IInv, OrderInv, NEW x \in running, PokeAcked(x) PROVE OrderInv'
<1>1. /\ log' = log /\ sends' = sends /\ queue' = queue /\ wire' = wire /\ x.att \in Taken
      /\ running' = running \ {x}
      /\ settling' = settling \cup {[att |-> x.att, outcome |-> "ok"]} /\ acked' = acked
  BY DEF PokeAcked, Ends, net
<1>2. running' = {} /\ Current' = {} /\ x.att \in Current
  BY <1>1 DEF OrderInv, OldestFirst, Current
<1>3. Confirmed' = Confirmed \cup {x.att} /\ Taken' = Taken /\ Waiting' = Waiting
  <2> DEFINE y == [att |-> x.att, outcome |-> "ok"]
  <2>1. settling' = settling \cup {y} /\ y.att = x.att /\ y.outcome = "ok"
    BY <1>1
  <2> HIDE DEF y
  <2>2. Confirmed' = Confirmed \cup {x.att}
    BY <1>1, <2>1 DEF Confirmed
  <2> QED
    BY <1>1, <2>2 DEF Taken, Waiting
<1>4. OldestFirst'
  BY <1>1, <1>2, <1>3 DEF OrderInv, OldestFirst, Waiting
<1>5. TakenOnce'
  BY <1>1, <1>2, <1>3 DEF OrderInv, TakenOnce
<1>6. LogOrdered'
  <2> SUFFICES ASSUME NEW i \in DOMAIN log, NEW j \in DOMAIN log, i < j,
                      log[j] \in Confirmed \cup {x.att}, log[i] \in Confirmed \cup {x.att}
               PROVE  log[i].n < log[j].n
    BY <1>1, <1>2, <1>3 DEF LogOrdered
  <2>1. log[i] # log[j]
    <3>1. i # j
      BY DEF IInv, TypeOK, NetTypeOK
    <3> QED
      BY <3>1 DEF OrderInv, TakenOnce
  <2>2. CASE log[j] \in Confirmed
    BY <1>2, <2>2 DEF OrderInv, LogOrdered
  <2>3. CASE log[j] = x.att
    BY <1>2, <2>1, <2>3 DEF OrderInv, OldestFirst
  <2> QED
    BY <2>2, <2>3
<1> QED
  BY <1>4, <1>5, <1>6 DEF OrderInv

LEMMA TakeKeepsOrder == ASSUME IInv, OrderInv, NEW a \in wire, Take(a) PROVE OrderInv'
<1>1. /\ a \in Attempt /\ log \in Seq(Attempt) /\ log' = Append(log, a)
      /\ wire' = wire \ {a} /\ sends' = sends /\ queue' = queue /\ running' = running
      /\ settling' = settling /\ acked' = acked
  BY DEF IInv, TypeOK, NetTypeOK, Take, app
<1>2. Taken' = Taken \cup {a}
  BY <1>1, TakenGrows
<1>3. /\ Confirmed' = Confirmed /\ Current' = Current /\ Waiting' = Waiting
  BY <1>1 DEF Confirmed, Current, Waiting
<1>4. a \notin Taken /\ a \notin Confirmed
  BY DEF OrderInv, TakenOnce, OldestFirst
<1>5. /\ \A i, j \in DOMAIN log' : i < j => i \in DOMAIN log /\ log'[i] = log[i]
      /\ \A i, j \in DOMAIN log' : i # j => i \in DOMAIN log \/ j \in DOMAIN log
      /\ \A i \in DOMAIN log' : \/ i \in DOMAIN log /\ log'[i] = log[i]
                                \/ i \notin DOMAIN log /\ log'[i] = a
  BY <1>1
<1>6. OldestFirst'
  BY <1>1, <1>2, <1>3 DEF OrderInv, OldestFirst
<1>7. TakenOnce'
  <2>1. \A i, j \in DOMAIN log' : i # j => log'[i] # log'[j]
    BY <1>4, <1>5 DEF OrderInv, TakenOnce, Taken
  <2> QED
    BY <1>1, <1>2, <1>3, <2>1 DEF OrderInv, TakenOnce
<1>8. LogOrdered'
  BY <1>3, <1>4, <1>5 DEF OrderInv, LogOrdered
<1> QED
  BY <1>6, <1>7, <1>8 DEF OrderInv

(* An action that ends without an acknowledgement confirms nothing. *)
LEMMA EndsKeepsOrder ==
    ASSUME OrderInv, NEW x \in running, NEW outcome \in {"doubt", "failed", "refused"},
           Ends(x, outcome)
    PROVE  OrderInv'
<1>1. Confirmed' \subseteq Confirmed
  <2> DEFINE y == [att |-> x.att, outcome |-> outcome]
  <2>1. settling' = settling \cup {y} /\ y.outcome # "ok" /\ acked' = acked
    BY DEF Ends
  <2> HIDE DEF y
  <2> QED
    BY <2>1 DEF Confirmed
<1> QED
  BY <1>1, LessKeepsOrder DEF Ends, net

(* To handle an acknowledgement, or any other end, confirms nothing more. *)
LEMMA SettleKeepsOrder ==
    ASSUME OrderInv, NEW x \in settling, Settle(x) \/ RollBack(x)
    PROVE  OrderInv'
<1>1. Confirmed' \subseteq Confirmed
  <2>1. /\ settling' = settling \ {x}
        /\ acked' = acked \/ (acked' = acked \cup {x.att} /\ x.outcome = "ok")
    BY DEF Settle, RollBack
  <2> QED
    BY <2>1 DEF Confirmed
<1> QED
  BY <1>1, LessKeepsOrder DEF Settle, RollBack, net

LEMMA NextOrder == IInv /\ OrderInv /\ [Next]_vars => OrderInv'
<1> SUFFICES ASSUME IInv, OrderInv, [Next]_vars PROVE OrderInv'
  OBVIOUS
<1>1. ASSUME NEW p \in Post, Send(p) \/ Retry(p) \/ Remove(p) PROVE OrderInv'
  <2>1. PICK kind \in {"send", "delete"} : Enqueue(p, kind)
    BY <1>1 DEF Send, Retry, Remove
  <2> QED
    BY <1>1, <2>1, EnqueueKeepsOrder DEF Send, Retry, Remove, net
<1>2. CASE FlushPending
  BY <1>2, FlushKeepsOrder
<1>3. ASSUME NEW x \in running, SendPoke(x) PROVE OrderInv'
  BY <1>3, SendPokeKeepsOrder
<1>4. ASSUME NEW x \in running, PokeAcked(x) PROVE OrderInv'
  BY <1>4, AckKeepsOrder
<1>5. ASSUME NEW x \in running,
             FinalizeFails(x) \/ PokeFails(x) \/ PokeInDoubt(x) \/ RemovalFails(x)
      PROVE  OrderInv'
  BY <1>5, EndsKeepsOrder DEF FinalizeFails, PokeFails, PokeInDoubt, RemovalFails
<1>6. CASE Settling
  BY <1>6, SettleKeepsOrder DEF Settling
<1>7. ASSUME NEW a \in wire, Take(a) PROVE OrderInv'
  BY <1>7, TakeKeepsOrder
<1>8. ASSUME NEW x \in running, RemovalAcked(x) PROVE OrderInv'
  BY <1>8, LessKeepsOrder DEF RemovalAcked, Confirmed, net
<1>9. ASSUME NEW a \in wire, Lose(a) PROVE OrderInv'
  BY <1>9, LessKeepsOrder DEF Lose, Confirmed, app
<1>10. CASE Restart
  BY <1>10, LessKeepsOrder DEF Restart, Confirmed
<1>11. ASSUME NEW p \in Post, ClearUnsent(p) \/ HideFailed(p) \/ Rendered(p) \/ HostSequences(p)
       PROVE  OrderInv'
  BY <1>11, LessKeepsOrder DEF ClearUnsent, HideFailed, Rendered, HostSequences, Confirmed, app, net
<1>12. CASE HearFact \/ Polls
  BY <1>12, LessKeepsOrder DEF HearFact, Polls, Poll, Confirmed, app, net
<1>13. CASE Verify \/ Failing \/ SyncEnds
  BY <1>13, LessKeepsOrder DEF Verify, VerifyAnswered, VerifyWrites, Failing, FailEnqueued, SyncEnds,
                               Confirmed, net
<1>14. CASE GoUp \/ Drop
  BY <1>14, LessKeepsOrder DEF GoUp, GoActive, GoReconnected, Drop, Confirmed, net
<1>15. CASE UNCHANGED vars
  BY <1>15, LessKeepsOrder DEF vars, app, net, Confirmed
<1> QED
  BY <1>1, <1>2, <1>3, <1>4, <1>5, <1>6, <1>7, <1>8, <1>9, <1>10, <1>11, <1>12, <1>13, <1>14, <1>15
     DEF Next, User, Screen, Action, Answer, Ships

-----------------------------------------------------------------------------
(* The theorems. *)

LEMMA NextIInv == IInv /\ [Next]_vars => IInv'
<1> SUFFICES ASSUME IInv, [Next]_vars PROVE IInv'
  OBVIOUS
<1>1. CASE User
  BY <1>1, SendStep, RetryStep, ClearUnsentStep, RemoveStep, HideFailedStep DEF User
<1>16. CASE Screen
  BY <1>16, RenderedStep DEF Screen
<1>2. CASE FlushPending
  BY <1>2, FlushStep
<1>3. CASE \E x \in running : SendPoke(x)
  BY <1>3, SendPokeStep
<1>17. CASE \E x \in running : RemovalAcked(x)
  BY <1>17, RemovalAckedStep
<1>4. CASE \E x \in running : \/ FinalizeFails(x) \/ PokeAcked(x) \/ PokeFails(x)
                              \/ PokeInDoubt(x) \/ RemovalFails(x)
  <2>1. PICK x \in running : \/ FinalizeFails(x) \/ PokeAcked(x) \/ PokeFails(x)
                            \/ PokeInDoubt(x) \/ RemovalFails(x)
    BY <1>4
  <2>2. \/ x.phase = "finalizing" /\ Ends(x, "failed")
        \/ x.phase # "finalizing" /\ x.att \in Taken /\ Ends(x, "ok")
        \/ x.phase # "finalizing" /\ (Ends(x, "failed") \/ Ends(x, "doubt") \/ Ends(x, "refused"))
    BY <2>1 DEF FinalizeFails, PokeAcked, PokeFails, PokeInDoubt, RemovalFails
  <2> QED
    BY <2>2, EndsStep
<1>5. CASE Settling
  BY <1>5, SettleStep, RollBackStep DEF Settling
<1>6. CASE Ships
  BY <1>6, TakeStep, LoseStep, HostSequencesStep DEF Ships
<1>7. CASE HearFact
  BY <1>7, HearFactStep
<1>8. CASE Polls
  BY <1>8, PollStep DEF Polls
<1>9. CASE Verify
  BY <1>9, VerifyAnsweredStep, VerifyWritesStep DEF Verify
<1>10. CASE SyncEnds
  BY <1>10, SyncEndsStep
<1>11. CASE Failing
  BY <1>11, FailEnqueuedStep DEF Failing
<1>12. CASE GoUp
  BY <1>12, GoUpStep
<1>13. CASE Drop
  BY <1>13, DropStep
<1>14. CASE Restart
  BY <1>14, RestartStep
<1>15. CASE UNCHANGED vars
  BY <1>15, StutterStep
<1> QED
  BY <1>1, <1>2, <1>3, <1>4, <1>5, <1>6, <1>7, <1>8, <1>9, <1>10, <1>11, <1>12, <1>13, <1>14,
     <1>15, <1>16, <1>17 DEF Next, Action, Answer

LEMMA Inductive == Spec => []IInv
BY InitIInv, NextIInv, PTL DEF Spec

(* Whatever the messages and the bounds: rows, actions, answers and events stay *)
(* what the app takes them for.                                                 *)
THEOREM TypeCorrect == Spec => []TypeOK
<1>1. IInv => TypeOK
  BY DEF IInv
<1> QED
  BY <1>1, Inductive, PTL

(* A message the user has sent and not removed is never without a row in the   *)
(* database: a row is deleted only when a copy of it is stored in the same step *)
(* (deleteReplacedCachedPosts), or by the user.                                 *)
THEOREM NothingIsLost == Spec => []NothingVanishes
<1>1. IInv => NothingVanishes
  BY DEF IInv
<1> QED
  BY <1>1, Inductive, PTL

(* A failed row is right about whether to retry it.  What drops a draft (an     *)
(* acknowledgement, a verification that found the post) is evidence that the    *)
(* ship has the message, which stays true whatever writes the status after; and *)
(* no write but a rollback brings the draft of an acknowledged message back.    *)
THEOREM FailedIsAsItSays == Spec => []FailedIsRetryable
<1>1. IInv => FailedIsRetryable
  BY DEF IInv, DraftGoneForGood, AckedHasNoDraft, FailedIsRetryable, Is, PostsOf
<1> QED
  BY <1>1, Inductive, PTL

(* A row is enqueued only while an action is queued or at work for it, or the   *)
(* sync that fails such rows is still to end: none waits for nothing, but one   *)
(* that a failed deletePost has put back.                                       *)
THEOREM EnqueuedIsAttended == Spec => []EnqueuedHasSender
<1>1. IInv => EnqueuedHasSender
  <2> SUFFICES ASSUME IInv, NEW p \in Post, Is(p, {"enqueued"})
               PROVE  Queued(p) \/ Behind(p) \/ fresh \/ p \in failing \/ p \in restored
    BY DEF EnqueuedHasSender
  <2>1. Queued(p) \/ Underway(p) \/ fresh \/ p \in failing \/ p \in restored
    BY DEF IInv, EnqueuedIsUnderway
  <2>2. Underway(p) => Behind(p)
    BY DEF Underway, Behind, PostsOf
  <2> QED
    BY <2>1, <2>2
<1> QED
  BY <1>1, Inductive, PTL

(* Acknowledged sends reach the ship in the order of the queue: the queue runs  *)
(* one action at a time, so that what it awaits is newer than all it has        *)
(* confirmed, and what arrives late is not confirmed any more.                  *)
THEOREM SendsKeepTheirOrder == Spec => []AckedInOrder
<1>1. OrderInv => AckedInOrder
  BY DEF OrderInv, LogOrdered, AckedInOrder, Confirmed
<1> QED
  BY <1>1, InitOrder, NextOrder, Inductive, PTL DEF Spec
=============================================================================
