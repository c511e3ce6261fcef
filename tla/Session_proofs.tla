---------------------------- MODULE Session_proofs ----------------------------
(***************************************************************************)
(* Proofs about Session for any requests, any number of accounts, login    *)
(* attempts and expiries.                                                  *)
(***************************************************************************)
EXTENDS Session, FiniteSetTheorems, TLAPS

OneSess   == [epoch : Nat, cookie : Nat, loggingOut : BOOLEAN, pendingAuth : BOOLEAN, chan : Nat,
              channelOpened : BOOLEAN, sse : BOOLEAN, stream : BOOLEAN]
SessType  == [Sessions -> OneSess]
OneReq    == [st : Steps, kind : Kinds \cup {"none"}, s : 0..MaxSession, epoch : Nat, chan : Nat,
              on : Nat, cookie : Nat, again : BOOLEAN, res : {"none", "ok", "403", "guest"}]
LoginType == [s : Sessions, n : {1, 2}, step : {"code", "post", "answered", "backoff"},
              tries : 0..(MaxAttempts - 1), res : {"none", "ok", "400", "401", "4xx", "error"}, cookie : Nat]

-----------------------------------------------------------------------------
(* The inductive invariant.  What a request carries was true of its session   *)
(* when it was sent, and has only aged since: the channel it went out on is    *)
(* the session's or an older one, and its cookie is the session's or one that *)
(* the ship has forgotten.  A refusal is evidence of that.                    *)
Aged(q, sx) ==
    /\ q.st \in OnWire \cup {"done"} /\ q.s # 0 =>
          /\ q.chan <= q.on /\ q.on <= sx[q.s].chan
          /\ q.epoch <= sx[q.s].epoch
    /\ q.st \in OnWire /\ (q.epoch = sx[q.s].epoch \/ q.cookie \in live) => q.cookie = sx[q.s].cookie

Evidence(q) ==
    q.st \in OnWire =>
        /\ q.res = "guest" => q.cookie \notin live
        /\ q.res = "403" /\ q.kind = "scry" => q.cookie \notin live
        /\ q.res = "403" /\ q.kind # "scry" => <<q.s, q.on>> \in refused
        /\ q.st = "answered" => q.res \in {"ok", "403"}
        /\ q.st = "named" => q.res \in {"ok", "guest"}

Owned(q) ==
    /\ q.s <= last /\ q.cookie <= issued
    /\ q.st \in OnWire \cup Waiting => q.s # 0

(* Under which sessions the ship has run request r: a poke that is to be sent  *)
(* again ran under none that is open.                                         *)
Spent(r, q) ==
    \A c \in ran[r] :
        /\ c <= issued
        /\ q.st # "idle" /\ q.kind \in Pokes \cup {"none"}
        /\ c \in live /\ q.st \notin {"done", "failed"} =>
               q.st \in OnWire \ {"wire"} /\ q.res # "403" /\ c = q.cookie

ReqOK(r, q, sx) == Owned(q) /\ Aged(q, sx) /\ Evidence(q) /\ Spent(r, q)

(* A login is made only for a session whose cookie the ship has forgotten. *)
LoginOK(l, sx) ==
    /\ l.s <= last /\ l.cookie <= issued
    /\ sx[l.s].cookie \notin live
    /\ l.step = "post" => l.cookie = sx[l.s].cookie
    /\ l.step = "backoff" => ~LastAttempt(l)

ShipOK ==
    /\ config <= last
    /\ live \subseteq 1..issued
    /\ \A c \in late : c <= issued /\ c \notin live
    /\ \A s \in Sessions : sess[s].cookie <= issued

IInv ==
    /\ TypeOK
    /\ ShipOK
    /\ \A r \in Req : ReqOK(r, req[r], sess)
    /\ \A l \in logins : LoginOK(l, sess)
    /\ OneLogin
    /\ NoNeedlessLogin /\ RunsOnce

-----------------------------------------------------------------------------
(* Types of the parts. *)

LEMMA TypeParts == TypeOK <=> /\ config \in 0..MaxSession /\ last \in 0..MaxSession
                              /\ sess \in SessType /\ logins \subseteq LoginType
                              /\ late \subseteq Nat /\ req \in [Req -> OneReq]
                              /\ live \subseteq Nat /\ issued \in Nat /\ expiries \in Nat
                              /\ needless \in Nat
                              /\ bound \subseteq [s : Sessions, chan : Nat, cookie : Nat]
                              /\ ran \in [Req -> SUBSET Nat] /\ twice \subseteq Req
                              /\ refused \subseteq Sessions \X Nat /\ asked \subseteq Sessions
BY DEF TypeOK, SessType, OneSess, LoginType, OneReq

(* What changes in a session's record, besides its flags: nothing. *)
LEMMA FlagRecord ==
    ASSUME NEW f \in OneSess, NEW w \in {[f EXCEPT !.pendingAuth = TRUE],
                                        [f EXCEPT !.loggingOut = FALSE]}
    PROVE  /\ w \in OneSess /\ w.cookie = f.cookie /\ w.epoch = f.epoch /\ w.chan = f.chan
           /\ w = [f EXCEPT !.pendingAuth = TRUE] => w.pendingAuth = TRUE
           /\ w # [f EXCEPT !.pendingAuth = TRUE] => w.pendingAuth = f.pendingAuth
<1>1. CASE w = [f EXCEPT !.pendingAuth = TRUE]
  BY <1>1 DEF OneSess
<1>2. CASE w = [f EXCEPT !.loggingOut = FALSE]
  BY <1>2 DEF OneSess
<1> QED
  BY <1>1, <1>2

LEMMA ClosedRecord ==
    ASSUME NEW f \in OneSess
    PROVE  LET new == [f EXCEPT !.channelOpened = TRUE, !.stream = FALSE]
           IN  /\ new \in OneSess /\ new.cookie = f.cookie /\ new.epoch = f.epoch
               /\ new.chan = f.chan /\ new.pendingAuth = f.pendingAuth
BY DEF OneSess

LEMMA StreamRecord ==
    ASSUME NEW f \in OneSess, NEW b \in BOOLEAN
    PROVE  LET new == [f EXCEPT !.sse = TRUE, !.channelOpened = TRUE, !.stream = b]
           IN  /\ new \in OneSess /\ new.cookie = f.cookie /\ new.epoch = f.epoch
               /\ new.chan = f.chan /\ new.pendingAuth = f.pendingAuth
BY DEF OneSess

LEMMA LoggingOutOnly ==
    ASSUME NEW sx \in SessType, NEW s \in Sessions
    PROVE  /\ [sx EXCEPT ![s].loggingOut = TRUE] \in SessType
           /\ \A t \in Sessions :
                 /\ [sx EXCEPT ![s].loggingOut = TRUE][t].pendingAuth = sx[t].pendingAuth
                 /\ [sx EXCEPT ![s].loggingOut = TRUE][t].cookie = sx[t].cookie
                 /\ [sx EXCEPT ![s].loggingOut = TRUE][t].epoch = sx[t].epoch
                 /\ [sx EXCEPT ![s].loggingOut = TRUE][t].chan = sx[t].chan
                 /\ t # s => [sx EXCEPT ![s].loggingOut = TRUE][t] = sx[t]
BY DEF SessType, OneSess

LEMMA SecondTyped ==
    ASSUME NEW q \in OneReq
    PROVE  Second(q) \in OneReq /\ Second(q).s = q.s /\ Second(q).kind = q.kind
           /\ Second(q).cookie = q.cookie
BY DEF Second, OneReq

LEMMA EndedTyped == ASSUME NEW st \in {"done", "failed"}
                    PROVE  Ended(st) \in OneReq /\ Ended(st).st = st /\ Ended(st).s = 0
                           /\ Ended(st).kind = "none" /\ Ended(st).cookie = 0
<1>1. st \in Steps /\ "idle" \in Steps /\ 0 \in 0..MaxSession
  BY ConstantsAssumption DEF Steps
<1>2. Idle \in OneReq /\ Idle.kind = "none" /\ Idle.s = 0 /\ Idle.cookie = 0
  BY <1>1 DEF Idle, OneReq
<1> QED
  BY <1>1, <1>2 DEF OneReq, Ended

LEMMA SentTyped ==
    ASSUME NEW q \in OneReq, NEW sx \in SessType, NEW s \in Sessions
    PROVE  /\ SentOver(q, s, sx) \in OneReq
           /\ SentOver(q, s, sx).st = "wire" /\ SentOver(q, s, sx).s = s
           /\ SentOver(q, s, sx).kind = q.kind /\ SentOver(q, s, sx).res = "none"
           /\ SentOver(q, s, sx).epoch = sx[s].epoch /\ SentOver(q, s, sx).cookie = sx[s].cookie
           /\ SentOver(q, s, sx).chan = sx[s].chan /\ SentOver(q, s, sx).on = sx[s].chan
<1>1. "wire" \in Steps /\ s \in 0..MaxSession
  BY ConstantsAssumption DEF Steps, OnWire, Sessions
<1>2. sx[s].epoch \in Nat /\ sx[s].chan \in Nat /\ sx[s].cookie \in Nat
  BY DEF SessType, OneSess
<1>3. SentOver(q, s, sx) =
        [q EXCEPT !.st = "wire", !.s = s, !.epoch = sx[s].epoch, !.chan = sx[s].chan,
                  !.on = sx[s].chan, !.cookie = sx[s].cookie, !.res = "none"]
  BY DEF SentOver
<1> QED
  BY <1>1, <1>2, <1>3 DEF OneReq

LEMMA OpenedTyped ==
    ASSUME NEW q, NEW sx \in SessType, NEW s \in Sessions
    PROVE  /\ Opened(sx, q, s) \in SessType
           /\ \A t \in Sessions : /\ Opened(sx, q, s)[t].epoch = sx[t].epoch
                                  /\ Opened(sx, q, s)[t].cookie = sx[t].cookie
                                  /\ Opened(sx, q, s)[t].loggingOut = sx[t].loggingOut
                                  /\ Opened(sx, q, s)[t].chan = sx[t].chan
                                  /\ Opened(sx, q, s)[t].pendingAuth = sx[t].pendingAuth
BY DEF Opened, SessType, OneSess

LEMMA RotatedRecord ==
    ASSUME NEW f \in OneSess, NEW b \in BOOLEAN
    PROVE  LET new == [f EXCEPT !.chan = f.chan + 1, !.sse = FALSE, !.stream = FALSE,
                             !.channelOpened = b]
           IN  /\ new \in OneSess
               /\ new.epoch = f.epoch /\ new.cookie = f.cookie /\ new.loggingOut = f.loggingOut
               /\ new.pendingAuth = f.pendingAuth /\ new.chan = f.chan + 1
<1>1. f.chan + 1 \in Nat
  BY DEF OneSess
<1> QED
  BY <1>1 DEF OneSess

(* A rotation takes the next channel and changes nothing else of a session. *)
LEMMA RotatedSessIs ==
    ASSUME NEW sx \in SessType, NEW rx, NEW s \in Sessions
    PROVE  /\ RotatedSess(sx, rx, s) \in SessType
           /\ \A t \in Sessions : /\ RotatedSess(sx, rx, s)[t].epoch = sx[t].epoch
                                  /\ RotatedSess(sx, rx, s)[t].cookie = sx[t].cookie
                                  /\ RotatedSess(sx, rx, s)[t].loggingOut = sx[t].loggingOut
                                  /\ RotatedSess(sx, rx, s)[t].pendingAuth = sx[t].pendingAuth
                                  /\ t # s => RotatedSess(sx, rx, s)[t].chan = sx[t].chan
           /\ RotatedSess(sx, rx, s)[s].chan = sx[s].chan + 1
<1> DEFINE o == \E r \in Req : Replayed(r, rx, s)
           new == [sx[s] EXCEPT !.chan = sx[s].chan + 1, !.sse = FALSE, !.stream = FALSE,
                                !.channelOpened = o]
<1>1. o \in BOOLEAN
  OBVIOUS
<1> HIDE DEF o
<1>2. sx[s] \in OneSess
  BY DEF SessType
<1>3. /\ new \in OneSess
      /\ new.epoch = sx[s].epoch /\ new.cookie = sx[s].cookie /\ new.loggingOut = sx[s].loggingOut
      /\ new.pendingAuth = sx[s].pendingAuth /\ new.chan = sx[s].chan + 1
  BY <1>1, <1>2, RotatedRecord
<1>4. RotatedSess(sx, rx, s) = [sx EXCEPT ![s] = new]
  BY DEF RotatedSess, SessType, o
<1> HIDE DEF new
<1> QED
  BY <1>3, <1>4 DEF SessType

(* What a rotation does to a request: a subscription is replayed on the new    *)
(* channel, a poke or a one-shot on the wire ends, the rest stays as it is.   *)
LEMMA RotatedReqIs ==
    ASSUME NEW sx \in SessType, NEW rx \in [Req -> OneReq], NEW s \in Sessions
    PROVE  /\ RotatedReq(sx, rx, s) \in [Req -> OneReq]
           /\ \A r \in Req :
                 LET q == RotatedReq(sx, rx, s)[r]
                 IN  \/ q = rx[r]
                     \/ q = Ended("failed") /\ rx[r].st \in OnWire
                     \/ /\ rx[r].st \in OnWire \cup {"done"} /\ rx[r].kind = "subscribe" /\ rx[r].s = s
                        /\ q.st = "wire" /\ q.kind = "subscribe" /\ q.s = s /\ q.res = "none"
                        /\ q.epoch = rx[r].epoch /\ q.chan = rx[r].chan
                        /\ q.on = sx[s].chan + 1 /\ q.cookie = sx[s].cookie
<1> DEFINE play(r) == [rx[r] EXCEPT !.again = @ \/ rx[r].st = "done", !.st = "wire",
                                    !.on = sx[s].chan + 1, !.cookie = sx[s].cookie, !.res = "none"]
           R == RotatedReq(sx, rx, s)
<1>1. R = [r \in Req |-> IF Replayed(r, rx, s) THEN play(r)
                         ELSE IF rx[r].kind \in {"poke", "once"} /\ rx[r].s = s /\ rx[r].st \in OnWire
                         THEN Ended("failed") ELSE rx[r]]
  BY DEF RotatedReq
<1>2. ASSUME NEW r \in Req, Replayed(r, rx, s)
      PROVE  /\ play(r) \in OneReq
             /\ play(r).st = "wire" /\ play(r).kind = "subscribe" /\ play(r).s = s
             /\ play(r).res = "none" /\ play(r).epoch = rx[r].epoch /\ play(r).chan = rx[r].chan
             /\ play(r).on = sx[s].chan + 1 /\ play(r).cookie = sx[s].cookie
             /\ rx[r].st \in OnWire \cup {"done"} /\ rx[r].kind = "subscribe" /\ rx[r].s = s
  <2>1. rx[r] \in OneReq /\ sx[s].chan + 1 \in Nat /\ sx[s].cookie \in Nat
    BY DEF SessType, OneSess
  <2>2. (rx[r].again \/ rx[r].st = "done") \in BOOLEAN
    OBVIOUS
  <2> QED
    BY <1>2, <2>1, <2>2 DEF OneReq, Replayed, Steps, OnWire
<1> HIDE DEF play
<1>3. Ended("failed") \in OneReq
  BY EndedTyped
<1> QED
  BY <1>1, <1>2, <1>3

-----------------------------------------------------------------------------
(* One request, on the way through a step. *)

(* A session only grows: its channel and its epoch never go back, and its      *)
(* cookie is replaced only by a login, once the ship has forgotten it.        *)
Grows(sx, sy) ==
    \A t \in Sessions :
        /\ sx[t].chan <= sy[t].chan /\ sx[t].epoch <= sy[t].epoch
        /\ \/ sy[t].cookie = sx[t].cookie
           \/ sx[t].epoch < sy[t].epoch /\ sx[t].cookie \notin live

LEMMA AgesWith ==
    ASSUME NEW sx \in SessType, NEW sy \in SessType, Grows(sx, sy),
           NEW r, NEW q \in OneReq, ReqOK(r, q, sx)
    PROVE  ReqOK(r, q, sy)
<1>1. ASSUME q.st \in OnWire \cup {"done"}, q.s # 0
      PROVE  /\ q.chan <= q.on /\ q.on <= sy[q.s].chan
             /\ q.epoch <= sy[q.s].epoch
             /\ q.st \in OnWire /\ (q.epoch = sy[q.s].epoch \/ q.cookie \in live) => q.cookie = sy[q.s].cookie
  <2>1. q.s \in Sessions
    BY <1>1 DEF OneReq, Sessions
  <2> DEFINE f == sx[q.s]  g == sy[q.s]
  <2>2. /\ f \in OneSess /\ g \in OneSess /\ f.chan <= g.chan /\ f.epoch <= g.epoch
        /\ g.cookie = f.cookie \/ (f.epoch < g.epoch /\ f.cookie \notin live)
    BY <2>1 DEF Grows, SessType
  <2>3. /\ q.chan <= q.on /\ q.on <= f.chan /\ q.epoch <= f.epoch
        /\ q.st \in OnWire /\ (q.epoch = f.epoch \/ q.cookie \in live) => q.cookie = f.cookie
    BY <1>1 DEF ReqOK, Aged
  <2> HIDE DEF f, g
  <2>4. q.on <= g.chan /\ q.epoch <= g.epoch
    BY <2>2, <2>3 DEF OneSess, OneReq
  <2>5. q.st \in OnWire /\ (q.epoch = g.epoch \/ q.cookie \in live) => q.cookie = g.cookie
    BY <2>2, <2>3 DEF OneSess, OneReq
  <2> QED
    BY <2>3, <2>4, <2>5 DEF g
<1>2. Aged(q, sy)
  BY <1>1 DEF Aged, ReqOK, Owned
<1> QED
  BY <1>2 DEF ReqOK

(* Nothing under which the ship ran request r is open. *)
MayGo(r, q) == \A c \in ran[r] : c <= issued /\ c \notin live /\ q.kind \in Pokes \cup {"none"}

LEMMA RefusedMayGo ==
    ASSUME NEW r \in Req, NEW q \in OneReq, NEW sx, ReqOK(r, q, sx),
           q.st \in {"answered", "named"}, q.res # "ok"
    PROVE  MayGo(r, q)
BY DEF ReqOK, Evidence, Spent, MayGo, OnWire

LEMMA WaitingMayGo ==
    ASSUME NEW r \in Req, NEW q \in OneReq, NEW sx, ReqOK(r, q, sx), q.st \in Waiting
    PROVE  MayGo(r, q)
BY DEF ReqOK, Spent, MayGo, OnWire, Waiting

LEMMA SentOK ==
    ASSUME NEW r \in Req, NEW q \in OneReq, NEW sx \in SessType, NEW s \in Sessions,
           s <= last, sx[s].cookie <= issued, MayGo(r, q)
    PROVE  ReqOK(r, SentOver(q, s, sx), sx)
<1> DEFINE w == SentOver(q, s, sx)
<1>1. /\ w \in OneReq /\ w.st = "wire" /\ w.s = s /\ w.kind = q.kind /\ w.res = "none"
      /\ w.epoch = sx[s].epoch /\ w.cookie = sx[s].cookie /\ w.chan = sx[s].chan /\ w.on = sx[s].chan
  BY SentTyped
<1>2. s # 0 /\ sx[s].chan <= sx[s].chan /\ sx[s].epoch <= sx[s].epoch
  BY DEF Sessions, SessType, OneSess
<1> HIDE DEF w
<1>3. Owned(w) /\ Aged(w, sx) /\ Evidence(w)
  BY <1>1, <1>2 DEF Owned, Aged, Evidence
<1>4. Spent(r, w)
  BY <1>1 DEF Spent, MayGo
<1> QED
  BY <1>3, <1>4 DEF ReqOK, w

LEMMA EndedOK ==
    ASSUME last \in Nat, issued \in Nat, NEW r \in Req, NEW q, NEW sx, NEW sy, ReqOK(r, q, sx),
           NEW st \in {"done", "failed"}
    PROVE  ReqOK(r, Ended(st), sy)
<1>1. Ended(st).st = st /\ Ended(st).s = 0 /\ Ended(st).kind = "none" /\ Ended(st).cookie = 0
  BY EndedTyped
<1> QED
  BY <1>1 DEF ReqOK, Owned, Aged, Evidence, Spent, OnWire, Waiting

(* A request that starts to wait for a login. *)
LEMMA WaitsOK ==
    ASSUME NEW r \in Req, NEW q \in OneReq, NEW w \in OneReq, NEW sx,
           q.s <= last, q.cookie <= issued, q.s # 0, MayGo(r, q),
           w.st \in Waiting, w.s = q.s, w.cookie = q.cookie, w.kind = q.kind
    PROVE  ReqOK(r, w, sx)
BY DEF ReqOK, Owned, Aged, Evidence, Spent, OnWire, Waiting, MayGo

LEMMA RotatedOK ==
    ASSUME NEW sx \in SessType, NEW rx \in [Req -> OneReq], NEW s \in Sessions, NEW r \in Req,
           last \in Nat, issued \in Nat, sx[s].cookie <= issued, ReqOK(r, rx[r], sx)
    PROVE  ReqOK(r, RotatedReq(sx, rx, s)[r], RotatedSess(sx, rx, s))
<1> DEFINE sy == RotatedSess(sx, rx, s)  q == rx[r]  w == RotatedReq(sx, rx, s)[r]
<1>1. sy \in SessType /\ Grows(sx, sy)
  BY RotatedSessIs DEF Grows, SessType, OneSess
<1>2. CASE w = q
  BY <1>1, <1>2, AgesWith
<1>3. CASE w = Ended("failed")
  BY <1>3, EndedOK
<1>4. CASE /\ q.st \in OnWire \cup {"done"} /\ q.kind = "subscribe" /\ q.s = s
           /\ w.st = "wire" /\ w.kind = "subscribe" /\ w.s = s /\ w.res = "none"
           /\ w.epoch = q.epoch /\ w.chan = q.chan /\ w.on = sx[s].chan + 1 /\ w.cookie = sx[s].cookie
  <2>1. sy[s].chan = sx[s].chan + 1 /\ sy[s].cookie = sx[s].cookie /\ sy[s].epoch = sx[s].epoch
    BY RotatedSessIs
  <2>2. q.chan <= q.on /\ q.on <= sx[s].chan /\ q.epoch <= sx[s].epoch /\ s # 0 /\ s <= last
    BY <1>4 DEF ReqOK, Aged, Owned, Sessions
  <2>3. q.chan \in Nat /\ q.on \in Nat /\ sx[s].chan \in Nat
    BY DEF OneReq, SessType, OneSess
  <2>4. w.chan <= w.on /\ w.on <= sy[s].chan
    BY <1>4, <2>1, <2>2, <2>3
  <2> HIDE DEF w, sy
  <2>5. Owned(w) /\ Aged(w, sy) /\ Evidence(w)
    BY <1>4, <2>1, <2>2, <2>4 DEF Owned, Aged, Evidence, OnWire
  <2>6. ran[r] = {}
    BY <1>4 DEF ReqOK, Spent, Pokes
  <2> QED
    BY <2>5, <2>6 DEF ReqOK, Spent, w, sy
<1> QED
  BY <1>2, <1>3, <1>4, RotatedReqIs

-----------------------------------------------------------------------------
(* The client's own steps leave the ship alone: it is enough that requests,    *)
(* sessions and logins are in order afterwards.                               *)
Kept ==
    /\ sess' \in SessType /\ req' \in [Req -> OneReq] /\ logins' \subseteq LoginType
    /\ \A r \in Req : ReqOK(r, req'[r], sess')
    /\ \A s \in Sessions : sess'[s].cookie <= issued
    /\ \A l \in logins' : LoginOK(l, sess')
    /\ OneLogin'

LEMMA Facts ==
    ASSUME IInv
    PROVE  /\ sess \in SessType /\ req \in [Req -> OneReq] /\ logins \subseteq LoginType
           /\ last \in Nat /\ issued \in Nat /\ config \in 0..MaxSession /\ config <= last
           /\ \A r \in Req : ReqOK(r, req[r], sess)
           /\ \A s \in Sessions : sess[s].cookie <= issued
           /\ \A l \in logins : LoginOK(l, sess)
           /\ OneLogin
BY TypeParts DEF IInv, ShipOK

LEMMA KeptSuffices ==
    ASSUME IInv, Kept, UNCHANGED <<config, last, late, ship>>, asked' \subseteq Sessions
    PROVE  IInv'
<1>1. TypeOK'
  BY TypeParts DEF IInv, Kept, TypeOK, SessType, OneSess, OneReq, LoginType, ship
<1>2. /\ config' = config /\ last' = last /\ late' = late /\ live' = live /\ issued' = issued
      /\ ran' = ran /\ twice' = twice /\ refused' = refused /\ needless' = needless
  BY DEF ship
<1>3. ShipOK'
  BY <1>2 DEF IInv, ShipOK, Kept
<1>4. ASSUME NEW r \in Req PROVE ReqOK(r, req[r], sess)'
  <2>1. ReqOK(r, req'[r], sess')
    BY DEF Kept
  <2> QED
    BY <1>2, <2>1 DEF ReqOK, Owned, Aged, Evidence, Spent
<1>5. \A l \in logins' : LoginOK(l, sess)'
  BY <1>2 DEF Kept, LoginOK
<1>6. NoNeedlessLogin' /\ RunsOnce'
  BY <1>2 DEF IInv, NoNeedlessLogin, RunsOnce
<1> QED
  BY <1>1, <1>3, <1>4, <1>5, <1>6 DEF IInv, Kept

(* A request is sent again, or waits once more for a login. *)
LEMMA ResendKeeps ==
    ASSUME IInv, NEW r \in Req, NEW s \in Sessions, s <= last,
           NEW sx \in SessType, NEW rx \in [Req -> OneReq],
           \A t \in Sessions : sx[t].cookie = sess[t].cookie /\ sx[t].pendingAuth = sess[t].pendingAuth,
           \A x \in Req \ {r} : /\ ReqOK(x, rx[x], sx)
                                /\ rx[x].st \in Waiting => req[x].st \in Waiting /\ rx[x].s = req[x].s,
           rx[r].s = s, rx[r].cookie <= issued, MayGo(r, rx[r]),
           Resend(r, s, sx, rx), UNCHANGED logins
    PROVE  Kept
<1> DEFINE q == rx[r]
<1> USE Facts
<1>1. /\ Second(q) \in OneReq /\ Second(q).s = s /\ Second(q).kind = q.kind
      /\ Second(q).cookie = q.cookie
  BY SecondTyped
<1>2. MayGo(r, Second(q))
  BY <1>1 DEF MayGo
<1>3. CASE sx[s].pendingAuth /\ q.kind \in Pokes \cup {"subscribe"}
  <2> DEFINE w == [Second(q) EXCEPT !.st = "waiting"]
  <2>1. sess' = sx /\ req' = [rx EXCEPT ![r] = w]
    BY <1>3 DEF Resend
  <2>2. w \in OneReq /\ w.st \in Waiting /\ w.s = s /\ w.cookie = q.cookie /\ w.kind = q.kind
    BY <1>1 DEF OneReq, Steps, Waiting
  <2> HIDE DEF w
  <2>3. s # 0
    BY DEF Sessions
  <2>4. ReqOK(r, w, sx)
    BY <2>2, <2>3, WaitsOK
  <2>5. req'[r] = w /\ \A x \in Req \ {r} : req'[x] = rx[x]
    BY <2>1
  <2>6. ASSUME NEW x \in Req PROVE ReqOK(x, req'[x], sess')
    <3>1. CASE x = r
      BY <2>1, <2>4, <2>5, <3>1
    <3>2. CASE x # r
      BY <2>1, <2>5, <3>2
    <3> QED
      BY <3>1, <3>2
  <2>7. ASSUME NEW x \in Req, req'[x].st \in Waiting PROVE \E l \in logins : l.s = req'[x].s
    BY <1>3, <2>2, <2>5, <2>7 DEF OneLogin
  <2>8. OneLogin'
    BY <2>1, <2>7 DEF OneLogin
  <2> QED
    BY <2>1, <2>2, <2>6, <2>8 DEF Kept, LoginOK, LoginType
<1>4. CASE ~(sx[s].pendingAuth /\ q.kind \in Pokes \cup {"subscribe"})
  <2> DEFINE w == SentOver(Second(q), s, sx)
  <2>1. sess' = Opened(sx, q, s) /\ req' = [rx EXCEPT ![r] = w]
    BY <1>4 DEF Resend
  <2>2. w \in OneReq /\ w.st = "wire"
    BY <1>1, SentTyped
  <2>3. ReqOK(r, w, sx)
    BY <1>1, <1>2, SentOK
  <2>4. /\ sess' \in SessType /\ Grows(sx, sess')
        /\ \A t \in Sessions : sess'[t].cookie = sess[t].cookie /\ sess'[t].pendingAuth = sess[t].pendingAuth
    <3>1. /\ sess' \in SessType
          /\ \A t \in Sessions : /\ sess'[t].cookie = sx[t].cookie /\ sess'[t].epoch = sx[t].epoch
                                 /\ sess'[t].chan = sx[t].chan
                                 /\ sess'[t].pendingAuth = sx[t].pendingAuth
      <4> DEFINE o == Opened(sx, q, s)
      <4>1. /\ o \in SessType
            /\ \A t \in Sessions : /\ o[t].cookie = sx[t].cookie /\ o[t].epoch = sx[t].epoch
                                   /\ o[t].chan = sx[t].chan /\ o[t].pendingAuth = sx[t].pendingAuth
        <5>1. sx \in SessType /\ s \in Sessions
          OBVIOUS
        <5>2. o \in SessType
          BY <5>1, OpenedTyped
        <5>3. ASSUME NEW t \in Sessions
              PROVE  /\ o[t].cookie = sx[t].cookie /\ o[t].epoch = sx[t].epoch
                     /\ o[t].chan = sx[t].chan /\ o[t].pendingAuth = sx[t].pendingAuth
          BY <5>1, OpenedTyped
        <5> QED
          BY <5>2, <5>3
      <4>2. sess' = o
        BY <2>1
      <4> HIDE DEF o
      <4> QED
        BY <4>1, <4>2
    <3>2. \A t \in Sessions : sx[t].chan <= sx[t].chan /\ sx[t].epoch <= sx[t].epoch
      BY DEF SessType, OneSess
    <3> QED
      BY <3>1, <3>2 DEF Grows
  <2> HIDE DEF w
  <2>5. req'[r] = w /\ \A x \in Req \ {r} : req'[x] = rx[x]
    BY <2>1
  <2>6. ASSUME NEW x \in Req PROVE ReqOK(x, req'[x], sess')
    <3>1. CASE x = r
      <4>1. ReqOK(x, w, sess')
        BY <2>2, <2>3, <2>4, <3>1, AgesWith
      <4> QED
        BY <2>5, <3>1, <4>1
    <3>2. CASE x # r
      <4>1. ReqOK(x, rx[x], sess')
        BY <2>4, <3>2, AgesWith
      <4> QED
        BY <2>5, <3>2, <4>1
    <3> QED
      BY <3>1, <3>2
  <2>7. ASSUME NEW x \in Req, req'[x].st \in Waiting PROVE \E l \in logins : l.s = req'[x].s
    BY <2>2, <2>5, <2>7 DEF OneLogin, Waiting
  <2>8. OneLogin'
    BY <2>4, <2>7 DEF OneLogin
  <2> QED
    BY <2>1, <2>2, <2>4, <2>6, <2>8 DEF Kept, LoginOK, LoginType
<1> QED
  BY <1>3, <1>4

(* One request changes, for itself or by waiting for a login that is under way. *)
LEMMA OneKept ==
    ASSUME IInv, NEW r \in Req, NEW w \in OneReq, req' = [req EXCEPT ![r] = w],
           sess' \in SessType, Grows(sess, sess'), ReqOK(r, w, sess'),
           \A t \in Sessions : sess'[t].cookie = sess[t].cookie /\ sess'[t].pendingAuth = sess[t].pendingAuth,
           w.st \in Waiting => \E l \in logins : l.s = w.s,
           UNCHANGED logins
    PROVE  Kept
<1> USE Facts
<1>1. req'[r] = w /\ \A x \in Req \ {r} : req'[x] = req[x]
  OBVIOUS
<1>2. ASSUME NEW x \in Req PROVE ReqOK(x, req'[x], sess')
  <2>1. CASE x = r
    BY <1>1, <2>1
  <2>2. CASE x # r
    <3>1. ReqOK(x, req[x], sess')
      BY AgesWith
    <3> QED
      BY <1>1, <2>2, <3>1
  <2> QED
    BY <2>1, <2>2
<1>3. ASSUME NEW x \in Req, req'[x].st \in Waiting PROVE \E l \in logins : l.s = req'[x].s
  BY <1>1, <1>3 DEF OneLogin
<1>4. OneLogin'
  BY <1>3 DEF OneLogin
<1> QED
  BY <1>2, <1>4 DEF Kept, LoginOK, LoginType

LEMMA SameGrows == ASSUME NEW sx \in SessType PROVE Grows(sx, sx)
BY DEF Grows, SessType, OneSess

LEMMA FailKeeps == ASSUME IInv, NEW r \in Req, Fail(r) PROVE Kept
<1> USE Facts
<1>1. req' = [req EXCEPT ![r] = Ended("failed")] /\ UNCHANGED <<sess, logins>>
  BY DEF Fail
<1>2. Ended("failed") \in OneReq /\ Ended("failed").st \notin Waiting
  BY EndedTyped DEF Waiting
<1>3. ReqOK(r, Ended("failed"), sess')
  BY EndedOK
<1> QED
  BY <1>1, <1>2, <1>3, SameGrows, OneKept

(* What a refused request does: only the session it belongs to is touched, and  *)
(* only while it is configured.                                               *)
LEMMA RefusedOwns ==
    ASSUME IInv, NEW r \in Req, req[r].st \in {"answered", "named"}, req[r].res # "ok"
    PROVE  /\ req[r] \in OneReq /\ req[r].s \in Sessions /\ req[r].s <= last /\ req[r].cookie <= issued
           /\ req[r].s # 0 /\ MayGo(r, req[r])
<1>1. req[r] \in OneReq /\ ReqOK(r, req[r], sess)
  BY Facts
<1>2. MayGo(r, req[r])
  BY <1>1, RefusedMayGo
<1> QED
  BY <1>1, <1>2 DEF ReqOK, Owned, OnWire, OneReq, Sessions

LEMMA RotateOnceKeeps ==
    ASSUME IInv, NEW r \in Req, req[r].st \in {"answered", "named"}, req[r].res # "ok",
           RotateOnce(r, req[r].s), UNCHANGED logins
    PROVE  Kept
<1> USE Facts, RefusedOwns
<1> DEFINE s == req[r].s
<1>1. CASE sess[s].chan = req[r].chan
  <2> DEFINE idle == [req EXCEPT ![r].st = "idle"]
             sx == RotatedSess(sess, req, s)
             rx == RotatedReq(sess, idle, s)
  <2>1. Resend(r, s, sx, rx)
    BY <1>1 DEF RotateOnce
  <2>2. /\ idle \in [Req -> OneReq]
        /\ idle[r].st = "idle" /\ idle[r].s = s /\ idle[r].kind = req[r].kind /\ idle[r].cookie = req[r].cookie
        /\ \A x \in Req \ {r} : idle[x] = req[x]
    BY DEF OneReq, Steps
  <2>3. sx \in SessType /\ \A t \in Sessions : /\ sx[t].cookie = sess[t].cookie
                                               /\ sx[t].pendingAuth = sess[t].pendingAuth
                                               /\ sx[t].epoch = sess[t].epoch
    BY RotatedSessIs
  <2> HIDE DEF idle
  <2>4. rx \in [Req -> OneReq]
    BY <2>2, RotatedReqIs
  <2>5. rx[r] = idle[r]
    BY <2>2, RotatedReqIs DEF OnWire
  <2>6. ASSUME NEW x \in Req \ {r}
        PROVE  /\ ReqOK(x, rx[x], sx)
               /\ rx[x].st \in Waiting => req[x].st \in Waiting /\ rx[x].s = req[x].s
    <3>1. ReqOK(x, idle[x], sess)
      BY <2>2
    <3>2. ReqOK(x, RotatedReq(sess, idle, s)[x], RotatedSess(sess, idle, s))
      BY <2>2, <3>1, RotatedOK
    <3>3. \A t \in Sessions : /\ RotatedSess(sess, idle, s)[t].chan = sx[t].chan
                              /\ RotatedSess(sess, idle, s)[t].epoch = sx[t].epoch
                              /\ RotatedSess(sess, idle, s)[t].cookie = sx[t].cookie
      BY <2>2, RotatedSessIs
    <3>4. /\ RotatedSess(sess, idle, s) \in SessType
          /\ Grows(RotatedSess(sess, idle, s), sx)
      <4>1. \A t \in Sessions : sx[t].chan <= sx[t].chan /\ sx[t].epoch <= sx[t].epoch
        BY <2>3 DEF SessType, OneSess
      <4> HIDE DEF sx
      <4> QED
        BY <2>2, <3>3, <4>1, RotatedSessIs DEF Grows
    <3>5. ReqOK(x, rx[x], sx)
      BY <2>3, <2>4, <3>2, <3>4, AgesWith
    <3>6. rx[x].st \in Waiting => rx[x] = idle[x]
      BY <2>2, RotatedReqIs, EndedTyped DEF Waiting
    <3> QED
      BY <2>2, <3>5, <3>6
  <2>7. MayGo(r, rx[r]) /\ rx[r].s = s /\ rx[r].cookie <= issued
    BY <2>2, <2>5 DEF MayGo
  <2> HIDE DEF sx, rx
  <2> QED
    BY <2>1, <2>3, <2>4, <2>6, <2>7, ResendKeeps
<1>2. CASE sess[s].chan # req[r].chan
  <2>1. Resend(r, s, sess, req)
    BY <1>2 DEF RotateOnce
  <2> QED
    BY <2>1, ResendKeeps
<1> QED
  BY <1>1, <1>2

(* A login starts only when the cookie that was refused is still the session's. *)
LEMMA ReauthOnceKeeps ==
    ASSUME IInv, NEW r \in Req, req[r].st \in {"answered", "named"}, req[r].res # "ok",
           req[r].res # "403" \/ ~OnChannel(req[r]),
           ReauthOnce(r, req[r].s)
    PROVE  Kept
<1> USE Facts, RefusedOwns
<1> DEFINE s == req[r].s
<1>1. CASE Fail(r)
  BY <1>1, FailKeeps
<1>2. CASE Resend(r, s, sess, req) /\ UNCHANGED logins
  BY <1>2, ResendKeeps
<1>3. CASE /\ ~Refreshed(req[r], s) /\ ~sess[s].loggingOut
           /\ req' = [req EXCEPT ![r].st = "joined", ![r].again = TRUE]
           /\ IF sess[s].pendingAuth THEN UNCHANGED <<sess, logins>>
              ELSE /\ sess' = [sess EXCEPT ![s].pendingAuth = TRUE]
                   /\ logins' = logins \cup {StartLogin(s)}
  <2> DEFINE w == [req[r] EXCEPT !.st = "joined", !.again = TRUE]
  <2>1. req' = [req EXCEPT ![r] = w]
    BY <1>3
  <2>2. w \in OneReq /\ w.st \in Waiting /\ w.s = s /\ w.cookie = req[r].cookie /\ w.kind = req[r].kind
    BY DEF OneReq, Steps, Waiting
  <2> HIDE DEF w
  <2>3. ReqOK(r, w, sess) /\ ReqOK(r, w, sess')
    BY <2>2, WaitsOK
  <2>4. CASE sess[s].pendingAuth
    <3>1. UNCHANGED <<sess, logins>> /\ \E l \in logins : l.s = w.s
      BY <1>3, <2>2, <2>4 DEF OneLogin
    <3> QED
      BY <2>1, <2>2, <2>3, <3>1, SameGrows, OneKept
  <2>5. CASE ~sess[s].pendingAuth
    <3> DEFINE m == StartLogin(s)
    <3>1. sess' = [sess EXCEPT ![s].pendingAuth = TRUE] /\ logins' = logins \cup {m}
      BY <1>3, <2>5
    <3>2. m \in LoginType /\ m.s = s /\ m.step = "code" /\ m.cookie = 0
      BY ConstantsAssumption DEF StartLogin, LoginType
    <3> HIDE DEF m
    <3>3. /\ sess' \in SessType /\ sess'[s].pendingAuth = TRUE
          /\ \A t \in Sessions :
                /\ sess'[t].cookie = sess[t].cookie /\ sess'[t].epoch = sess[t].epoch
                /\ sess'[t].chan = sess[t].chan
                /\ t # s => sess'[t].pendingAuth = sess[t].pendingAuth
      <4> DEFINE f == [sess[s] EXCEPT !.pendingAuth = TRUE]
      <4>1. sess' = [sess EXCEPT ![s] = f] /\ sess[s] \in OneSess
        BY <3>1 DEF SessType
      <4>2. /\ f \in OneSess /\ f.cookie = sess[s].cookie /\ f.epoch = sess[s].epoch
            /\ f.chan = sess[s].chan /\ f.pendingAuth = TRUE
        BY <4>1, FlagRecord
      <4> HIDE DEF f
      <4>3. sess' \in SessType /\ sess'[s] = f /\ \A t \in Sessions \ {s} : sess'[t] = sess[t]
        BY <4>1, <4>2 DEF SessType
      <4> QED
        BY <4>2, <4>3
    <3>4. Grows(sess, sess')
      <4>1. \A t \in Sessions : sess[t].chan <= sess[t].chan /\ sess[t].epoch <= sess[t].epoch
        BY DEF SessType, OneSess
      <4> QED
        BY <3>3, <4>1 DEF Grows
    <3>5. req[r].cookie \notin live /\ req[r].cookie = sess[s].cookie
      <4>1. ReqOK(r, req[r], sess) /\ req[r].epoch = sess[s].epoch /\ req[r].st \in OnWire
        BY <1>3 DEF Refreshed, OnWire
      <4> QED
        BY <4>1 DEF ReqOK, Evidence, Aged, OnChannel, OneReq
    <3>6. LoginOK(m, sess') /\ \A l \in logins : LoginOK(l, sess')
      BY <3>2, <3>3, <3>5 DEF LoginOK, LoginType
    <3>7. req'[r] = w /\ \A x \in Req \ {r} : req'[x] = req[x]
      BY <2>1
    <3>8. ASSUME NEW x \in Req PROVE ReqOK(x, req'[x], sess')
      <4>1. CASE x = r
        BY <2>3, <3>7, <4>1
      <4>2. CASE x # r
        <5>1. ReqOK(x, req[x], sess')
          BY <3>3, <3>4, AgesWith
        <5> QED
          BY <3>7, <4>2, <5>1
      <4> QED
        BY <4>1, <4>2
    <3>9. OneLogin'
      <4>1. \A l \in logins : l.s # s
        BY <2>5 DEF OneLogin
      <4>2. \A k, l \in logins' : k.s = l.s => k = l
        BY <3>1, <3>2, <4>1 DEF OneLogin
      <4>3. \A t \in Sessions : sess'[t].pendingAuth <=> \E l \in logins' : l.s = t
        BY <3>1, <3>2, <3>3, <4>1 DEF OneLogin
      <4>4. \A x \in Req : req'[x].st \in Waiting => \E l \in logins' : l.s = req'[x].s
        BY <2>2, <3>1, <3>2, <3>7 DEF OneLogin
      <4> QED
        BY <4>2, <4>3, <4>4 DEF OneLogin
    <3> QED
      BY <2>1, <2>2, <3>1, <3>2, <3>3, <3>6, <3>8, <3>9 DEF Kept
  <2> QED
    BY <2>4, <2>5
<1> QED
  BY <1>1, <1>2, <1>3 DEF ReauthOnce

LEMMA RetryKeeps ==
    ASSUME IInv, NEW r \in Req, req[r].st \in {"answered", "named"}, req[r].res # "ok", Retry(r)
    PROVE  Kept
BY FailKeeps, RotateOnceKeeps, ReauthOnceKeeps DEF Retry

-----------------------------------------------------------------------------
(* The client's actions on a request. *)

LEMMA DoneTyped ==
    ASSUME NEW q \in OneReq
    PROVE  /\ Done(q) \in OneReq /\ Done(q).st = "done"
           /\ Done(q) = Ended("done") \/ Done(q) = [q EXCEPT !.st = "done"]
<1>1. Ended("done") \in OneReq /\ Ended("done").st = "done"
  BY EndedTyped
<1>2. [q EXCEPT !.st = "done"] \in OneReq /\ [q EXCEPT !.st = "done"].st = "done"
  BY DEF OneReq, Steps
<1> QED
  BY <1>1, <1>2 DEF Done

LEMMA DoneOK ==
    ASSUME last \in Nat, issued \in Nat, NEW r \in Req, NEW q \in OneReq, NEW sx,
           q.st \in OnWire, ReqOK(r, q, sx)
    PROVE  ReqOK(r, Done(q), sx)
<1>1. CASE Done(q) = Ended("done")
  BY <1>1, EndedOK
<1>2. CASE Done(q) = [q EXCEPT !.st = "done"]
  <2> DEFINE w == [q EXCEPT !.st = "done"]
  <2>1. /\ w.st = "done" /\ w.s = q.s /\ w.cookie = q.cookie /\ w.kind = q.kind
        /\ w.chan = q.chan /\ w.on = q.on /\ w.epoch = q.epoch
    BY DEF OneReq
  <2> HIDE DEF w
  <2>2. ReqOK(r, w, sx)
    BY <2>1 DEF ReqOK, Owned, Aged, Evidence, Spent, OnWire, Waiting
  <2> QED
    BY <1>2, <2>2 DEF w
<1> QED
  BY <1>1, <1>2, DoneTyped

LEMMA CallKept == ASSUME IInv, NEW r \in Req, NEW k \in Kinds, Call(r, k) PROVE Kept
<1> USE Facts
<1> DEFINE q == [req[r] EXCEPT !.kind = k, !.s = config]
<1>1. config \in Sessions /\ config # 0 /\ req[r].st = "idle" /\ req[r] \in OneReq
  BY DEF Call, Sessions
<1>2. q \in OneReq /\ q.s = config /\ q.cookie = req[r].cookie
  BY <1>1 DEF OneReq
<1>3. ran[r] = {} /\ req[r].cookie <= issued
  BY <1>1 DEF ReqOK, Spent, Owned
<1> HIDE DEF q
<1>4. MayGo(r, q)
  BY <1>3 DEF MayGo
<1>5. UNCHANGED logins
  BY DEF Call
<1>6. CASE sess[config].pendingAuth
  <2> DEFINE w == [q EXCEPT !.st = "waiting"]
  <2>1. req' = [req EXCEPT ![r] = w] /\ sess' = sess
    BY <1>6 DEF Call, q
  <2>2. w \in OneReq /\ w.st \in Waiting /\ w.s = config /\ w.cookie = q.cookie /\ w.kind = q.kind
    BY <1>2 DEF OneReq, Steps, Waiting
  <2> HIDE DEF w
  <2>3. ReqOK(r, w, sess)
    BY <1>1, <1>2, <1>3, <1>4, <2>2, WaitsOK
  <2>4. \E l \in logins : l.s = w.s
    BY <1>1, <1>6, <2>2 DEF OneLogin
  <2> QED
    BY <1>5, <2>1, <2>2, <2>3, <2>4, SameGrows, OneKept
<1>7. CASE ~sess[config].pendingAuth
  <2> DEFINE w == SentOver(q, config, sess)
  <2>1. req' = [req EXCEPT ![r] = w] /\ sess' = Opened(sess, q, config)
    BY <1>7 DEF Call, q
  <2>2. w \in OneReq /\ w.st \notin Waiting
    BY <1>1, <1>2, SentTyped DEF Waiting
  <2>3. ReqOK(r, w, sess)
    BY <1>1, <1>2, <1>4, SentOK
  <2> HIDE DEF w
  <2>4. /\ sess' \in SessType /\ Grows(sess, sess')
        /\ \A t \in Sessions : sess'[t].cookie = sess[t].cookie /\ sess'[t].pendingAuth = sess[t].pendingAuth
    <3>1. \A t \in Sessions : sess[t].chan <= sess[t].chan /\ sess[t].epoch <= sess[t].epoch
      BY DEF SessType, OneSess
    <3> QED
      BY <1>1, <2>1, <3>1, OpenedTyped DEF Grows
  <2>5. ReqOK(r, w, sess')
    BY <2>2, <2>3, <2>4, AgesWith
  <2> QED
    BY <1>5, <2>1, <2>2, <2>4, <2>5, OneKept
<1> QED
  BY <1>6, <1>7

LEMMA AnsweredKept == ASSUME IInv, NEW r \in Req, Answered(r) PROVE Kept
<1> USE Facts
<1> DEFINE q == req[r]
<1>1. q \in OneReq /\ q.st = "answered" /\ ReqOK(r, q, sess) /\ q.s \in Sessions
  BY DEF Answered, ReqOK, Owned, OnWire, OneReq, Sessions
<1>2. CASE q.res # "ok"
  BY <1>1, <1>2, RetryKeeps DEF Answered
<1>3. CASE q.res = "ok"
  <2>1. UNCHANGED <<sess, logins>>
    BY <1>3 DEF Answered
  <2>2. CASE OnChannel(q) /\ ~sess[q.s].sse
    <3> DEFINE w == [q EXCEPT !.st = "naming", !.cookie = sess[q.s].cookie]
    <3>1. req' = [req EXCEPT ![r] = w]
      BY <1>3, <2>2 DEF Answered
    <3>2. sess[q.s].cookie \in Nat /\ sess[q.s].cookie <= issued
      BY <1>1 DEF SessType, OneSess
    <3>3. /\ w \in OneReq /\ w.st = "naming" /\ w.s = q.s /\ w.cookie = sess[q.s].cookie /\ w.kind = q.kind
          /\ w.chan = q.chan /\ w.on = q.on /\ w.epoch = q.epoch /\ w.res = "ok"
      BY <1>1, <1>3, <3>2 DEF OneReq, Steps, OnWire
    <3> HIDE DEF w
    <3>4. Owned(w) /\ Aged(w, sess) /\ Evidence(w)
      BY <1>1, <3>2, <3>3 DEF ReqOK, Owned, Aged, Evidence, OnWire, Waiting
    <3>5. Spent(r, w)
      BY <1>1, <1>3, <3>3 DEF ReqOK, Spent, Aged, OnWire
    <3>6. ReqOK(r, w, sess') /\ w.st \notin Waiting
      BY <2>1, <3>3, <3>4, <3>5 DEF ReqOK, Waiting
    <3> QED
      BY <2>1, <3>1, <3>3, <3>6, SameGrows, OneKept
  <2>3. CASE ~(OnChannel(q) /\ ~sess[q.s].sse)
    <3>1. req' = [req EXCEPT ![r] = Done(q)]
      BY <1>3, <2>3 DEF Answered
    <3>2. Done(q) \in OneReq /\ Done(q).st \notin Waiting
      BY <1>1, DoneTyped DEF Waiting
    <3>3. ReqOK(r, Done(q), sess')
      BY <1>1, <2>1, DoneOK DEF OnWire
    <3> QED
      BY <2>1, <3>1, <3>2, <3>3, SameGrows, OneKept
  <2> QED
    BY <2>2, <2>3
<1> QED
  BY <1>2, <1>3

LEMMA NamedKept == ASSUME IInv, NEW r \in Req, Named(r) PROVE Kept
<1> USE Facts
<1> DEFINE q == req[r]
<1>1. q \in OneReq /\ q.st = "named" /\ ReqOK(r, q, sess) /\ q.s \in Sessions
  BY DEF Named, ReqOK, Owned, OnWire, OneReq, Sessions
<1>2. CASE q.res # "ok"
  BY <1>1, <1>2, RetryKeeps DEF Named
<1>3. CASE q.res = "ok"
  <2>1. /\ req' = [req EXCEPT ![r] = Done(q)] /\ UNCHANGED logins
        /\ sess' = [sess EXCEPT ![q.s].sse = TRUE, ![q.s].channelOpened = TRUE,
                                ![q.s].stream = @ \/ ~sess[q.s].sse]
    BY <1>3 DEF Named
  <2>2. Done(q) \in OneReq /\ Done(q).st \notin Waiting
    BY <1>1, DoneTyped DEF Waiting
  <2>3. /\ sess' \in SessType
        /\ \A t \in Sessions : /\ sess'[t].cookie = sess[t].cookie /\ sess'[t].epoch = sess[t].epoch
                               /\ sess'[t].chan = sess[t].chan
                               /\ sess'[t].pendingAuth = sess[t].pendingAuth
    <3> DEFINE b == sess[q.s].stream \/ ~sess[q.s].sse
               f == [sess[q.s] EXCEPT !.sse = TRUE, !.channelOpened = TRUE, !.stream = b]
    <3>1. sess' = [sess EXCEPT ![q.s] = f] /\ sess[q.s] \in OneSess
      BY <1>1, <2>1 DEF SessType
    <3>2. b \in BOOLEAN
      OBVIOUS
    <3> HIDE DEF b
    <3>3. /\ f \in OneSess /\ f.cookie = sess[q.s].cookie /\ f.epoch = sess[q.s].epoch
          /\ f.chan = sess[q.s].chan /\ f.pendingAuth = sess[q.s].pendingAuth
      BY <3>1, <3>2, StreamRecord
    <3> HIDE DEF f
    <3>4. sess' \in SessType /\ sess'[q.s] = f /\ \A t \in Sessions \ {q.s} : sess'[t] = sess[t]
      BY <1>1, <3>1, <3>3 DEF SessType
    <3> QED
      BY <3>3, <3>4
  <2>4. Grows(sess, sess')
    <3>1. \A t \in Sessions : sess[t].chan <= sess[t].chan /\ sess[t].epoch <= sess[t].epoch
      BY DEF SessType, OneSess
    <3> QED
      BY <2>3, <3>1 DEF Grows
  <2>5. ReqOK(r, Done(q), sess)
    BY <1>1, DoneOK DEF OnWire
  <2>6. ReqOK(r, Done(q), sess')
    BY <2>2, <2>3, <2>4, <2>5, AgesWith
  <2> QED
    BY <2>1, <2>2, <2>3, <2>4, <2>6, OneKept
<1> QED
  BY <1>2, <1>3

(* The event source's reset, whatever it was that went wrong with it. *)
LEMMA ResetIs ==
    ASSUME IInv, NEW s \in Sessions, SeamlessReset(s)
    PROVE  /\ sess' \in SessType /\ req' \in [Req -> OneReq] /\ logins' = logins
           /\ \A t \in Sessions : /\ sess'[t].cookie = sess[t].cookie
                                  /\ sess'[t].pendingAuth = sess[t].pendingAuth
           /\ \A r \in Req : ReqOK(r, req'[r], sess')
           /\ OneLogin'
<1> USE Facts
<1> DEFINE sx == RotatedSess(sess, req, s)  rx == RotatedReq(sess, req, s)
<1>1. sess' = sx /\ req' = rx /\ UNCHANGED logins
  BY DEF SeamlessReset
<1>2. /\ sx \in SessType /\ rx \in [Req -> OneReq]
      /\ \A t \in Sessions : sx[t].cookie = sess[t].cookie /\ sx[t].pendingAuth = sess[t].pendingAuth
  BY RotatedSessIs, RotatedReqIs
<1>3. \A r \in Req : ReqOK(r, rx[r], sx)
  BY RotatedOK
<1>4. \A r \in Req : rx[r].st \in Waiting => rx[r] = req[r]
  BY RotatedReqIs, EndedTyped DEF Waiting
<1> HIDE DEF sx, rx
<1>5. OneLogin'
  BY <1>1, <1>2, <1>4 DEF OneLogin
<1> QED
  BY <1>1, <1>2, <1>3, <1>5

LEMMA ResetLogins ==
    ASSUME IInv, NEW s \in Sessions, SeamlessReset(s)
    PROVE  Kept
<1> USE Facts
<1>1. /\ sess' \in SessType /\ req' \in [Req -> OneReq] /\ logins' = logins
      /\ \A t \in Sessions : sess'[t].cookie = sess[t].cookie
      /\ \A r \in Req : ReqOK(r, req'[r], sess')
      /\ OneLogin'
  BY ResetIs
<1> QED
  BY <1>1 DEF Kept, LoginOK, LoginType

LEMMA StreamReapedKeeps == ASSUME IInv, NEW s \in Sessions, StreamReaped(s) PROVE IInv'
<1>1. Kept
  BY ResetLogins DEF StreamReaped
<1>2. UNCHANGED <<config, last, late, ship, asked>>
  BY DEF StreamReaped, SeamlessReset, ship
<1> QED
  BY <1>1, <1>2, KeptSuffices DEF IInv, TypeOK

-----------------------------------------------------------------------------
(* The login's own steps. *)

LEMMA SettledRecord ==
    ASSUME NEW f \in OneSess, NEW b \in BOOLEAN
    PROVE  LET new == [f EXCEPT !.pendingAuth = FALSE, !.channelOpened = b]
           IN  /\ new \in OneSess /\ new.pendingAuth = FALSE
               /\ new.epoch = f.epoch /\ new.cookie = f.cookie /\ new.chan = f.chan
               /\ new.loggingOut = f.loggingOut
BY DEF OneSess

(* What Settle does: everybody who waited for this login goes on or fails. *)
Settled(l, ok, sx, rx) ==
    /\ logins' = logins \ {l}
    /\ sess' \in SessType /\ sess'[l.s].pendingAuth = FALSE
    /\ \A t \in Sessions :
          /\ sess'[t].cookie = sx[t].cookie /\ sess'[t].epoch = sx[t].epoch
          /\ sess'[t].chan = sx[t].chan /\ sess'[t].loggingOut = sx[t].loggingOut
          /\ t # l.s => sess'[t].pendingAuth = sx[t].pendingAuth
    /\ req' \in [Req -> OneReq]
    /\ \A r \in Req :
          \/ req'[r] = rx[r] /\ ~(rx[r].s = l.s /\ rx[r].st \in Waiting)
          \/ req'[r] = Ended("failed")
          \/ ok /\ rx[r].st \in Waiting /\ req'[r] = SentOver(rx[r], l.s, sx)

LEMMA SettleIs ==
    ASSUME NEW l \in LoginType, NEW ok \in BOOLEAN, NEW sx \in SessType, NEW rx \in [Req -> OneReq],
           Settle(l, ok, sx, rx)
    PROVE  Settled(l, ok, sx, rx)
<1> DEFINE s == l.s
           goes(r) == ok /\ ~(rx[r].st = "joined" /\ rx[r].kind = "once"
                               /\ (sx[s].loggingOut \/ sx[s].epoch = rx[r].epoch))
           await == {r \in Req : rx[r].s = s /\ rx[r].st \in Waiting}
           b == sx[s].channelOpened \/ \E r \in await : goes(r) /\ OnChannel(rx[r])
           new == [sx[s] EXCEPT !.pendingAuth = FALSE, !.channelOpened = b]
<1>1. b \in BOOLEAN /\ s \in Sessions
  BY DEF LoginType
<1>2. sx[s] \in OneSess
  BY <1>1 DEF SessType
<1>3. logins' = logins \ {l} /\ sess' = [sx EXCEPT ![s] = new]
  BY <1>1 DEF Settle, SessType
<1>4. req' = [r \in Req |-> IF r \notin await THEN rx[r]
                            ELSE IF ~goes(r) THEN Ended("failed") ELSE SentOver(rx[r], s, sx)]
  BY DEF Settle
<1> HIDE DEF b
<1>5. /\ new \in OneSess /\ new.pendingAuth = FALSE
      /\ new.epoch = sx[s].epoch /\ new.cookie = sx[s].cookie /\ new.chan = sx[s].chan
      /\ new.loggingOut = sx[s].loggingOut
  BY <1>1, <1>2, SettledRecord
<1> HIDE DEF new
<1>6. /\ sess' \in SessType /\ sess'[s].pendingAuth = FALSE
      /\ \A t \in Sessions :
            /\ sess'[t].cookie = sx[t].cookie /\ sess'[t].epoch = sx[t].epoch
            /\ sess'[t].chan = sx[t].chan /\ sess'[t].loggingOut = sx[t].loggingOut
            /\ t # s => sess'[t].pendingAuth = sx[t].pendingAuth
  BY <1>1, <1>3, <1>5 DEF SessType
<1>7. \A r \in Req : SentOver(rx[r], s, sx) \in OneReq
  BY <1>1, SentTyped
<1>8. Ended("failed") \in OneReq
  BY EndedTyped
<1>9. \A r \in Req : goes(r) => ok
  OBVIOUS
<1> HIDE DEF goes
<1>10. req' \in [Req -> OneReq]
  BY <1>4, <1>7, <1>8
<1>11. ASSUME NEW r \in Req
       PROVE  \/ req'[r] = rx[r] /\ ~(rx[r].s = s /\ rx[r].st \in Waiting)
              \/ req'[r] = Ended("failed")
              \/ ok /\ rx[r].st \in Waiting /\ req'[r] = SentOver(rx[r], s, sx)
  BY <1>4, <1>9
<1>12. logins' = logins \ {l}
  BY <1>3
<1> QED
  BY <1>6, <1>10, <1>11, <1>12 DEF Settled

LEMMA SettleKeeps ==
    ASSUME IInv, NEW l \in logins, NEW ok \in BOOLEAN,
           NEW sx \in SessType, NEW rx \in [Req -> OneReq],
           \A t \in Sessions :
              /\ sx[t].pendingAuth = sess[t].pendingAuth /\ sx[t].cookie <= issued
              /\ t # l.s => sx[t].cookie = sess[t].cookie,
           \A r \in Req :
              /\ ReqOK(r, rx[r], sx)
              /\ rx[r].st \in Waiting => req[r].st \in Waiting /\ rx[r].s = req[r].s,
           Settle(l, ok, sx, rx)
    PROVE  Kept
<1>1. l \in LoginType /\ l.s \in Sessions /\ l.s <= last
  BY Facts DEF LoginOK, LoginType
<1>2. Settled(l, ok, sx, rx)
  BY <1>1, SettleIs
<1> USE Facts DEF Settled
<1>3. Grows(sx, sess')
  <2>1. \A t \in Sessions : sx[t].chan <= sx[t].chan /\ sx[t].epoch <= sx[t].epoch
    BY DEF SessType, OneSess
  <2> QED
    BY <1>2, <2>1 DEF Grows
<1>4. ASSUME NEW r \in Req PROVE ReqOK(r, req'[r], sess')
  <2>1. CASE req'[r] = rx[r]
    <3>1. ReqOK(r, rx[r], sess')
      BY <1>2, <1>3, AgesWith
    <3> QED
      BY <2>1, <3>1
  <2>2. CASE req'[r] = Ended("failed")
    <3>1. ReqOK(r, Ended("failed"), sess')
      BY EndedOK
    <3> QED
      BY <2>2, <3>1
  <2>3. CASE rx[r].st \in Waiting /\ req'[r] = SentOver(rx[r], l.s, sx)
    <3>1. ReqOK(r, SentOver(rx[r], l.s, sx), sx)
      BY <1>1, <2>3, WaitingMayGo, SentOK
    <3>2. SentOver(rx[r], l.s, sx) \in OneReq
      BY <1>1, SentTyped
    <3>3. ReqOK(r, SentOver(rx[r], l.s, sx), sess')
      BY <1>2, <1>3, <3>1, <3>2, AgesWith
    <3> QED
      BY <2>3, <3>3
  <2> QED
    BY <1>2, <2>1, <2>2, <2>3
<1>5. \A k \in logins' : LoginOK(k, sess')
  <2> SUFFICES ASSUME NEW k \in logins' PROVE LoginOK(k, sess')
    OBVIOUS
  <2>1. k \in logins /\ k.s # l.s /\ k.s \in Sessions
    BY <1>2 DEF OneLogin, LoginType
  <2>2. sess'[k.s].cookie = sess[k.s].cookie
    BY <1>2, <2>1
  <2> QED
    BY <2>1, <2>2 DEF LoginOK
<1>6. OneLogin'
  <2>1. \A k, m \in logins' : k.s = m.s => k = m
    BY <1>2 DEF OneLogin
  <2>2. \A t \in Sessions : sess'[t].pendingAuth <=> \E k \in logins' : k.s = t
    BY <1>2 DEF OneLogin
  <2>3. ASSUME NEW r \in Req, req'[r].st \in Waiting PROVE \E k \in logins' : k.s = req'[r].s
    <3>1. /\ Ended("failed").st \notin Waiting
          /\ SentOver(rx[r], l.s, sx).st \notin Waiting
      BY <1>1, EndedTyped, SentTyped DEF Waiting
    <3>2. req'[r] = rx[r] /\ rx[r].s # l.s
      BY <1>2, <2>3, <3>1
    <3> QED
      BY <1>2, <2>3, <3>2 DEF OneLogin
  <2> QED
    BY <2>1, <2>2, <2>3 DEF OneLogin
<1> QED
  BY <1>2, <1>4, <1>5, <1>6 DEF Kept

(* A login that goes on. *)
LEMMA StepKeeps ==
    ASSUME IInv, NEW l \in logins, NEW m \in LoginType, m.s = l.s, LoginOK(m, sess), Step(l, m),
           UNCHANGED <<sess, req>>
    PROVE  Kept
<1> USE Facts
<1>1. logins' = (logins \ {l}) \cup {m} /\ sess' = sess /\ req' = req
  BY DEF Step
<1>2. \A k \in logins' : LoginOK(k, sess') /\ k \in LoginType
  BY <1>1
<1>3. OneLogin'
  <2>1. \A k, n \in logins' : k.s = n.s => k = n
    BY <1>1 DEF OneLogin
  <2>2. \A t \in Sessions : sess'[t].pendingAuth <=> \E k \in logins' : k.s = t
    BY <1>1 DEF OneLogin
  <2>3. \A x \in Req : req'[x].st \in Waiting => \E k \in logins' : k.s = req'[x].s
    BY <1>1 DEF OneLogin
  <2> QED
    BY <2>1, <2>2, <2>3 DEF OneLogin
<1> QED
  BY <1>1, <1>2, <1>3 DEF Kept

LEMMA SettleSame ==
    ASSUME IInv, NEW l \in logins, NEW ok \in BOOLEAN, Settle(l, ok, sess, req)
    PROVE  Kept
BY Facts, SettleKeeps

LEMMA PostTyped ==
    ASSUME IInv, NEW l \in logins, NEW k \in LoginType, k.s = l.s
    PROVE  Post(k) \in LoginType /\ Post(k).s = l.s /\ LoginOK(Post(k), sess)
<1> USE Facts
<1>1. l.s \in Sessions /\ sess[l.s] \in OneSess /\ LoginOK(l, sess)
  BY DEF LoginType, SessType
<1>2. sess[l.s].cookie \in Nat /\ sess[l.s].cookie <= issued
  BY <1>1 DEF OneSess
<1>3. /\ Post(k) \in LoginType /\ Post(k).s = l.s /\ Post(k).cookie = sess[l.s].cookie
      /\ Post(k).step = "post"
  BY <1>2 DEF Post, LoginType
<1> QED
  BY <1>1, <1>2, <1>3 DEF LoginOK

LEMMA CodeFetchedKept == ASSUME IInv, NEW l \in logins, CodeFetched(l) PROVE Kept
<1>1. l \in LoginType
  BY Facts
<1>2. Post(l) \in LoginType /\ Post(l).s = l.s /\ LoginOK(Post(l), sess)
  BY <1>1, PostTyped
<1>3. CASE Swapped(l)
  BY <1>3, SettleSame DEF CodeFetched
<1>4. CASE ~Swapped(l)
  BY <1>2, <1>4, StepKeeps DEF CodeFetched
<1> QED
  BY <1>3, <1>4

LEMMA CodeFailsKept == ASSUME IInv, NEW l \in logins, CodeFails(l) PROVE Kept
<1>1. Swapped(l) \in BOOLEAN
  BY DEF Swapped
<1>2. (~Swapped(l)) \in BOOLEAN
  BY <1>1
<1> QED
  BY <1>2, SettleSame DEF CodeFails

LEMMA BackoffEndsKept == ASSUME IInv, NEW l \in logins, BackoffEnds(l) PROVE Kept
<1> DEFINE k == [l EXCEPT !.tries = l.tries + 1]
<1>1. l \in LoginType /\ l.tries + 1 < MaxAttempts
  <2>1. l \in LoginType /\ LoginOK(l, sess)
    BY Facts
  <2> QED
    BY <2>1, ConstantsAssumption DEF BackoffEnds, LoginOK, LastAttempt, LoginType
<1>2. k \in LoginType /\ k.s = l.s
  BY <1>1, ConstantsAssumption DEF LoginType
<1> HIDE DEF k
<1>3. Post(k) \in LoginType /\ Post(k).s = l.s /\ LoginOK(Post(k), sess)
  BY <1>2, PostTyped
<1>4. CASE Swapped(l)
  BY <1>4, SettleSame DEF BackoffEnds
<1>5. CASE ~Swapped(l)
  <2>1. Step(l, Post(k)) /\ UNCHANGED <<sess, req>>
    BY <1>5 DEF BackoffEnds, k
  <2> QED
    BY <1>3, <2>1, StepKeeps
<1> QED
  BY <1>4, <1>5

LEMMA SettleRotated ==
    ASSUME IInv, NEW l \in logins, NEW sx \in SessType,
           \A t \in Sessions : /\ sx[t].pendingAuth = sess[t].pendingAuth
                               /\ sx[t].cookie <= issued
                               /\ t # l.s => sx[t].cookie = sess[t].cookie,
           \A r \in Req : ReqOK(r, req[r], sx),
           Settle(l, TRUE, RotatedSess(sx, req, l.s), RotatedReq(sx, req, l.s))
    PROVE  Kept
<1> DEFINE sy == RotatedSess(sx, req, l.s)  ry == RotatedReq(sx, req, l.s)
<1>1. /\ l.s \in Sessions /\ l.s <= last /\ last \in Nat /\ issued \in Nat
      /\ req \in [Req -> OneReq]
  BY Facts DEF LoginType, LoginOK
<1>2. /\ sy \in SessType /\ ry \in [Req -> OneReq]
      /\ \A t \in Sessions : sy[t].cookie = sx[t].cookie /\ sy[t].pendingAuth = sx[t].pendingAuth
  BY <1>1, RotatedSessIs, RotatedReqIs
<1>3. \A r \in Req : ReqOK(r, ry[r], sy)
  BY <1>1, RotatedOK
<1>4. \A r \in Req : ry[r].st \in Waiting => ry[r] = req[r]
  BY <1>1, RotatedReqIs, EndedTyped DEF Waiting
<1> HIDE DEF sy, ry
<1>5. \A t \in Sessions : /\ sy[t].pendingAuth = sess[t].pendingAuth /\ sy[t].cookie <= issued
                          /\ t # l.s => sy[t].cookie = sess[t].cookie
  BY <1>2
<1>6. \A r \in Req : /\ ReqOK(r, ry[r], sy)
                     /\ ry[r].st \in Waiting => req[r].st \in Waiting /\ ry[r].s = req[r].s
  BY <1>3, <1>4
<1>7. Settle(l, TRUE, sy, ry)
  BY DEF sy, ry
<1> QED
  BY <1>2, <1>5, <1>6, <1>7, SettleKeeps

(* Logged in: the credentials are new, and the channel, if one was open, too. *)
LEMMA LoggedInKept ==
    ASSUME IInv, NEW l \in logins, l.step = "answered", l.res = "ok", ~Swapped(l), LoginAnswered(l)
    PROVE  Kept
<1> USE Facts
<1> DEFINE s == l.s
           sx == [sess EXCEPT ![s].epoch = @ + 1, ![s].cookie = l.cookie]
<1>1. l \in LoginType /\ s \in Sessions /\ LoginOK(l, sess) /\ s <= last
  BY DEF LoginType, LoginOK
<1>2. /\ sx \in SessType /\ sx[s].epoch = sess[s].epoch + 1 /\ sx[s].cookie = l.cookie
      /\ sx[s].chan = sess[s].chan
      /\ \A t \in Sessions : /\ sx[t].pendingAuth = sess[t].pendingAuth
                             /\ t # s => sx[t] = sess[t]
  <2> DEFINE new == [sess[s] EXCEPT !.epoch = sess[s].epoch + 1, !.cookie = l.cookie]
  <2>1. sess[s] \in OneSess /\ sess[s].epoch + 1 \in Nat /\ l.cookie \in Nat
    BY <1>1 DEF SessType, OneSess, LoginType
  <2>2. /\ new \in OneSess /\ new.epoch = sess[s].epoch + 1 /\ new.cookie = l.cookie
        /\ new.chan = sess[s].chan /\ new.pendingAuth = sess[s].pendingAuth
    BY <2>1 DEF OneSess
  <2>3. sx = [sess EXCEPT ![s] = new]
    BY <1>1 DEF SessType
  <2> HIDE DEF new, sx
  <2> QED
    BY <1>1, <2>2, <2>3 DEF SessType
<1>3. IF sess[s].channelOpened
      THEN Settle(l, TRUE, RotatedSess(sx, req, s), RotatedReq(sx, req, s))
      ELSE Settle(l, TRUE, sx, req)
  BY DEF LoginAnswered
<1> HIDE DEF sx
<1>4. Grows(sess, sx)
  <2>1. \A t \in Sessions : sess[t].chan <= sess[t].chan /\ sess[t].epoch <= sess[t].epoch
                            /\ sess[t].epoch < sess[t].epoch + 1
    BY DEF SessType, OneSess
  <2>2. sess[s].cookie \notin live
    BY <1>1 DEF LoginOK
  <2>3. ASSUME NEW t \in Sessions
        PROVE  /\ sess[t].chan <= sx[t].chan /\ sess[t].epoch <= sx[t].epoch
               /\ \/ sx[t].cookie = sess[t].cookie
                  \/ sess[t].epoch < sx[t].epoch /\ sess[t].cookie \notin live
    <3>1. CASE t = s
      <4>1. /\ sess[s].chan <= sx[s].chan /\ sess[s].epoch <= sx[s].epoch
            /\ sess[s].epoch < sx[s].epoch /\ sess[s].cookie \notin live
        <5>1. sess[s].chan \in Nat /\ sess[s].epoch \in Nat
          BY <1>1 DEF SessType, OneSess
        <5> QED
          BY <1>2, <2>2, <5>1
      <4> QED
        BY <3>1, <4>1
    <3>2. CASE t # s
      BY <1>2, <2>1, <3>2
    <3> QED
      BY <3>1, <3>2
  <2> QED
    BY <2>3 DEF Grows
<1>5. \A r \in Req : ReqOK(r, req[r], sx)
  BY <1>2, <1>4, AgesWith
<1>6. \A t \in Sessions : sx[t].cookie <= issued /\ (t # s => sx[t].cookie = sess[t].cookie)
  BY <1>1, <1>2 DEF LoginOK
<1>7. CASE ~sess[s].channelOpened
  BY <1>2, <1>3, <1>5, <1>6, <1>7, SettleKeeps
<1>8. CASE sess[s].channelOpened
  BY <1>1, <1>2, <1>3, <1>5, <1>6, <1>8, SettleRotated
<1> QED
  BY <1>7, <1>8

LEMMA LoginAnsweredKept == ASSUME IInv, NEW l \in logins, LoginAnswered(l) PROVE Kept
<1> USE Facts
<1>1. l \in LoginType /\ LoginOK(l, sess)
  OBVIOUS
<1>2. l.step = "answered" /\ l.res \in {"none", "ok", "400", "401", "4xx", "error"}
  BY <1>1 DEF LoginAnswered, LoginType
<1>3. CASE Settle(l, FALSE, sess, req)
  BY <1>3, SettleSame
<1>4. CASE ~Swapped(l) /\ l.res = "ok"
  BY <1>2, <1>4, LoggedInKept
<1>5. CASE Settle(l, TRUE, [sess EXCEPT ![l.s].loggingOut = TRUE], req)
  <2> DEFINE sx == [sess EXCEPT ![l.s].loggingOut = TRUE]
  <2>1. /\ sx \in SessType
        /\ \A t \in Sessions : /\ sx[t].pendingAuth = sess[t].pendingAuth
                               /\ sx[t].cookie = sess[t].cookie /\ sx[t].epoch = sess[t].epoch
                               /\ sx[t].chan = sess[t].chan
    <3>1. l.s \in Sessions
      BY <1>1 DEF LoginType
    <3>2. sess \in SessType
      OBVIOUS
    <3> QED
      BY <3>1, <3>2, LoggingOutOnly
  <2>2. Settle(l, TRUE, sx, req)
    BY <1>5
  <2> HIDE DEF sx
  <2>3. Grows(sess, sx)
    <3>1. \A t \in Sessions : sess[t].chan <= sess[t].chan /\ sess[t].epoch <= sess[t].epoch
      BY DEF SessType, OneSess
    <3> QED
      BY <2>1, <3>1 DEF Grows
  <2>4. \A r \in Req : ReqOK(r, req[r], sx)
    BY <2>1, <2>3, AgesWith
  <2> QED
    BY <2>1, <2>2, <2>4, SettleKeeps
<1>6. CASE /\ ~LastAttempt(l)
           /\ Step(l, [l EXCEPT !.step = "backoff"])
           /\ UNCHANGED <<sess, req, asked>>
  <2> DEFINE m == [l EXCEPT !.step = "backoff"]
  <2>1. /\ m \in LoginType /\ m.s = l.s /\ m.cookie = l.cookie /\ m.step = "backoff"
        /\ m.tries = l.tries
    BY <1>1 DEF LoginType
  <2>2. Step(l, m) /\ UNCHANGED <<sess, req>>
    BY <1>6
  <2> HIDE DEF m
  <2>3. LoginOK(m, sess)
    BY <1>1, <1>6, <2>1 DEF LoginOK, LastAttempt
  <2> QED
    BY <2>1, <2>2, <2>3, StepKeeps
<1> QED
  BY <1>3, <1>4, <1>5, <1>6 DEF LoginAnswered

-----------------------------------------------------------------------------
(* The ship, and the accounts: requests and logins that stay as they are.     *)

(* Sessions end, and new ones get cookies that nobody has had.                *)
Onward ==
    /\ last' \in Nat /\ issued' \in Nat /\ last <= last' /\ issued <= issued'
    /\ live' \subseteq live \cup {issued + 1}
    /\ refused \subseteq refused'

LEMMA ReqMoves ==
    ASSUME IInv, Onward, NEW r \in Req, req'[r] = req[r], ran'[r] = ran[r],
           \A t \in Sessions : t <= last =>
              /\ sess'[t].chan = sess[t].chan /\ sess'[t].epoch = sess[t].epoch
              /\ sess'[t].cookie = sess[t].cookie
    PROVE  ReqOK(r, req[r], sess)'
<1> DEFINE q == req[r]
<1>1. q \in OneReq /\ ReqOK(r, q, sess) /\ last \in Nat /\ issued \in Nat
  BY Facts
<1>2. q.s \in 0..MaxSession /\ q.cookie \in Nat /\ q.s <= last /\ q.cookie <= issued
  BY <1>1 DEF OneReq, ReqOK, Owned
<1>3. q.s # 0 => q.s \in Sessions
  BY <1>2 DEF Sessions
<1>4. q.s <= last' /\ q.cookie <= issued'
  BY <1>1, <1>2, ConstantsAssumption DEF Onward
<1>5. q.cookie \in live' => q.cookie \in live
  BY <1>1, <1>2 DEF Onward
<1>6. \A c \in ran[r] : c <= issued /\ (c \in Nat => c <= issued' /\ (c \in live' => c \in live))
  BY <1>1 DEF Onward, ReqOK, Spent
<1>7. ran[r] \subseteq Nat
  BY DEF IInv, TypeOK
<1> HIDE DEF q
<1>8. Owned(q)' /\ q' = q
  BY <1>1, <1>4 DEF ReqOK, Owned, q
<1>9. q.s # 0 => /\ sess'[q.s].chan = sess[q.s].chan /\ sess'[q.s].epoch = sess[q.s].epoch
                 /\ sess'[q.s].cookie = sess[q.s].cookie
  BY <1>2, <1>3
<1>10. q.st \in OnWire => q.s # 0
  BY <1>1 DEF ReqOK, Owned
<1>11. Aged(q, sess)'
  BY <1>1, <1>5, <1>8, <1>9, <1>10 DEF ReqOK, Aged
<1>12. Evidence(q)'
  BY <1>1, <1>5, <1>8 DEF ReqOK, Evidence, Onward
<1>13. Spent(r, q)'
  BY <1>1, <1>6, <1>7, <1>8 DEF ReqOK, Spent
<1> QED
  BY <1>8, <1>11, <1>12, <1>13 DEF ReqOK, q

LEMMA LoginMoves ==
    ASSUME IInv, Onward, NEW l \in logins, sess'[l.s].cookie = sess[l.s].cookie
    PROVE  LoginOK(l, sess)'
<1>1. l \in LoginType /\ LoginOK(l, sess) /\ last \in Nat /\ issued \in Nat
  BY Facts
<1>2. l.s \in Sessions /\ l.cookie \in Nat /\ l.s \in Nat
  BY <1>1 DEF LoginType, Sessions
<1>3. sess[l.s].cookie \in Nat /\ sess[l.s].cookie <= issued
  BY <1>2, Facts DEF SessType, OneSess
<1>4. sess[l.s].cookie \notin live'
  BY <1>1, <1>3 DEF Onward, LoginOK
<1>5. l.s <= last' /\ l.cookie <= issued'
  BY <1>1, <1>2 DEF Onward, LoginOK
<1> QED
  BY <1>1, <1>4, <1>5 DEF LoginOK, LastAttempt

(* A cookie that is not open stays so. *)
LEMMA LateMoves ==
    ASSUME IInv, Onward, late' \subseteq late, config' <= last', live' \subseteq 1..issued',
           sess' \in SessType, \A t \in Sessions : sess'[t].cookie <= issued'
    PROVE  ShipOK'
<1>1. \A c \in late : c \in Nat /\ c <= issued /\ c \notin live /\ issued \in Nat
  BY DEF IInv, TypeOK, ShipOK
<1>2. \A c \in late : c <= issued' /\ c \notin live'
  BY <1>1 DEF Onward
<1> QED
  BY <1>2 DEF ShipOK

LEMMA OnwardSame ==
    ASSUME IInv, UNCHANGED <<last, issued>>, live' \subseteq live, refused \subseteq refused'
    PROVE  Onward
BY Facts DEF Onward

LEMMA ConfigureKeeps == ASSUME IInv, Configure PROVE IInv'
<1> USE Facts
<1> DEFINE n == last + 1
<1>1. n \in Sessions /\ last' = n /\ config' = n /\ issued' = issued + 1
      /\ UNCHANGED <<logins, late, req, ran, twice, refused, needless, asked>>
  BY ConstantsAssumption DEF Configure, Sessions
<1>2. PICK guest \in BOOLEAN :
         /\ sess' = [sess EXCEPT ![n].cookie = issued + 1, ![n].channelOpened = guest]
         /\ bound' = IF guest THEN bound \cup {[s |-> n, chan |-> 0, cookie |-> 0]} ELSE bound
  BY DEF Configure
<1>3. live' \subseteq live \cup {issued + 1} /\ expiries' \in Nat
  BY TypeParts DEF Configure, IInv
<1>4. /\ sess' \in SessType /\ sess'[n].cookie = issued + 1
      /\ \A t \in Sessions : /\ sess'[t].pendingAuth = sess[t].pendingAuth
                             /\ t # n => sess'[t] = sess[t]
  <2> DEFINE new == [sess[n] EXCEPT !.cookie = issued + 1, !.channelOpened = guest]
  <2>1. sess[n] \in OneSess /\ issued + 1 \in Nat
    BY <1>1 DEF SessType
  <2>2. new \in OneSess /\ new.cookie = issued + 1 /\ new.pendingAuth = sess[n].pendingAuth
    BY <2>1 DEF OneSess
  <2>3. sess' = [sess EXCEPT ![n] = new]
    BY <1>1, <1>2 DEF SessType
  <2> HIDE DEF new, n
  <2> QED
    BY <1>1, <2>2, <2>3 DEF SessType
<1>5. bound' \subseteq [s : Sessions, chan : Nat, cookie : Nat]
  <2>1. [s |-> n, chan |-> 0, cookie |-> 0] \in [s : Sessions, chan : Nat, cookie : Nat]
    BY <1>1
  <2> QED
    BY <1>2, <2>1, TypeParts DEF IInv
<1>6. Onward
  BY <1>1, <1>3 DEF Onward
<1>7. \A t \in Sessions : t <= last => sess'[t] = sess[t]
  BY <1>4 DEF Sessions
<1>8. \A r \in Req : ReqOK(r, req[r], sess)'
  BY <1>1, <1>6, <1>7, ReqMoves
<1>9. \A l \in logins' : LoginOK(l, sess)'
  <2> SUFFICES ASSUME NEW l \in logins PROVE LoginOK(l, sess)'
    BY <1>1
  <2>1. sess'[l.s].cookie = sess[l.s].cookie
    BY <1>7 DEF LoginOK, LoginType
  <2> QED
    BY <1>6, <2>1, LoginMoves
<1>10. ShipOK'
  <2>1. \A t \in Sessions : sess'[t].cookie <= issued'
    <3>1. \A t \in Sessions : sess[t].cookie \in Nat
      BY DEF SessType, OneSess
    <3> QED
      BY <1>1, <1>4, <3>1
  <2>2. live' \subseteq 1..issued'
    BY <1>1, <1>3 DEF IInv, ShipOK
  <2>3. config' <= last'
    BY <1>1
  <2> HIDE DEF n
  <2> QED
    BY <1>1, <1>4, <1>6, <2>1, <2>2, <2>3, LateMoves
<1>11. OneLogin'
  BY <1>1, <1>4 DEF OneLogin
<1>12. TypeOK'
  <2>1. config' \in 0..MaxSession /\ last' \in 0..MaxSession /\ issued' \in Nat /\ live' \subseteq Nat
    BY <1>1, <1>3, TypeParts DEF IInv, Sessions
  <2> HIDE DEF n
  <2> QED
    BY <1>1, <1>3, <1>4, <1>5, <2>1, TypeParts DEF IInv, TypeOK, SessType, OneSess, OneReq, LoginType
<1> QED
  BY <1>1, <1>8, <1>9, <1>10, <1>11, <1>12 DEF IInv, NoNeedlessLogin, RunsOnce

(* The account is configured again, or removed: what it has on the wire fails. *)
LEMMA ReconfigureKeeps == ASSUME IInv, Reconfigure PROVE IInv'
<1> USE Facts
<1>1. /\ config \in Sessions /\ sess' = [sess EXCEPT ![config].loggingOut = FALSE]
      /\ UNCHANGED <<config, last, logins, late, req, ship, asked>>
  BY DEF Reconfigure, Sessions
<1>2. /\ sess' \in SessType
      /\ \A t \in Sessions : /\ sess'[t].cookie = sess[t].cookie /\ sess'[t].epoch = sess[t].epoch
                             /\ sess'[t].chan = sess[t].chan
                             /\ sess'[t].pendingAuth = sess[t].pendingAuth
  <2> DEFINE f == [sess[config] EXCEPT !.loggingOut = FALSE]
  <2>1. sess' = [sess EXCEPT ![config] = f] /\ sess[config] \in OneSess
    BY <1>1 DEF SessType
  <2>2. /\ f \in OneSess /\ f.cookie = sess[config].cookie /\ f.epoch = sess[config].epoch
        /\ f.chan = sess[config].chan /\ f.pendingAuth = sess[config].pendingAuth
    BY <2>1 DEF OneSess
  <2> HIDE DEF f
  <2>3. sess' \in SessType /\ sess'[config] = f /\ \A t \in Sessions \ {config} : sess'[t] = sess[t]
    BY <1>1, <2>1, <2>2 DEF SessType
  <2> QED
    BY <2>2, <2>3
<1>3. Grows(sess, sess')
  <2>1. \A t \in Sessions : sess[t].chan <= sess[t].chan /\ sess[t].epoch <= sess[t].epoch
    BY DEF SessType, OneSess
  <2> QED
    BY <1>2, <2>1 DEF Grows
<1>4. \A r \in Req : ReqOK(r, req'[r], sess')
  BY <1>1, <1>2, <1>3, AgesWith
<1>5. OneLogin'
  BY <1>1, <1>2 DEF OneLogin
<1>6. Kept
  <2>1. \A l \in logins' : LoginOK(l, sess')
    BY <1>1, <1>2 DEF LoginOK, LoginType
  <2>2. /\ req' \in [Req -> OneReq] /\ logins' \subseteq LoginType
        /\ \A t \in Sessions : sess'[t].cookie <= issued
    BY <1>1, <1>2
  <2> QED
    BY <1>2, <1>4, <1>5, <2>1, <2>2 DEF Kept
<1>7. asked' \subseteq Sessions
  BY <1>1 DEF IInv, TypeOK
<1> QED
  BY <1>1, <1>6, <1>7, KeptSuffices

LEMMA RemoveClientKeeps == ASSUME IInv, RemoveClient PROVE IInv'
<1> USE Facts
<1>1. /\ config \in Sessions /\ config' = 0
      /\ req' = [r \in Req |-> IF OnChannel(req[r]) /\ req[r].s = config
                                  /\ req[r].st \in {"wire", "answered"}
                               THEN Ended("failed") ELSE req[r]]
      /\ bound' \subseteq bound
      /\ UNCHANGED <<last, logins, late, live, issued, expiries, ran, twice, refused, needless, asked>>
  BY DEF RemoveClient, Sessions
<1>2. /\ sess' \in SessType
      /\ \A t \in Sessions : /\ sess'[t].cookie = sess[t].cookie /\ sess'[t].epoch = sess[t].epoch
                             /\ sess'[t].chan = sess[t].chan
                             /\ sess'[t].pendingAuth = sess[t].pendingAuth
  <2> DEFINE f == [sess[config] EXCEPT !.channelOpened = TRUE, !.stream = FALSE]
  <2>1. sess' = [sess EXCEPT ![config] = f] /\ sess[config] \in OneSess
    BY <1>1 DEF SessType, RemoveClient
  <2>2. /\ f \in OneSess /\ f.cookie = sess[config].cookie /\ f.epoch = sess[config].epoch
        /\ f.chan = sess[config].chan /\ f.pendingAuth = sess[config].pendingAuth
    BY <2>1, ClosedRecord
  <2> HIDE DEF f
  <2>3. sess' \in SessType /\ sess'[config] = f /\ \A t \in Sessions \ {config} : sess'[t] = sess[t]
    BY <1>1, <2>1, <2>2 DEF SessType
  <2> QED
    BY <2>2, <2>3
<1>3. Onward
  BY <1>1, OnwardSame
<1>4. Ended("failed") \in OneReq /\ Ended("failed").st \notin Waiting
  BY EndedTyped DEF Waiting
<1>5. req' \in [Req -> OneReq] /\ \A r \in Req : req'[r] = req[r] \/ req'[r] = Ended("failed")
  BY <1>1, <1>4
<1>6. ASSUME NEW r \in Req PROVE ReqOK(r, req[r], sess)'
  <2>1. CASE req'[r] = req[r]
    BY <1>1, <1>2, <1>3, <2>1, ReqMoves
  <2>2. CASE req'[r] = Ended("failed")
    <3>1. ReqOK(r, Ended("failed"), sess)
      BY EndedOK
    <3>2. /\ Ended("failed").st = "failed" /\ Ended("failed").s = 0 /\ Ended("failed").kind = "none"
          /\ Ended("failed").cookie = 0
      BY EndedTyped
    <3> QED
      BY <1>1, <2>2, <3>1, <3>2 DEF ReqOK, Owned, Aged, Evidence, Spent, OnWire, Waiting
  <2> QED
    BY <1>5, <2>1, <2>2
<1>7. \A l \in logins' : LoginOK(l, sess)'
  <2> SUFFICES ASSUME NEW l \in logins PROVE LoginOK(l, sess)'
    BY <1>1
  <2>1. sess'[l.s].cookie = sess[l.s].cookie
    BY <1>2 DEF LoginType
  <2> QED
    BY <1>3, <2>1, LoginMoves
<1>8. ShipOK'
  BY <1>1, <1>2 DEF IInv, ShipOK
<1>9. OneLogin'
  <2>1. \A r \in Req : req'[r].st \in Waiting => req'[r] = req[r]
    BY <1>4, <1>5
  <2> QED
    BY <1>1, <1>2, <2>1 DEF OneLogin
<1>10. TypeOK'
  <2>1. config' \in 0..MaxSession
    BY <1>1, ConstantsAssumption
  <2>2. bound' \subseteq [s : Sessions, chan : Nat, cookie : Nat]
    BY <1>1, TypeParts DEF IInv
  <2> QED
    BY <1>1, <1>2, <1>5, <2>1, <2>2, TypeParts DEF IInv, TypeOK, SessType, OneSess, OneReq, LoginType
<1> QED
  BY <1>1, <1>6, <1>7, <1>8, <1>9, <1>10 DEF IInv, NoNeedlessLogin, RunsOnce

(* An answer of the ship that leaves its own state alone. *)
LEMMA AnswerKeeps ==
    ASSUME IInv, NEW r \in Req, NEW w \in OneReq, req' = [req EXCEPT ![r] = w],
           w.st \in OnWire, ReqOK(r, w, sess),
           UNCHANGED <<config, last, sess, logins, late, ship, asked>>
    PROVE  IInv'
<1> USE Facts
<1>1. w.st \notin Waiting
  BY DEF OnWire, Waiting
<1>2. Kept
  BY <1>1, SameGrows, OneKept
<1>3. asked' \subseteq Sessions
  BY DEF IInv, TypeOK
<1> QED
  BY <1>2, <1>3, KeptSuffices

LEMMA ScryArrivesKeeps == ASSUME IInv, NEW r \in Req, ScryArrives(r) PROVE IInv'
<1> USE Facts
<1> DEFINE q == req[r]
           res == IF Identity(q.cookie) # 0 THEN "ok" ELSE "403"
           w == [q EXCEPT !.st = "answered", !.res = res]
<1>1. q \in OneReq /\ q.st = "wire" /\ q.kind = "scry" /\ ReqOK(r, q, sess)
  BY DEF ScryArrives, OnChannel
<1>2. req' = [req EXCEPT ![r] = w] /\ UNCHANGED <<config, last, sess, logins, late, ship, asked>>
  BY DEF ScryArrives
<1>3. res \in {"ok", "403"} /\ (res = "403" => q.cookie \notin live)
  BY TypeParts DEF Identity, IInv, ShipOK
<1> HIDE DEF res
<1>4. /\ w \in OneReq /\ w.st = "answered" /\ w.res = res /\ w.kind = q.kind /\ w.s = q.s
      /\ w.cookie = q.cookie /\ w.epoch = q.epoch /\ w.chan = q.chan /\ w.on = q.on
  BY <1>1, <1>3 DEF OneReq, Steps, OnWire
<1> HIDE DEF w
<1>5. ReqOK(r, w, sess) /\ w.st \in OnWire
  BY <1>1, <1>3, <1>4 DEF ReqOK, Owned, Aged, Evidence, Spent, OnWire, Pokes
<1> QED
  BY <1>2, <1>4, <1>5, AnswerKeeps

LEMMA NameArrivesKeeps == ASSUME IInv, NEW r \in Req, NameArrives(r) PROVE IInv'
<1> USE Facts
<1> DEFINE q == req[r]
           res == IF Identity(q.cookie) # 0 THEN "ok" ELSE "guest"
           w == [q EXCEPT !.st = "named", !.res = res]
<1>1. q \in OneReq /\ q.st = "naming" /\ ReqOK(r, q, sess)
  BY DEF NameArrives
<1>2. req' = [req EXCEPT ![r] = w] /\ UNCHANGED <<config, last, sess, logins, late, ship, asked>>
  BY DEF NameArrives
<1>3. res \in {"ok", "guest"} /\ (res = "guest" => q.cookie \notin live)
  BY TypeParts DEF Identity, IInv, ShipOK
<1> HIDE DEF res
<1>4. /\ w \in OneReq /\ w.st = "named" /\ w.res = res /\ w.kind = q.kind /\ w.s = q.s
      /\ w.cookie = q.cookie /\ w.epoch = q.epoch /\ w.chan = q.chan /\ w.on = q.on
  BY <1>1, <1>3 DEF OneReq, Steps, OnWire
<1> HIDE DEF w
<1>5. ReqOK(r, w, sess) /\ w.st \in OnWire
  BY <1>1, <1>3, <1>4 DEF ReqOK, Owned, Aged, Evidence, Spent, OnWire, Pokes
<1> QED
  BY <1>2, <1>4, <1>5, AnswerKeeps

(* The PUT of a poke that goes out has no open session under which it ran. *)
LEMMA PutArrivesKeeps == ASSUME IInv, NEW r \in Req, PutArrives(r) PROVE IInv'
<1> USE Facts
<1> DEFINE q == req[r]
           who == Identity(q.cookie)
           held == Holder(q.s, q.on)
<1>1. /\ q \in OneReq /\ q.st = "wire" /\ q.kind # "scry" /\ ReqOK(r, q, sess)
      /\ UNCHANGED <<config, last, sess, logins, late, live, issued, expiries, needless, asked>>
  BY DEF PutArrives, OnChannel
<1>2. /\ live \subseteq Nat /\ refused \subseteq Sessions \X Nat /\ ran \in [Req -> SUBSET Nat]
      /\ bound \subseteq [s : Sessions, chan : Nat, cookie : Nat] /\ live \subseteq 1..issued
      /\ twice = {}
  BY TypeParts DEF IInv, ShipOK, RunsOnce
<1>3. who \in Nat /\ (who # 0 => who = q.cookie /\ who \in live /\ who <= issued)
  BY <1>1, <1>2 DEF Identity, OneReq
<1>4. q.s \in Sessions /\ q.on \in Nat
  BY <1>1 DEF ReqOK, Owned, OnWire, OneReq, Sessions
<1>5. ran[r] \cap live = {}
  BY <1>1 DEF ReqOK, Spent
<1>6. PICK res \in {"ok", "403"} :
         /\ req' = [req EXCEPT ![r].st = "answered", ![r].res = res]
         /\ refused' = IF res = "403" THEN refused \cup {<<q.s, q.on>>} ELSE refused
         /\ bound' = bound \/ bound' = bound \cup {[s |-> q.s, chan |-> q.on, cookie |-> who]}
         /\ twice' = {}
         /\ \/ ran' = ran
            \/ who # 0 /\ q.kind \in Pokes /\ res = "ok" /\ ran' = [ran EXCEPT ![r] = @ \cup {who}]
  BY <1>2, <1>5 DEF PutArrives
<1> DEFINE w == [q EXCEPT !.st = "answered", !.res = res]
<1>7. req' = [req EXCEPT ![r] = w]
  BY <1>6
<1>8. /\ w \in OneReq /\ w.st = "answered" /\ w.res = res /\ w.kind = q.kind /\ w.s = q.s
      /\ w.cookie = q.cookie /\ w.epoch = q.epoch /\ w.chan = q.chan /\ w.on = q.on
  BY <1>1 DEF OneReq, Steps, OnWire
<1>9. refused' \subseteq Sessions \X Nat /\ refused \subseteq refused' /\ (res = "403" => <<q.s, q.on>> \in refused')
  BY <1>2, <1>4, <1>6
<1>10. bound' \subseteq [s : Sessions, chan : Nat, cookie : Nat]
  BY <1>2, <1>3, <1>4, <1>6
<1>11. ran' \in [Req -> SUBSET Nat] /\ \A x \in Req \ {r} : ran'[x] = ran[x]
  BY <1>2, <1>3, <1>6
<1>12. \A c \in ran'[r] : \/ c \in ran[r]
                          \/ c = q.cookie /\ c <= issued /\ q.kind \in Pokes /\ res = "ok"
  BY <1>2, <1>3, <1>6
<1> HIDE DEF w
<1>13. req'[r] = w /\ (\A x \in Req \ {r} : req'[x] = req[x]) /\ req' \in [Req -> OneReq]
  BY <1>7, <1>8
<1>14. ReqOK(r, req[r], sess)'
  <2>1. Owned(req[r])' /\ Aged(req[r], sess)'
    BY <1>1, <1>8, <1>13 DEF ReqOK, Owned, Aged, OnWire, Waiting
  <2>2. Evidence(req[r])'
    BY <1>1, <1>8, <1>9, <1>13 DEF Evidence
  <2>3. Spent(r, req[r])'
    <3>1. w.st # "idle" /\ w.kind \in Kinds \cup {"none"}
      BY <1>8 DEF OneReq
    <3>2. ASSUME NEW c \in ran'[r]
          PROVE  /\ c <= issued /\ w.kind \in Pokes \cup {"none"}
                 /\ c \in live => w.res # "403" /\ c = w.cookie
      <4>1. CASE c \in ran[r]
        BY <1>1, <1>5, <1>8, <4>1 DEF ReqOK, Spent
      <4>2. CASE c = q.cookie /\ c <= issued /\ q.kind \in Pokes /\ res = "ok"
        BY <1>8, <4>2
      <4> QED
        BY <1>12, <4>1, <4>2
    <3> QED
      BY <1>1, <1>8, <1>13, <3>2 DEF Spent, OnWire
  <2> QED
    BY <2>1, <2>2, <2>3 DEF ReqOK
<1>15. Onward
  BY <1>1, <1>9, OnwardSame
<1>16. ASSUME NEW x \in Req PROVE ReqOK(x, req[x], sess)'
  <2>1. CASE x = r
    BY <1>14, <2>1
  <2>2. CASE x # r
    BY <1>1, <1>11, <1>13, <1>15, <2>2, ReqMoves
  <2> QED
    BY <2>1, <2>2
<1>17. \A l \in logins' : LoginOK(l, sess)'
  BY <1>1 DEF LoginOK
<1>18. ShipOK'
  BY <1>1 DEF IInv, ShipOK
<1>19. OneLogin'
  <2>1. \A x \in Req : req'[x].st \in Waiting => req'[x] = req[x]
    BY <1>8, <1>13 DEF Waiting
  <2> QED
    BY <1>1, <2>1 DEF OneLogin
<1>20. TypeOK'
  BY <1>1, <1>6, <1>9, <1>10, <1>11, <1>13, TypeParts
     DEF IInv, TypeOK, SessType, OneSess, OneReq, LoginType
<1> QED
  BY <1>1, <1>6, <1>16, <1>17, <1>18, <1>19, <1>20 DEF IInv, NoNeedlessLogin, RunsOnce

(* The ship forgets. *)
LEMMA ShipKeeps ==
    ASSUME IInv, live' \subseteq live, bound' \subseteq bound, expiries' \in Nat,
           UNCHANGED <<config, last, sess, logins, late, req, issued, ran, twice, refused, needless, asked>>
    PROVE  IInv'
<1> USE Facts
<1>1. Onward
  BY OnwardSame
<1>2. \A r \in Req : ReqOK(r, req[r], sess)'
  BY <1>1, ReqMoves
<1>3. \A l \in logins' : LoginOK(l, sess)'
  BY <1>1, LoginMoves
<1>4. ShipOK'
  BY DEF IInv, ShipOK
<1>5. OneLogin'
  BY DEF OneLogin
<1>6. TypeOK'
  BY TypeParts DEF IInv, TypeOK, SessType, OneSess, OneReq, LoginType
<1> QED
  BY <1>2, <1>3, <1>4, <1>5, <1>6 DEF IInv, NoNeedlessLogin, RunsOnce

LEMMA ExpireKeeps == ASSUME IInv, NEW c \in live, Expire(c) PROVE IInv'
<1>1. live' \subseteq live /\ bound' \subseteq bound /\ expiries' = expiries + 1
  BY DEF Expire, Closing
<1>2. expiries' \in Nat
  BY <1>1, TypeParts DEF IInv
<1> QED
  BY <1>1, <1>2, ShipKeeps DEF Expire

LEMMA ReapKeeps == ASSUME IInv, NEW b \in bound, Reap(b) PROVE IInv'
<1>1. live' \subseteq live /\ bound' \subseteq bound /\ expiries' = expiries + 1
  BY DEF Reap
<1>2. expiries' \in Nat
  BY <1>1, TypeParts DEF IInv
<1> QED
  BY <1>1, <1>2, ShipKeeps DEF Reap

(* A login that the ship grants closes nothing, because it arrives with a       *)
(* cookie that is not open.                                                   *)
LEMMA GrantIs ==
    ASSUME IInv, NEW c \in Nat, c \notin live, Grant(c)
    PROVE  /\ live' \subseteq live \cup {issued + 1} /\ issued' = issued + 1 /\ needless' = 0
           /\ bound' \subseteq bound
           /\ UNCHANGED <<expiries, ran, twice, refused>>
<1>1. {c} \cap live = {}
  OBVIOUS
<1>2. Cardinality({c} \cap live) = 0
  BY <1>1, FS_EmptySet
<1> QED
  BY <1>2 DEF IInv, NoNeedlessLogin, Grant, Closing

LEMMA GrantKeeps ==
    ASSUME IInv, NEW c \in Nat, c \notin live, Grant(c), late' \subseteq late, logins' \subseteq LoginType,
           UNCHANGED <<config, last, sess, req, asked>>,
           \A l \in logins' : LoginOK(l, sess)', OneLogin'
    PROVE  IInv'
<1> USE Facts
<1>1. /\ live' \subseteq live \cup {issued + 1} /\ issued' = issued + 1 /\ needless' = 0
      /\ bound' \subseteq bound /\ UNCHANGED <<expiries, ran, twice, refused>>
  BY GrantIs
<1>2. Onward
  BY <1>1 DEF Onward
<1>3. \A r \in Req : ReqOK(r, req[r], sess)'
  BY <1>1, <1>2, ReqMoves
<1>4. ShipOK'
  <2>1. \A t \in Sessions : sess'[t].cookie <= issued'
    <3>1. \A t \in Sessions : sess[t].cookie \in Nat
      BY DEF SessType, OneSess
    <3> QED
      BY <1>1, <3>1
  <2>2. live' \subseteq 1..issued' /\ config' <= last'
    BY <1>1 DEF IInv, ShipOK
  <2> QED
    BY <1>2, <2>1, <2>2, LateMoves
<1>5. TypeOK'
  <2>1. live' \subseteq Nat /\ issued' \in Nat
    BY <1>1, TypeParts DEF IInv
  <2> QED
    BY <1>1, <2>1, TypeParts DEF IInv, TypeOK, SessType, OneSess, OneReq, LoginType
<1> QED
  BY <1>1, <1>3, <1>4, <1>5 DEF IInv, NoNeedlessLogin, RunsOnce

LEMMA LateArrivesKeeps == ASSUME IInv, NEW c \in late, LateArrives(c) PROVE IInv'
<1> USE Facts
<1>1. /\ Grant(c) /\ late' \subseteq late /\ logins' = logins
      /\ UNCHANGED <<config, last, sess, logins, req, asked>>
  BY DEF LateArrives
<1>2. c \in Nat /\ c \notin live
  BY DEF IInv, TypeOK, ShipOK
<1>3. live' \subseteq live \cup {issued + 1} /\ issued' = issued + 1 /\ refused' = refused
  BY <1>1, <1>2, GrantIs
<1>4. Onward
  BY <1>1, <1>3 DEF Onward
<1>5. \A l \in logins' : LoginOK(l, sess)'
  BY <1>1, <1>4, LoginMoves
<1>6. OneLogin'
  BY <1>1 DEF OneLogin
<1> QED
  BY <1>1, <1>2, <1>5, <1>6, GrantKeeps

LEMMA LoginArrivesKeeps == ASSUME IInv, NEW l \in logins, LoginArrives(l) PROVE IInv'
<1> USE Facts
<1>1. /\ l \in LoginType /\ LoginOK(l, sess) /\ l.step = "post"
      /\ UNCHANGED <<config, last, sess, late, req, asked>>
  BY DEF LoginArrives
<1>2. l.cookie \in Nat /\ l.cookie \notin live
  BY <1>1 DEF LoginOK, LoginType
<1>3. ASSUME Grant(l.cookie), Outcome(l, "ok", issued + 1) PROVE IInv'
  <2> DEFINE m == [l EXCEPT !.step = "answered", !.res = "ok", !.cookie = issued + 1]
  <2>1. m \in LoginType /\ m.s = l.s /\ m.cookie = issued + 1 /\ m.step = "answered"
    <3>1. issued + 1 \in Nat
      OBVIOUS
    <3> QED
      BY <1>1, <3>1 DEF LoginType
  <2>2. logins' = (logins \ {l}) \cup {m}
    BY <1>3 DEF Outcome, Step
  <2> HIDE DEF m
  <2>3. live' \subseteq live \cup {issued + 1} /\ issued' = issued + 1 /\ refused' = refused
    BY <1>2, <1>3, GrantIs
  <2>4. Onward
    BY <1>1, <2>3 DEF Onward
  <2>5. ASSUME NEW k \in logins' PROVE LoginOK(k, sess)'
    <3>1. CASE k \in logins
      BY <1>1, <2>4, <3>1, LoginMoves
    <3>2. CASE k = m
      <4>1. LoginOK(l, sess)'
        BY <1>1, <2>4, LoginMoves
      <4>2. l.s <= last' /\ sess'[l.s].cookie \notin live'
        BY <4>1 DEF LoginOK
      <4> QED
        BY <1>1, <2>1, <2>3, <3>2, <4>2 DEF LoginOK
    <3> QED
      BY <2>2, <3>1, <3>2
  <2>6. OneLogin'
    <3>1. \A k, n \in logins' : k.s = n.s => k = n
      BY <2>1, <2>2 DEF OneLogin
    <3>2. \A t \in Sessions : sess'[t].pendingAuth <=> \E k \in logins' : k.s = t
      BY <1>1, <2>1, <2>2 DEF OneLogin
    <3>3. \A x \in Req : req'[x].st \in Waiting => \E k \in logins' : k.s = req'[x].s
      BY <1>1, <2>1, <2>2 DEF OneLogin
    <3> QED
      BY <3>1, <3>2, <3>3 DEF OneLogin
  <2>7. logins' \subseteq LoginType
    BY <2>1, <2>2
  <2> QED
    BY <1>1, <1>2, <1>3, <2>5, <2>6, <2>7, GrantKeeps
<1>4. ASSUME NEW res \in {"400", "401", "4xx", "error"}, Outcome(l, res, 0), UNCHANGED ship PROVE IInv'
  <2> DEFINE m == [l EXCEPT !.step = "answered", !.res = res, !.cookie = 0]
  <2>1. m \in LoginType /\ m.s = l.s /\ m.cookie = 0 /\ m.step = "answered"
    <3>1. 0 \in Nat /\ res \in {"ok", "400", "401", "4xx", "error"}
      OBVIOUS
    <3> QED
      BY <1>1, <3>1 DEF LoginType
  <2>2. Step(l, m)
    BY <1>4 DEF Outcome
  <2> HIDE DEF m
  <2>3. LoginOK(m, sess)
    BY <1>1, <2>1 DEF LoginOK
  <2>4. Kept
    BY <1>1, <2>1, <2>2, <2>3, StepKeeps
  <2>5. asked' \subseteq Sessions
    BY <1>1 DEF IInv, TypeOK
  <2> QED
    BY <1>1, <1>4, <2>4, <2>5, KeptSuffices
<1> QED
  BY <1>3, <1>4 DEF LoginArrives

(* A login that times out may still arrive, with the cookie it was sent with.  *)
LEMMA LoginTimesOutKeeps == ASSUME IInv, NEW l \in logins, LoginTimesOut(l) PROVE IInv'
<1> USE Facts
<1>1. /\ l \in LoginType /\ LoginOK(l, sess) /\ l.step = "post"
      /\ UNCHANGED <<config, last, sess, req, ship, asked>>
      /\ late' = late \cup {l.cookie}
  BY DEF LoginTimesOut
<1>2. l.cookie \in Nat /\ l.cookie \notin live /\ l.cookie <= issued
  BY <1>1 DEF LoginOK, LoginType
<1> DEFINE m == [l EXCEPT !.step = "answered", !.res = "error", !.cookie = 0]
<1>3. m \in LoginType /\ m.s = l.s /\ m.cookie = 0 /\ m.step = "answered"
  <2>1. 0 \in Nat /\ "error" \in {"ok", "400", "401", "4xx", "error"}
    OBVIOUS
  <2> QED
    BY <1>1, <2>1 DEF LoginType
<1>4. Step(l, m)
  BY DEF LoginTimesOut, Outcome
<1> HIDE DEF m
<1>5. LoginOK(m, sess)
  BY <1>1, <1>3 DEF LoginOK
<1>6. Kept
  BY <1>1, <1>3, <1>4, <1>5, StepKeeps
<1>7. /\ UNCHANGED <<config, last, live, bound, issued, expiries, ran, twice, refused, needless>>
      /\ asked' = asked
  BY <1>1 DEF ship
<1>8. ShipOK'
  BY <1>1, <1>2, <1>7 DEF IInv, ShipOK
<1>9. TypeOK'
  BY <1>1, <1>2, <1>6, <1>7, TypeParts DEF IInv, Kept, TypeOK, SessType, OneSess, OneReq, LoginType
<1>10. \A r \in Req : ReqOK(r, req[r], sess)'
  <2>1. ASSUME NEW r \in Req PROVE ReqOK(r, req[r], sess)'
    <3>1. ReqOK(r, req'[r], sess')
      BY <1>6 DEF Kept
    <3>2. Owned(req[r])' /\ Aged(req[r], sess)'
      BY <1>7, <3>1 DEF ReqOK, Owned, Aged
    <3>3. Evidence(req[r])' /\ Spent(r, req[r])'
      BY <1>7, <3>1 DEF ReqOK, Evidence, Spent
    <3> QED
      BY <3>2, <3>3 DEF ReqOK
  <2> QED
    BY <2>1
<1>11. \A k \in logins' : LoginOK(k, sess)'
  BY <1>6, <1>7 DEF Kept, LoginOK
<1> QED
  BY <1>6, <1>7, <1>8, <1>9, <1>10, <1>11 DEF IInv, Kept, NoNeedlessLogin, RunsOnce

-----------------------------------------------------------------------------
(* A failed event source adds to what the ship refused, and evidence stays. *)
LEMMA StreamFailsKeeps == ASSUME IInv, NEW s \in Sessions, StreamFails(s) PROVE IInv'
<1> USE Facts
<1>1. Kept
  BY ResetLogins DEF StreamFails
<1>2. /\ UNCHANGED <<config, last, late, live, bound, issued, ran, twice, needless, asked>>
      /\ expiries' = expiries + 1 /\ refused' = refused \cup {<<s, sess[s].chan>>}
  BY DEF StreamFails, SeamlessReset
<1>3. sess[s].chan \in Nat
  BY DEF SessType, OneSess
<1>4. TypeOK'
  <2>1. refused' \subseteq Sessions \X Nat /\ expiries' \in Nat
    BY <1>2, <1>3, TypeParts DEF IInv
  <2> QED
    BY <1>1, <1>2, <2>1, TypeParts DEF IInv, Kept, TypeOK, SessType, OneSess, OneReq, LoginType
<1>5. ShipOK'
  BY <1>1, <1>2 DEF IInv, ShipOK, Kept
<1>6. ASSUME NEW r \in Req PROVE ReqOK(r, req[r], sess)'
  <2>1. ReqOK(r, req'[r], sess')
    BY <1>1 DEF Kept
  <2>2. Owned(req[r])' /\ Aged(req[r], sess)'
    BY <1>2, <2>1 DEF ReqOK, Owned, Aged
  <2>3. Evidence(req[r])' /\ Spent(r, req[r])'
    BY <1>2, <2>1 DEF ReqOK, Evidence, Spent
  <2> QED
    BY <2>2, <2>3 DEF ReqOK
<1>7. \A l \in logins' : LoginOK(l, sess)'
  BY <1>1, <1>2 DEF Kept, LoginOK
<1>8. NoNeedlessLogin' /\ RunsOnce'
  BY <1>2 DEF IInv, NoNeedlessLogin, RunsOnce
<1> QED
  BY <1>1, <1>4, <1>5, <1>6, <1>7, <1>8 DEF IInv, Kept

-----------------------------------------------------------------------------
LEMMA InitIInv == Init => IInv
<1> SUFFICES ASSUME Init PROVE IInv
  OBVIOUS
<1>1. NewSession \in OneSess /\ NewSession.pendingAuth = FALSE /\ NewSession.cookie = 0
  BY DEF NewSession, OneSess
<1>2. /\ Idle \in OneReq /\ Idle.st = "idle" /\ Idle.s = 0 /\ Idle.cookie = 0
  BY ConstantsAssumption DEF Idle, OneReq, Steps
<1>3. sess \in SessType /\ req \in [Req -> OneReq]
  BY <1>1, <1>2 DEF Init, SessType
<1>4. TypeOK
  BY <1>3, TypeParts, ConstantsAssumption DEF Init
<1>5. ShipOK
  BY <1>1 DEF Init, ShipOK
<1>6. \A r \in Req : ReqOK(r, req[r], sess)
  BY <1>2 DEF Init, ReqOK, Owned, Aged, Evidence, Spent, OnWire, Waiting
<1>7. OneLogin
  BY <1>1, <1>2 DEF Init, OneLogin, Waiting
<1> QED
  BY <1>4, <1>5, <1>6, <1>7 DEF Init, IInv, NoNeedlessLogin, RunsOnce

(* The client's steps, together. *)
LEMMA ClientKeeps ==
    ASSUME IInv, Kept, UNCHANGED <<config, last, late, ship>>, asked' = asked
    PROVE  IInv'
BY KeptSuffices DEF IInv, TypeOK

LEMMA NextIInv == ASSUME IInv, [Next]_vars PROVE IInv'
<1> USE Facts
<1>1. ASSUME NEW r \in Req, NEW k \in Kinds, Call(r, k) PROVE IInv'
  BY <1>1, CallKept, ClientKeeps DEF Call
<1>2. ASSUME NEW r \in Req, Ship(r) PROVE IInv'
  BY <1>2, ScryArrivesKeeps, PutArrivesKeeps, NameArrivesKeeps DEF Ship
<1>3. ASSUME NEW r \in Req, Client(r) PROVE IInv'
  <2>1. CASE Answered(r)
    BY <2>1, AnsweredKept, ClientKeeps DEF Answered
  <2>2. CASE Named(r)
    BY <2>2, NamedKept, ClientKeeps DEF Named
  <2>3. CASE Lost(r)
    BY <2>3, FailKeeps, ClientKeeps DEF Lost
  <2> QED
    BY <1>3, <2>1, <2>2, <2>3 DEF Client
<1>4. ASSUME NEW s \in Sessions, StreamReaped(s) \/ StreamFails(s) PROVE IInv'
  BY <1>4, StreamReapedKeeps, StreamFailsKeeps
<1>5. ASSUME NEW l \in logins, Login(l) PROVE IInv'
  <2>1. CASE CodeFetched(l)
    BY <2>1, CodeFetchedKept, ClientKeeps DEF CodeFetched
  <2>2. CASE CodeFails(l)
    <3>1. asked' \subseteq Sessions
      BY <2>2 DEF CodeFails, LoginType, IInv, TypeOK
    <3> QED
      BY <2>2, <3>1, CodeFailsKept, KeptSuffices DEF CodeFails
  <2>3. CASE LoginArrives(l)
    BY <2>3, LoginArrivesKeeps
  <2>4. CASE LoginTimesOut(l)
    BY <2>4, LoginTimesOutKeeps
  <2>5. CASE LoginAnswered(l)
    <3>1. asked' \subseteq Sessions
      <4>1. asked' = asked \/ asked' = asked \cup {l.s}
        BY <2>5 DEF LoginAnswered
      <4> QED
        BY <4>1 DEF LoginType, IInv, TypeOK
    <3> QED
      BY <2>5, <3>1, LoginAnsweredKept, KeptSuffices DEF LoginAnswered
  <2>6. CASE BackoffEnds(l)
    BY <2>6, BackoffEndsKept, ClientKeeps DEF BackoffEnds
  <2> QED
    BY <1>5, <2>1, <2>2, <2>3, <2>4, <2>5, <2>6 DEF Login
<1>6. CASE UNCHANGED vars
  <2>1. Kept
    BY <1>6 DEF vars, Kept, OneLogin
  <2> QED
    BY <1>6, <2>1, ClientKeeps DEF vars, ship
<1>7. CASE Configure \/ Reconfigure \/ RemoveClient
  BY <1>7, ConfigureKeeps, ReconfigureKeeps, RemoveClientKeeps
<1>8. ASSUME NEW c \in live, Expire(c) PROVE IInv'
  BY <1>8, ExpireKeeps
<1>9. ASSUME NEW b \in bound, Reap(b) PROVE IInv'
  BY <1>9, ReapKeeps
<1>10. ASSUME NEW c \in late, LateArrives(c) PROVE IInv'
  BY <1>10, LateArrivesKeeps
<1> QED
  BY <1>1, <1>2, <1>3, <1>4, <1>5, <1>6, <1>7, <1>8, <1>9, <1>10 DEF Next

(* Spec keeps the inductive invariant. *)
THEOREM Invariant == Spec => []IInv
<1>1. Init => IInv
  BY InitIInv
<1>2. IInv /\ [Next]_vars => IInv'
  BY NextIInv
<1> QED
  BY <1>1, <1>2, PTL DEF Spec

(* Every variable keeps to its type. *)
THEOREM TypeCorrect == Spec => []TypeOK
<1>1. IInv => TypeOK
  BY DEF IInv
<1> QED
  BY <1>1, Invariant, PTL

(* A session has one login under way while pendingAuth is set and none         *)
(* otherwise, and everybody who waits has one to wait for.                    *)
THEOREM OneLoginAtATime == Spec => []OneLogin
<1>1. IInv => OneLogin
  BY DEF IInv
<1> QED
  BY <1>1, Invariant, PTL

(* No login closes a session that is open. *)
THEOREM NoLoginNeedless == Spec => []NoNeedlessLogin
<1>1. IInv => NoNeedlessLogin
  BY DEF IInv
<1> QED
  BY <1>1, Invariant, PTL

(* The ship runs no poke twice for a session that stays open. *)
THEOREM PokesRunOnce == Spec => []RunsOnce
<1>1. IInv => RunsOnce
  BY DEF IInv
<1> QED
  BY <1>1, Invariant, PTL

-----------------------------------------------------------------------------
(* What a step may touch.  Steps of the configured account touch only its      *)
(* session and send only its requests; an event source that is reset takes its *)
(* session a new channel and replays its subscriptions; all others touch no    *)
(* credentials, ask nobody and send nothing.                                  *)
SameCredentials(t) ==
    /\ sess'[t].epoch = sess[t].epoch /\ sess'[t].cookie = sess[t].cookie
    /\ sess'[t].loggingOut = sess[t].loggingOut /\ sess'[t].chan = sess[t].chan

Only(s) ==
    /\ \A t \in Sessions : t # s => SameCredentials(t)
    /\ \A r \in Req : req'[r].st = "wire" /\ req'[r] # req[r] => req'[r].s = s

Quiet ==
    /\ \A t \in Sessions : SameCredentials(t)
    /\ \A r \in Req : req'[r].st = "wire" => req'[r] = req[r]

(* A step that changes the channel of a session does so for a reason. *)
Reason(s) ==
    sess'[s].chan # sess[s].chan =>
        \/ sess'[s].epoch # sess[s].epoch
        \/ <<s, sess[s].chan>> \in refused \cup refused' \/ Holder(s, sess[s].chan) = {}

LEMMA ResendOnly ==
    ASSUME IInv, NEW r \in Req, NEW s \in Sessions, NEW sx \in SessType, NEW rx \in [Req -> OneReq],
           \A t \in Sessions : t # s => /\ sx[t].epoch = sess[t].epoch /\ sx[t].cookie = sess[t].cookie
                                        /\ sx[t].loggingOut = sess[t].loggingOut
                                        /\ sx[t].chan = sess[t].chan,
           \A x \in Req \ {r} : rx[x].st = "wire" /\ rx[x] # req[x] => rx[x].s = s,
           Resend(r, s, sx, rx)
    PROVE  Only(s) /\ \A t \in Sessions : sess'[t].chan = sx[t].chan /\ sess'[t].epoch = sx[t].epoch
<1> DEFINE q == rx[r]
<1>1. q \in OneReq /\ Second(q) \in OneReq
  BY SecondTyped
<1>2. PICK w : req' = [rx EXCEPT ![r] = w] /\ (w.st = "wire" => w.s = s)
  <2>1. CASE sx[s].pendingAuth /\ q.kind \in Pokes \cup {"subscribe"}
    <3>1. req' = [rx EXCEPT ![r] = [Second(q) EXCEPT !.st = "waiting"]]
      BY <2>1 DEF Resend
    <3>2. [Second(q) EXCEPT !.st = "waiting"].st = "waiting"
      BY <1>1 DEF OneReq
    <3> QED
      BY <3>1, <3>2
  <2>2. CASE ~(sx[s].pendingAuth /\ q.kind \in Pokes \cup {"subscribe"})
    <3>1. req' = [rx EXCEPT ![r] = SentOver(Second(q), s, sx)]
      BY <2>2 DEF Resend
    <3>2. SentOver(Second(q), s, sx).s = s
      BY <1>1, SentTyped
    <3> QED
      BY <3>1, <3>2
  <2> QED
    BY <2>1, <2>2
<1>3. sess' = sx \/ sess' = Opened(sx, q, s)
  BY DEF Resend
<1>4. \A t \in Sessions : /\ sess'[t].epoch = sx[t].epoch /\ sess'[t].cookie = sx[t].cookie
                          /\ sess'[t].loggingOut = sx[t].loggingOut /\ sess'[t].chan = sx[t].chan
  BY <1>3, OpenedTyped
<1>5. ASSUME NEW x \in Req, req'[x].st = "wire", req'[x] # req[x] PROVE req'[x].s = s
  <2>1. CASE x = r
    BY <1>2, <1>5, <2>1
  <2>2. CASE x # r
    BY <1>2, <1>5, <2>2
  <2> QED
    BY <2>1, <2>2
<1> QED
  BY <1>4, <1>5 DEF Only, SameCredentials

LEMMA RotateOnceOnly ==
    ASSUME IInv, NEW r \in Req, req[r].st \in {"answered", "named"}, req[r].res = "403",
           OnChannel(req[r]), RotateOnce(r, req[r].s)
    PROVE  Only(req[r].s) /\ \A t \in Sessions : Reason(t)
<1> USE Facts, RefusedOwns
<1> DEFINE s == req[r].s
<1>1. s \in Sessions
  OBVIOUS
<1>2. CASE sess[s].chan = req[r].chan
  <2> DEFINE idle == [req EXCEPT ![r].st = "idle"]
             sx == RotatedSess(sess, req, s)
             rx == RotatedReq(sess, idle, s)
  <2>1. Resend(r, s, sx, rx)
    BY <1>2 DEF RotateOnce
  <2>2. idle \in [Req -> OneReq] /\ \A x \in Req \ {r} : idle[x] = req[x]
    BY DEF OneReq, Steps
  <2>3. /\ sx \in SessType
        /\ \A t \in Sessions : t # s => /\ sx[t].epoch = sess[t].epoch /\ sx[t].cookie = sess[t].cookie
                                        /\ sx[t].loggingOut = sess[t].loggingOut
                                        /\ sx[t].chan = sess[t].chan
    BY <1>1, RotatedSessIs
  <2> HIDE DEF idle
  <2>4. rx \in [Req -> OneReq]
    BY <1>1, <2>2, RotatedReqIs
  <2>5. \A x \in Req \ {r} : rx[x].st = "wire" /\ rx[x] # req[x] => rx[x].s = s
    BY <1>1, <2>2, RotatedReqIs, EndedTyped
  <2> HIDE DEF sx, rx
  <2>6. Only(s) /\ \A t \in Sessions : sess'[t].chan = sx[t].chan
    BY <1>1, <2>1, <2>3, <2>4, <2>5, ResendOnly
  <2>7. <<s, sess[s].chan>> \in refused
    <3>1. ReqOK(r, req[r], sess) /\ req[r].st \in OnWire /\ s # 0 /\ req[r].kind # "scry"
      BY DEF OnWire, OnChannel
    <3>2. req[r].chan <= req[r].on /\ req[r].on <= sess[s].chan /\ <<s, req[r].on>> \in refused
      BY <3>1 DEF ReqOK, Aged, Evidence
    <3>3. req[r].on \in Nat /\ sess[s].chan \in Nat
      BY <1>1 DEF OneReq, SessType, OneSess
    <3>4. req[r].on = sess[s].chan
      BY <1>2, <3>2, <3>3
    <3> QED
      BY <3>2, <3>4
  <2>8. \A t \in Sessions : Reason(t)
    BY <2>3, <2>6, <2>7 DEF Reason
  <2> QED
    BY <2>6, <2>8
<1>3. CASE sess[s].chan # req[r].chan
  <2>1. Resend(r, s, sess, req)
    BY <1>3 DEF RotateOnce
  <2>2. Only(s) /\ \A t \in Sessions : sess'[t].chan = sess[t].chan
    BY <1>1, <2>1, ResendOnly
  <2> QED
    BY <2>2 DEF Reason
<1> QED
  BY <1>2, <1>3

LEMMA FailOnly ==
    ASSUME IInv, NEW r \in Req, Fail(r)
    PROVE  Quiet /\ \A t \in Sessions : Reason(t)
<1>1. Ended("failed").st = "failed"
  BY EndedTyped
<1> QED
  BY <1>1, Facts DEF Fail, Quiet, Reason, SameCredentials

LEMMA ReauthOnceOnly ==
    ASSUME IInv, NEW r \in Req, req[r].st \in {"answered", "named"}, req[r].res # "ok",
           ReauthOnce(r, req[r].s)
    PROVE  (Quiet \/ Only(req[r].s)) /\ \A t \in Sessions : Reason(t)
<1> USE Facts, RefusedOwns
<1> DEFINE s == req[r].s
<1>1. CASE Fail(r)
  BY <1>1, FailOnly
<1>2. CASE Resend(r, s, sess, req)
  <2>1. Only(s) /\ \A t \in Sessions : sess'[t].chan = sess[t].chan
    BY <1>2, ResendOnly
  <2> QED
    BY <2>1 DEF Reason
<1>3. CASE /\ req' = [req EXCEPT ![r].st = "joined", ![r].again = TRUE]
           /\ sess' = sess \/ sess' = [sess EXCEPT ![s].pendingAuth = TRUE]
  <2>1. \A t \in Sessions : SameCredentials(t)
    BY <1>3 DEF SameCredentials, SessType, OneSess
  <2>2. ASSUME NEW x \in Req, req'[x].st = "wire" PROVE req'[x] = req[x]
    <3>1. req' = [req EXCEPT ![r] = [req[r] EXCEPT !.st = "joined", !.again = TRUE]]
      BY <1>3
    <3>2. [req[r] EXCEPT !.st = "joined", !.again = TRUE].st = "joined"
      BY DEF OneReq
    <3> QED
      BY <2>2, <3>1, <3>2
  <2> QED
    BY <2>1, <2>2 DEF Quiet, Reason, SameCredentials
<1> QED
  BY <1>1, <1>2, <1>3 DEF ReauthOnce

LEMMA RetryOnly ==
    ASSUME IInv, NEW r \in Req, req[r].st \in {"answered", "named"}, req[r].res # "ok", Retry(r)
    PROVE  (Quiet \/ Only(config)) /\ \A t \in Sessions : Reason(t)
<1>1. CASE Fail(r)
  BY <1>1, FailOnly
<1>2. CASE config = req[r].s /\ req[r].res = "403" /\ OnChannel(req[r]) /\ RotateOnce(r, req[r].s)
  BY <1>2, RotateOnceOnly
<1>3. CASE config = req[r].s /\ ReauthOnce(r, req[r].s)
  BY <1>3, ReauthOnceOnly
<1> QED
  BY <1>1, <1>2, <1>3 DEF Retry

LEMMA SettleOnly ==
    ASSUME IInv, NEW l \in logins, NEW ok \in BOOLEAN,
           NEW sx \in SessType, NEW rx \in [Req -> OneReq],
           \A t \in Sessions : t # l.s => /\ sx[t].epoch = sess[t].epoch /\ sx[t].cookie = sess[t].cookie
                                          /\ sx[t].loggingOut = sess[t].loggingOut
                                          /\ sx[t].chan = sess[t].chan,
           \A x \in Req : rx[x].st = "wire" /\ rx[x] # req[x] => rx[x].s = l.s,
           Settle(l, ok, sx, rx)
    PROVE  Only(l.s) /\ \A t \in Sessions : sess'[t].chan = sx[t].chan /\ sess'[t].epoch = sx[t].epoch
<1>1. l \in LoginType /\ l.s \in Sessions
  BY Facts DEF LoginType
<1>2. Settled(l, ok, sx, rx)
  BY <1>1, SettleIs
<1>3. \A x \in Req : SentOver(rx[x], l.s, sx).s = l.s /\ Ended("failed").st = "failed"
  BY <1>1, SentTyped, EndedTyped
<1>4. ASSUME NEW x \in Req, req'[x].st = "wire", req'[x] # req[x] PROVE req'[x].s = l.s
  BY <1>2, <1>3, <1>4 DEF Settled
<1> QED
  BY <1>2, <1>4 DEF Only, SameCredentials, Settled

(* A login that is rejected sends nothing. *)
LEMMA SettleQuiet ==
    ASSUME IInv, NEW l \in logins, Settle(l, FALSE, sess, req)
    PROVE  Quiet /\ \A t \in Sessions : Reason(t)
<1>1. l \in LoginType /\ l.s \in Sessions
  BY Facts DEF LoginType
<1>2. Settled(l, FALSE, sess, req)
  BY <1>1, SettleIs, Facts
<1>3. Ended("failed").st = "failed"
  BY EndedTyped
<1>4. \A x \in Req : req'[x].st = "wire" => req'[x] = req[x]
  BY <1>2, <1>3 DEF Settled
<1> QED
  BY <1>2, <1>4 DEF Quiet, Reason, SameCredentials, Settled

LEMMA SettleRotatedOnly ==
    ASSUME IInv, NEW l \in logins, NEW sx \in SessType,
           \A t \in Sessions : t # l.s => /\ sx[t].epoch = sess[t].epoch /\ sx[t].cookie = sess[t].cookie
                                          /\ sx[t].loggingOut = sess[t].loggingOut
                                          /\ sx[t].chan = sess[t].chan,
           Settle(l, TRUE, RotatedSess(sx, req, l.s), RotatedReq(sx, req, l.s))
    PROVE  Only(l.s) /\ sess'[l.s].epoch = sx[l.s].epoch
<1> DEFINE sy == RotatedSess(sx, req, l.s)  ry == RotatedReq(sx, req, l.s)
<1>1. l.s \in Sessions /\ req \in [Req -> OneReq]
  BY Facts DEF LoginType
<1>2. /\ sy \in SessType /\ ry \in [Req -> OneReq] /\ sy[l.s].epoch = sx[l.s].epoch
      /\ \A t \in Sessions : t # l.s => /\ sy[t].epoch = sx[t].epoch /\ sy[t].cookie = sx[t].cookie
                                        /\ sy[t].loggingOut = sx[t].loggingOut
                                        /\ sy[t].chan = sx[t].chan
  BY <1>1, RotatedSessIs, RotatedReqIs
<1>3. \A x \in Req : ry[x].st = "wire" /\ ry[x] # req[x] => ry[x].s = l.s
  BY <1>1, RotatedReqIs, EndedTyped
<1>4. Settle(l, TRUE, sy, ry)
  OBVIOUS
<1> HIDE DEF sy, ry
<1>5. \A t \in Sessions : t # l.s => /\ sy[t].epoch = sess[t].epoch /\ sy[t].cookie = sess[t].cookie
                                     /\ sy[t].loggingOut = sess[t].loggingOut
                                     /\ sy[t].chan = sess[t].chan
  BY <1>2
<1>6. Only(l.s) /\ \A t \in Sessions : sess'[t].chan = sy[t].chan /\ sess'[t].epoch = sy[t].epoch
  BY <1>2, <1>3, <1>4, <1>5, SettleOnly
<1> QED
  BY <1>1, <1>2, <1>6

LEMMA LoginAnsweredOnly ==
    ASSUME IInv, NEW l \in logins, LoginAnswered(l)
    PROVE  (Quiet \/ (config = l.s /\ Only(l.s))) /\ \A t \in Sessions : Reason(t)
<1> USE Facts
<1> DEFINE s == l.s
<1>1. l \in LoginType /\ s \in Sessions
  BY DEF LoginType
<1>2. CASE Settle(l, FALSE, sess, req)
  BY <1>2, SettleQuiet
<1>3. CASE ~Swapped(l) /\ l.res = "ok"
  <2> DEFINE sx == [sess EXCEPT ![s].epoch = @ + 1, ![s].cookie = l.cookie]
  <2>1. /\ sx \in SessType /\ sx[s].epoch = sess[s].epoch + 1
        /\ \A t \in Sessions : t # s => sx[t] = sess[t]
    <3> DEFINE new == [sess[s] EXCEPT !.epoch = sess[s].epoch + 1, !.cookie = l.cookie]
    <3>1. sess[s] \in OneSess /\ sess[s].epoch + 1 \in Nat /\ l.cookie \in Nat
      BY <1>1 DEF SessType, OneSess, LoginType
    <3>2. new \in OneSess /\ new.epoch = sess[s].epoch + 1
      BY <3>1 DEF OneSess
    <3>3. sx = [sess EXCEPT ![s] = new]
      BY <1>1 DEF SessType
    <3> HIDE DEF new, sx
    <3> QED
      BY <1>1, <3>2, <3>3 DEF SessType
  <2>2. IF sess[s].channelOpened
        THEN Settle(l, TRUE, RotatedSess(sx, req, s), RotatedReq(sx, req, s))
        ELSE Settle(l, TRUE, sx, req)
    BY <1>3 DEF LoginAnswered
  <2> HIDE DEF sx
  <2>3. \A t \in Sessions : t # s => /\ sx[t].epoch = sess[t].epoch /\ sx[t].cookie = sess[t].cookie
                                     /\ sx[t].loggingOut = sess[t].loggingOut
                                     /\ sx[t].chan = sess[t].chan
    BY <2>1
  <2>4. Only(s) /\ sess'[s].epoch = sx[s].epoch
    <3>1. CASE ~sess[s].channelOpened
      BY <1>1, <2>1, <2>2, <2>3, <3>1, SettleOnly
    <3>2. CASE sess[s].channelOpened
      BY <1>1, <2>1, <2>2, <2>3, <3>2, SettleRotatedOnly
    <3> QED
      BY <3>1, <3>2
  <2>5. sess[s].epoch \in Nat
    BY <1>1 DEF SessType, OneSess
  <2>6. \A t \in Sessions : Reason(t)
    BY <2>1, <2>4, <2>5 DEF Reason, Only, SameCredentials
  <2> QED
    BY <1>3, <2>4, <2>6 DEF Swapped
<1>4. CASE ~Swapped(l) /\ Settle(l, TRUE, [sess EXCEPT ![s].loggingOut = TRUE], req)
  <2> DEFINE sx == [sess EXCEPT ![s].loggingOut = TRUE]
  <2>1. /\ sx \in SessType
        /\ \A t \in Sessions : sx[t].chan = sess[t].chan /\ (t # s => sx[t] = sess[t])
    BY <1>1, LoggingOutOnly
  <2>2. Settle(l, TRUE, sx, req)
    BY <1>4
  <2> HIDE DEF sx
  <2>3. Only(s) /\ \A t \in Sessions : sess'[t].chan = sx[t].chan
    BY <2>1, <2>2, SettleOnly
  <2> QED
    BY <1>4, <2>1, <2>3 DEF Swapped, Reason
<1>5. CASE UNCHANGED <<sess, req>>
  BY <1>5 DEF Quiet, Reason, SameCredentials
<1> QED
  BY <1>2, <1>3, <1>4, <1>5 DEF LoginAnswered

LEMMA CodeFailsOnly ==
    ASSUME IInv, NEW l \in logins, CodeFails(l)
    PROVE  (Quiet \/ (config = l.s /\ Only(l.s))) /\ \A t \in Sessions : Reason(t)
<1>1. CASE Swapped(l)
  <2>1. (~Swapped(l)) = FALSE
    BY <1>1
  <2>2. Settle(l, FALSE, sess, req)
    BY <1>1, <2>1 DEF CodeFails
  <2> QED
    BY <2>2, SettleQuiet
<1>2. CASE ~Swapped(l)
  <2>1. (~Swapped(l)) \in BOOLEAN
    BY <1>2
  <2>2. Only(l.s) /\ \A t \in Sessions : sess'[t].chan = sess[t].chan
    BY <2>1, SettleOnly, Facts DEF CodeFails
  <2> QED
    BY <1>2, <2>2 DEF Swapped, Reason
<1> QED
  BY <1>1, <1>2

LEMMA CallOnly ==
    ASSUME IInv, NEW r \in Req, NEW k \in Kinds, Call(r, k)
    PROVE  Only(config) /\ \A t \in Sessions : Reason(t)
<1> USE Facts
<1> DEFINE q == [req[r] EXCEPT !.kind = k, !.s = config]
<1>1. config \in Sessions /\ q \in OneReq
  <2>1. config \in Sessions /\ req[r] \in OneReq
    BY DEF Call, Sessions
  <2> QED
    BY <2>1 DEF OneReq
<1>2. SentOver(q, config, sess).s = config
  BY <1>1, SentTyped
<1>3. [q EXCEPT !.st = "waiting"].st = "waiting"
  BY <1>1 DEF OneReq
<1>4. /\ sess' = sess \/ sess' = Opened(sess, q, config)
      /\ \/ req' = [req EXCEPT ![r] = [q EXCEPT !.st = "waiting"]]
         \/ req' = [req EXCEPT ![r] = SentOver(q, config, sess)]
  BY DEF Call
<1> HIDE DEF q
<1>5. \A t \in Sessions : SameCredentials(t)
  BY <1>1, <1>4, OpenedTyped DEF SameCredentials
<1>6. ASSUME NEW x \in Req, req'[x].st = "wire", req'[x] # req[x] PROVE req'[x].s = config
  <2>1. CASE x = r
    BY <1>2, <1>3, <1>4, <1>6, <2>1
  <2>2. CASE x # r
    BY <1>4, <1>6, <2>2
  <2> QED
    BY <2>1, <2>2
<1> QED
  BY <1>5, <1>6 DEF Only, Reason, SameCredentials

LEMMA AnsweredOnly ==
    ASSUME IInv, NEW r \in Req, Answered(r) \/ Named(r)
    PROVE  (Quiet \/ Only(config)) /\ \A t \in Sessions : Reason(t)
<1> USE Facts
<1> DEFINE q == req[r]
<1>1. q \in OneReq /\ q.st \in {"answered", "named"} /\ q.s \in Sessions
  <2>1. q \in OneReq /\ q.st \in {"answered", "named"} /\ ReqOK(r, q, sess)
    BY DEF Answered, Named
  <2> QED
    BY <2>1 DEF ReqOK, Owned, OnWire, OneReq, Sessions
<1>2. CASE q.res # "ok"
  <2>1. Retry(r)
    BY <1>2 DEF Answered, Named
  <2> QED
    BY <1>1, <1>2, <2>1, RetryOnly
<1>3. CASE q.res = "ok"
  <2>1. /\ \/ sess' = sess
           \/ sess' = [sess EXCEPT ![q.s].sse = TRUE, ![q.s].channelOpened = TRUE,
                                   ![q.s].stream = @ \/ ~sess[q.s].sse]
        /\ \/ req' = [req EXCEPT ![r] = Done(q)]
           \/ req' = [req EXCEPT ![r] = [q EXCEPT !.st = "naming", !.cookie = sess[q.s].cookie]]
    BY <1>3 DEF Answered, Named
  <2>2. \A t \in Sessions : SameCredentials(t)
    BY <1>1, <2>1 DEF SameCredentials, SessType, OneSess
  <2>3. /\ Done(q).st = "done"
        /\ [q EXCEPT !.st = "naming", !.cookie = sess[q.s].cookie].st = "naming"
    BY <1>1, DoneTyped DEF OneReq
  <2>4. \A x \in Req : req'[x].st = "wire" => req'[x] = req[x]
    BY <2>1, <2>3
  <2> QED
    BY <2>2, <2>4 DEF Quiet, Reason, SameCredentials
<1> QED
  BY <1>2, <1>3

LEMMA ShipOnly ==
    ASSUME IInv, NEW r \in Req, Ship(r)
    PROVE  Quiet /\ UNCHANGED sess
<1>1. /\ UNCHANGED sess
      /\ \E st \in {"answered", "named"}, res \in {"ok", "403", "guest"} :
            req' = [req EXCEPT ![r].st = st, ![r].res = res]
  BY DEF Ship, ScryArrives, PutArrives, NameArrives
<1>2. PICK st \in {"answered", "named"}, res \in {"ok", "403", "guest"} :
         req' = [req EXCEPT ![r].st = st, ![r].res = res]
  BY <1>1
<1> DEFINE w == [req[r] EXCEPT !.st = st, !.res = res]
<1>5. req \in [Req -> OneReq] /\ req[r] \in OneReq
  BY Facts
<1>6. req' = [req EXCEPT ![r] = w]
  BY <1>2, <1>5
<1>3. w.st = st
  BY <1>5 DEF OneReq
<1> HIDE DEF w
<1>4. \A x \in Req : req'[x].st = "wire" => req'[x] = req[x]
  <2>1. st # "wire" /\ req'[r] = w /\ \A x \in Req \ {r} : req'[x] = req[x]
    BY <1>5, <1>6
  <2> QED
    BY <1>3, <2>1
<1> QED
  BY <1>1, <1>4 DEF Quiet, SameCredentials

(* Who may be touched, and why a channel changes. *)
Apart ==
    /\ \A s \in Sessions : s # config /\ s # config' =>
          /\ Credentials(s)' = Credentials(s)
          /\ s \in asked' => s \in asked
          /\ Rotated(s) => sess[s].stream
    /\ \A r \in Req : req'[r].st = "wire" /\ req'[r] # req[r] =>
          \/ req'[r].s = config
          \/ /\ req'[r].kind = "subscribe" /\ req'[r].s = req[r].s
             /\ sess[req[r].s].stream /\ Rotated(req[r].s)

LEMMA OnlyIsApart ==
    ASSUME Quiet \/ Only(config), asked' = asked \/ asked' = asked \cup {config}
    PROVE  Apart
BY DEF Quiet, Only, Apart, SameCredentials, Credentials, Rotated

LEMMA StillApart ==
    ASSUME UNCHANGED <<sess, req, asked>>
    PROVE  Apart /\ \A t \in Sessions : Reason(t)
BY DEF Apart, Reason, SameCredentials, Credentials, Rotated

(* The event source of an account, configured or not, touches that session only. *)
LEMMA ResetApart ==
    ASSUME IInv, NEW s \in Sessions, StreamReaped(s) \/ StreamFails(s)
    PROVE  Apart /\ \A t \in Sessions : Reason(t)
<1> USE Facts
<1>1. /\ sess[s].stream /\ sess' = RotatedSess(sess, req, s) /\ req' = RotatedReq(sess, req, s)
      /\ asked' = asked
      /\ <<s, sess[s].chan>> \in refused' \/ Holder(s, sess[s].chan) = {}
  BY DEF StreamReaped, StreamFails, SeamlessReset
<1>2. /\ \A t \in Sessions : /\ Credentials(t)' = Credentials(t)
                             /\ t # s => ~Rotated(t)
      /\ sess'[s].chan = sess[s].chan + 1
  BY <1>1, RotatedSessIs DEF Credentials, Rotated
<1>3. Rotated(s)
  BY <1>2 DEF Rotated, SessType, OneSess
<1>4. ASSUME NEW r \in Req, req'[r].st = "wire", req'[r] # req[r]
      PROVE  req'[r].kind = "subscribe" /\ req'[r].s = s /\ req[r].s = s
  BY <1>1, <1>4, RotatedReqIs, EndedTyped
<1>5. Apart
  BY <1>1, <1>2, <1>3, <1>4 DEF Apart
<1>6. \A t \in Sessions : Reason(t)
  BY <1>1, <1>2 DEF Reason, Rotated
<1> QED
  BY <1>5, <1>6

(* What the ship has refused it has refused for good. *)
LEMMA RefusedGrows == ASSUME [Next]_vars PROVE refused \subseteq refused'
<1>1. CASE Configure \/ Reconfigure \/ RemoveClient
  BY <1>1 DEF Configure, Reconfigure, RemoveClient, ship
<1>2. ASSUME NEW r \in Req, (\E k \in Kinds : Call(r, k)) \/ Ship(r) \/ Client(r)
      PROVE  refused \subseteq refused'
  BY <1>2 DEF Call, Ship, ScryArrives, PutArrives, NameArrives, Client, Answered, Named, Lost, ship
<1>3. ASSUME NEW s \in Sessions, StreamReaped(s) \/ StreamFails(s) PROVE refused \subseteq refused'
  BY <1>3 DEF StreamReaped, StreamFails
<1>4. CASE \/ \E c \in live : Expire(c)
           \/ \E b \in bound : Reap(b)
           \/ \E c \in late : LateArrives(c)
  BY <1>4 DEF Expire, Reap, LateArrives, Grant
<1>5. ASSUME NEW l \in logins, Login(l) PROVE refused \subseteq refused'
  BY <1>5 DEF Login, CodeFetched, CodeFails, LoginArrives, LoginTimesOut, LoginAnswered, BackoffEnds,
              Grant, ship
<1>6. CASE UNCHANGED vars
  BY <1>6 DEF vars
<1> QED
  BY <1>1, <1>2, <1>3, <1>4, <1>5, <1>6 DEF Next

LEMMA NextApart ==
    ASSUME IInv, [Next]_vars
    PROVE  Apart /\ \A t \in Sessions : Reason(t)
<1> USE Facts
<1>1. CASE Configure
  <2>1. /\ config' = last + 1 /\ UNCHANGED <<req, asked>>
        /\ \E guest \in BOOLEAN :
              sess' = [sess EXCEPT ![last + 1].cookie = issued + 1, ![last + 1].channelOpened = guest]
    BY <1>1 DEF Configure
  <2>2. \A t \in Sessions : /\ sess'[t].chan = sess[t].chan
                            /\ t # last + 1 => sess'[t] = sess[t]
    BY <2>1 DEF SessType, OneSess
  <2> QED
    BY <2>1, <2>2 DEF Apart, Reason, Credentials, Rotated
<1>2. CASE Reconfigure
  <2>1. UNCHANGED <<req, asked>> /\ sess' = [sess EXCEPT ![config].loggingOut = FALSE]
    BY <1>2 DEF Reconfigure
  <2>2. \A t \in Sessions : /\ sess'[t].chan = sess[t].chan
                            /\ t # config => sess'[t] = sess[t]
    BY <2>1 DEF SessType, OneSess
  <2> QED
    BY <2>1, <2>2 DEF Apart, Reason, Credentials, Rotated
<1>3. CASE RemoveClient
  <2>1. /\ asked' = asked
        /\ sess' = [sess EXCEPT ![config].channelOpened = TRUE, ![config].stream = FALSE]
        /\ \A r \in Req : req'[r] = req[r] \/ req'[r] = Ended("failed")
    BY <1>3 DEF RemoveClient
  <2>2. Ended("failed").st = "failed"
    BY EndedTyped
  <2>3. \A t \in Sessions : SameCredentials(t)
    BY <2>1 DEF SameCredentials, SessType, OneSess
  <2>4. Quiet
    BY <2>1, <2>2, <2>3 DEF Quiet
  <2> QED
    BY <2>1, <2>4, OnlyIsApart DEF Quiet, Reason, SameCredentials
<1>4. ASSUME NEW r \in Req, NEW k \in Kinds, Call(r, k)
      PROVE  Apart /\ \A t \in Sessions : Reason(t)
  BY <1>4, CallOnly, OnlyIsApart DEF Call
<1>5. ASSUME NEW r \in Req, Ship(r) PROVE Apart /\ \A t \in Sessions : Reason(t)
  <2>1. asked' = asked
    BY <1>5 DEF Ship, ScryArrives, PutArrives, NameArrives
  <2> QED
    BY <1>5, <2>1, ShipOnly, OnlyIsApart DEF Reason
<1>6. ASSUME NEW r \in Req, Client(r) PROVE Apart /\ \A t \in Sessions : Reason(t)
  <2>1. asked' = asked
    BY <1>6 DEF Client, Answered, Named, Lost
  <2>2. (Quiet \/ Only(config)) /\ \A t \in Sessions : Reason(t)
    BY <1>6, AnsweredOnly, FailOnly DEF Client, Lost
  <2> QED
    BY <2>1, <2>2, OnlyIsApart
<1>7. ASSUME NEW s \in Sessions, StreamReaped(s) \/ StreamFails(s)
      PROVE  Apart /\ \A t \in Sessions : Reason(t)
  BY <1>7, ResetApart
<1>8. ASSUME NEW l \in logins, Login(l) PROVE Apart /\ \A t \in Sessions : Reason(t)
  <2>1. CASE CodeFetched(l)
    <3>1. asked' = asked
      BY <2>1 DEF CodeFetched
    <3>2. CASE UNCHANGED <<sess, req>>
      BY <3>1, <3>2, StillApart
    <3>3. CASE Settle(l, FALSE, sess, req)
      BY <3>1, <3>3, SettleQuiet, OnlyIsApart
    <3> QED
      BY <2>1, <3>2, <3>3 DEF CodeFetched
  <2>2. CASE CodeFails(l)
    <3>1. asked' = asked \/ (config = l.s /\ asked' = asked \cup {config})
      BY <2>2 DEF CodeFails, Swapped
    <3>2. (Quiet \/ Only(config)) /\ \A t \in Sessions : Reason(t)
      BY <2>2, CodeFailsOnly
    <3> QED
      BY <3>1, <3>2, OnlyIsApart
  <2>3. CASE LoginArrives(l) \/ LoginTimesOut(l)
    BY <2>3, StillApart DEF LoginArrives, LoginTimesOut
  <2>4. CASE LoginAnswered(l)
    <3>1. asked' = asked \/ (config = l.s /\ asked' = asked \cup {config})
      BY <2>4 DEF LoginAnswered, Swapped
    <3>2. (Quiet \/ Only(config)) /\ \A t \in Sessions : Reason(t)
      BY <2>4, LoginAnsweredOnly
    <3> QED
      BY <3>1, <3>2, OnlyIsApart
  <2>5. CASE BackoffEnds(l)
    <3>1. asked' = asked
      BY <2>5 DEF BackoffEnds
    <3>2. CASE UNCHANGED <<sess, req>>
      BY <3>1, <3>2, StillApart
    <3>3. CASE Settle(l, FALSE, sess, req)
      BY <3>1, <3>3, SettleQuiet, OnlyIsApart
    <3> QED
      BY <2>5, <3>2, <3>3 DEF BackoffEnds
  <2> QED
    BY <1>8, <2>1, <2>2, <2>3, <2>4, <2>5 DEF Login
<1>9. CASE UNCHANGED vars
  BY <1>9, StillApart DEF vars
<1>10. CASE \/ \E c \in live : Expire(c)
            \/ \E b \in bound : Reap(b)
            \/ \E c \in late : LateArrives(c)
  BY <1>10, StillApart DEF Expire, Reap, LateArrives
<1> QED
  BY <1>1, <1>2, <1>3, <1>4, <1>5, <1>6, <1>7, <1>8, <1>9, <1>10 DEF Next

(* Nothing that is still under way for an account that was replaced touches    *)
(* its credentials or asks its user to log in, and requests are sent only for  *)
(* the account that is configured: all but the subscriptions that an event     *)
(* source left behind by the account replays when it is reset.                *)
THEOREM AccountsApart == Spec => AccountsStayApart
<1>1. IInv /\ [Next]_vars =>
         [/\ \A s \in Sessions : s # config /\ s # config' =>
                 /\ Credentials(s)' = Credentials(s)
                 /\ s \in asked' => s \in asked
                 /\ Rotated(s) => sess[s].stream
          /\ \A r \in Req : req'[r].st = "wire" /\ req'[r] # req[r] =>
                 \/ req'[r].s = config
                 \/ /\ req'[r].kind = "subscribe" /\ req'[r].s = req[r].s
                    /\ sess[req[r].s].stream /\ Rotated(req[r].s)]_vars
  BY NextApart DEF Apart
<1> QED
  BY <1>1, Invariant, PTL DEF Spec, AccountsStayApart

(* A channel is given up only after a login, or because the ship refuses it,   *)
(* does not know it or fails its event source.                                *)
THEOREM RotatesCorrect == Spec => RotatesOnlyRefused
<1>1. IInv /\ [Next]_vars =>
         [\A s \in Sessions : Rotated(s) =>
             \/ sess'[s].epoch # sess[s].epoch
             \/ <<s, sess[s].chan>> \in refused' \/ Holder(s, sess[s].chan) = {}]_vars
  BY NextApart, RefusedGrows DEF Reason, Rotated
<1> QED
  BY <1>1, Invariant, PTL DEF Spec, RotatesOnlyRefused

=============================================================================
