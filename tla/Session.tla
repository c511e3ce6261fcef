-------------------------------- MODULE Session --------------------------------
(***************************************************************************)
(* The session layer of the client (api/client/urbit.ts): pokes,           *)
(* subscriptions and scries that log in anew when the ship has forgotten   *)
(* the session, and repeat themselves.  An account that is configured has  *)
(* an object of its own, the session; a logout or a switch of accounts     *)
(* replaces it while requests and logins of the old one are under way.     *)
(*                                                                         *)
(* The ship (external) answers a request by the cookie it carries.  One    *)
(* that it does not know makes a guest of the sender.  A channel belongs   *)
(* to the identity that created it and is closed with its session, and a   *)
(* login closes the session it arrives with.                               *)
(***************************************************************************)
EXTENDS Naturals, FiniteSets

CONSTANTS
    Req,            \* requests
    MaxSession,     \* bound on the accounts configured one after another
    MaxAttempts,    \* MAX_LOGIN_ATTEMPTS
    MaxExpiries     \* bound on sessions, channels and event sources the ship ends by itself

Kinds == {"poke", "noun", "subscribe", "once", "scry"}   \* noun: pokeNoun

ASSUME ConstantsAssumption ==
    /\ MaxSession \in Nat /\ MaxExpiries \in Nat
    /\ MaxAttempts \in Nat \ {0}

VARIABLES
    config,     \* config.session, 0 if there is none
    last,       \* the accounts configured so far
    sess,       \* the fields of each session and of its client
    logins,     \* calls of performReauth that have not settled
    late,       \* cookies of login requests that timed out and may still arrive
    req,        \* each request
    live,       \* the ship: cookies of open sessions
    bound,      \* the ship: channels, with the cookie that opened them, 0 a guest's
    issued,     \* the ship: cookies given out
    expiries,   \* sessions, channels and event sources ended by the ship
    ran,        \* history: the sessions under which the ship ran each poke
    twice,      \* history: pokes it ran again though the earlier session was open
    refused,    \* history: channels the ship refused, or failed the event source of
    needless,   \* history: logins that closed an open session
    asked       \* history: sessions whose handleAuthFailure was called

vars == <<config, last, sess, logins, late, req, live, bound, issued, expiries,
          ran, twice, refused, needless, asked>>
ship == <<live, bound, issued, expiries, ran, twice, refused, needless>>

Sessions == 1..MaxSession
Waiting  == {"waiting", "joined"}
OnWire   == {"wire", "answered", "naming", "named"}
Steps    == {"idle", "done", "failed"} \cup Waiting \cup OnWire

OnChannel(q) == q.kind # "scry"
Pokes == {"poke", "noun"}

NewSession == [epoch |-> 0, cookie |-> 0, loggingOut |-> FALSE, pendingAuth |-> FALSE,
               chan |-> 0, channelOpened |-> FALSE,
               sse |-> FALSE,      \* sseClientInitialized
               stream |-> FALSE]   \* its event source is open, or retrying

Idle == [st |-> "idle", kind |-> "none", s |-> 0, epoch |-> 0, chan |-> 0, on |-> 0, cookie |-> 0,
         again |-> FALSE, res |-> "none"]

Init ==
    /\ config = 0 /\ last = 0
    /\ sess = [s \in Sessions |-> NewSession]
    /\ logins = {} /\ late = {}
    /\ req = [r \in Req |-> Idle]
    /\ live = {} /\ bound = {} /\ issued = 0 /\ expiries = 0
    /\ ran = [r \in Req |-> {}] /\ twice = {}
    /\ refused = {} /\ needless = 0 /\ asked = {}

(* A request that is over: only a subscription is remembered.                 *)
Ended(st) == [Idle EXCEPT !.st = st]
Done(q)   == IF q.kind = "subscribe" THEN [q EXCEPT !.st = "done"] ELSE Ended("done")

-----------------------------------------------------------------------------
(* internalConfigureClient for another account than the current one.  The      *)
(* stored cookie may be one the ship has forgotten, and the client may have    *)
(* opened its channel as a guest, before it had one.                          *)
Configure ==
    /\ config = 0 /\ last < MaxSession
    /\ last' = last + 1 /\ config' = last + 1
    /\ issued' = issued + 1
    /\ \E guest \in BOOLEAN :
        /\ sess' = [sess EXCEPT ![last + 1].cookie = issued + 1, ![last + 1].channelOpened = guest]
        /\ bound' = IF guest THEN bound \cup {[s |-> last + 1, chan |-> 0, cookie |-> 0]} ELSE bound
    /\ \/ live' = live \cup {issued + 1} /\ UNCHANGED expiries
       \/ expiries < MaxExpiries /\ expiries' = expiries + 1 /\ UNCHANGED live
    /\ UNCHANGED <<logins, late, req, ran, twice, refused, needless, asked>>

(* ... and for the account that is configured already. *)
Reconfigure ==
    /\ config # 0 /\ sess[config].loggingOut
    /\ sess' = [sess EXCEPT ![config].loggingOut = FALSE]
    /\ UNCHANGED <<config, last, logins, late, req, ship, asked>>

(* internalRemoveClient: delete aborts the PUTs and the event source of the    *)
(* client and asks the ship, in vain perhaps, to drop the channel; logins and  *)
(* other requests under way are left to notice, one that asks for its name to  *)
(* open an event source nobody will abort.                                    *)
RemoveClient ==
    /\ config # 0
    /\ config' = 0
    /\ sess' = [sess EXCEPT ![config].channelOpened = TRUE, ![config].stream = FALSE]
    /\ req' = [r \in Req |-> IF OnChannel(req[r]) /\ req[r].s = config
                                /\ req[r].st \in {"wire", "answered"}
                             THEN Ended("failed") ELSE req[r]]
    /\ \/ UNCHANGED bound
       \/ bound' = {b \in bound : b.s # config \/ b.chan # sess[config].chan}
    /\ UNCHANGED <<last, logins, late, live, issued, expiries, ran, twice, refused, needless, asked>>

-----------------------------------------------------------------------------
(* captureSendContext and the send itself.  Whatever goes over the channel      *)
(* opens it.                                                                  *)
SentOver(q, s, sx) ==
    [q EXCEPT !.st = "wire", !.s = s, !.epoch = sx[s].epoch, !.chan = sx[s].chan,
              !.on = sx[s].chan, !.cookie = sx[s].cookie, !.res = "none"]

Opened(sx, q, s) == IF OnChannel(q) THEN [sx EXCEPT ![s].channelOpened = TRUE] ELSE sx

(* Every request first waits for a login that is under way.                   *)
Call(r, k) ==
    /\ req[r].st = "idle" /\ config # 0
    /\ LET q == [req[r] EXCEPT !.kind = k, !.s = config]
       IN  IF sess[config].pendingAuth
           THEN /\ req' = [req EXCEPT ![r] = [q EXCEPT !.st = "waiting"]]
                /\ sess' = sess
           ELSE /\ req' = [req EXCEPT ![r] = SentOver(q, config, sess)]
                /\ sess' = Opened(sess, q, config)
    /\ UNCHANGED <<config, last, logins, late, ship, asked>>

(* The ship: a scry is answered by the session alone, and what goes to a      *)
(* channel by whether sender and creator are the same.                        *)
Identity(cookie) == IF cookie \in live THEN cookie ELSE 0
Holder(s, c)     == {b.cookie : b \in {x \in bound : x.s = s /\ x.chan = c}}

ScryArrives(r) ==
    /\ req[r].st = "wire" /\ ~OnChannel(req[r])
    /\ req' = [req EXCEPT ![r].st = "answered",
                          ![r].res = IF Identity(req[r].cookie) # 0 THEN "ok" ELSE "403"]
    /\ UNCHANGED <<config, last, sess, logins, late, ship, asked>>

PutArrives(r) ==
    LET q == req[r]
        who == Identity(q.cookie)
        held == Holder(q.s, q.on)
    IN  /\ q.st = "wire" /\ OnChannel(q)
        /\ \/ /\ \A c \in held : (c = 0) = (who = 0)
              /\ req' = [req EXCEPT ![r].st = "answered", ![r].res = "ok"]
              /\ bound' = IF held = {} THEN bound \cup {[s |-> q.s, chan |-> q.on, cookie |-> who]}
                          ELSE bound
              /\ IF who # 0 /\ q.kind \in Pokes
                 THEN /\ ran' = [ran EXCEPT ![r] = @ \cup {who}]
                      /\ twice' = IF ran[r] \cap live # {} THEN twice \cup {r} ELSE twice
                 ELSE UNCHANGED <<ran, twice>>
              /\ UNCHANGED refused
           \/ /\ \E c \in held : (c = 0) # (who = 0)
              /\ req' = [req EXCEPT ![r].st = "answered", ![r].res = "403"]
              /\ refused' = refused \cup {<<q.s, q.on>>}
              /\ UNCHANGED <<bound, ran, twice>>
        /\ UNCHANGED <<config, last, sess, logins, late, live, issued, expiries,
                       needless, asked>>

(* getOurName, asked after the first PUT on a channel. *)
NameArrives(r) ==
    /\ req[r].st = "naming"
    /\ req' = [req EXCEPT ![r].st = "named",
                          ![r].res = IF Identity(req[r].cookie) # 0 THEN "ok" ELSE "guest"]
    /\ UNCHANGED <<config, last, sess, logins, late, ship, asked>>

(* The ship ends a session, its channels with it, and opens others.           *)
Closing(c, fresh) ==
    /\ live' = (live \ {c}) \cup fresh
    /\ bound' = {b \in bound : b.cookie # c}

Expire(c) ==
    /\ c \in live /\ expiries < MaxExpiries
    /\ Closing(c, {})
    /\ expiries' = expiries + 1
    /\ UNCHANGED <<config, last, sess, logins, late, req, issued, ran, twice, refused, needless,
                   asked>>

(* ... or a channel that it finds idle.                                       *)
Reap(b) ==
    /\ b \in bound /\ expiries < MaxExpiries
    /\ bound' = bound \ {b}
    /\ expiries' = expiries + 1
    /\ UNCHANGED <<config, last, sess, logins, late, req, live, issued, ran, twice, refused,
                   needless, asked>>

-----------------------------------------------------------------------------
(* seamlessReset, on the fields sx and the requests rx of session s: a channel *)
(* for every subscription, none for the pokes and one-shots; the PUT of a noun *)
(* poke goes on.                                                              *)
Replayed(r, rx, s)  == rx[r].kind = "subscribe" /\ rx[r].s = s /\ rx[r].st \in OnWire \cup {"done"}
RotatedSess(sx, rx, s) ==
    [sx EXCEPT ![s].chan = @ + 1, ![s].sse = FALSE, ![s].stream = FALSE,
               ![s].channelOpened = \E r \in Req : Replayed(r, rx, s)]

\* Mutant of RotatedReq: the pokes go to the new channel, too.
RotatedWithPokes(sx, rx, s) ==
    [r \in Req |->
        IF OnChannel(rx[r]) /\ rx[r].s = s /\ rx[r].st \in OnWire \cup {"done"}
        THEN [rx[r] EXCEPT !.again = @ \/ rx[r].st = "done", !.st = "wire",
                           !.on = sx[s].chan + 1, !.cookie = sx[s].cookie, !.res = "none"]
        ELSE rx[r]]

RotatedReq(sx, rx, s) ==
    [r \in Req |->
        IF Replayed(r, rx, s)
        THEN [rx[r] EXCEPT !.again = @ \/ rx[r].st = "done", !.st = "wire",
                           !.on = sx[s].chan + 1, !.cookie = sx[s].cookie, !.res = "none"]
        ELSE IF rx[r].kind \in {"poke", "once"} /\ rx[r].s = s /\ rx[r].st \in OnWire
        THEN Ended("failed") ELSE rx[r]]

SeamlessReset(s) ==
    /\ sess[s].stream
    /\ sess' = RotatedSess(sess, req, s)
    /\ req' = RotatedReq(sess, req, s)
    /\ UNCHANGED <<config, last, logins, late, live, bound, issued, ran, twice, needless, asked>>

(* The event source finds that the ship has dropped the channel, or does not   *)
(* know it yet; nobody asks whether the session is still the configured one.   *)
StreamReaped(s) ==
    /\ Holder(s, sess[s].chan) = {}
    /\ SeamlessReset(s)
    /\ UNCHANGED <<expiries, refused>>

(* ... or the ship answers it with a 500, though it holds the channel.         *)
StreamFails(s) ==
    /\ expiries < MaxExpiries
    /\ SeamlessReset(s)
    /\ expiries' = expiries + 1
    /\ refused' = refused \cup {<<s, sess[s].chan>>}

(* The second try of a request.  A poke and a subscribe wait once more for a   *)
(* login that is under way.                                                   *)
Second(q)        == [q EXCEPT !.again = TRUE, !.res = "none"]

Resend(r, s, sx, rx) ==
    IF sx[s].pendingAuth /\ rx[r].kind \in Pokes \cup {"subscribe"}
    THEN /\ req' = [rx EXCEPT ![r] = [Second(@) EXCEPT !.st = "waiting"]]
         /\ sess' = sx
    ELSE /\ req' = [rx EXCEPT ![r] = SentOver(Second(@), s, sx)]
         /\ sess' = Opened(sx, rx[r], s)

Fail(r) ==
    /\ req' = [req EXCEPT ![r] = Ended("failed")]
    /\ UNCHANGED <<sess, logins>>

\* Mutant of RotateOnce: every refused request rotates.
RotateEach(r, s) ==
    Resend(r, s, RotatedSess(sess, req, s), RotatedReq(sess, [req EXCEPT ![r].st = "idle"], s))

(* rotateChannelOnce: another request may have rotated it. *)
RotateOnce(r, s) ==
    IF sess[s].chan = req[r].chan
    THEN Resend(r, s, RotatedSess(sess, req, s),
                RotatedReq(sess, [req EXCEPT ![r].st = "idle"], s))
    ELSE Resend(r, s, sess, req)

\* Mutant of Refreshed: every failed request logs in.
RefreshedNever(q, s) == FALSE

(* reauthOnce: another request may have logged in. *)
Refreshed(q, s) == sess[s].epoch # q.epoch
StartLogin(s) ==
    LET n == IF \E l \in logins : l.s = s /\ l.n = 1 THEN 2 ELSE 1
    IN  [s |-> s, n |-> n, step |-> "code", tries |-> 0, res |-> "none", cookie |-> 0]

\* Mutant of ReauthOnce: a login under way is not joined.
ReauthEach(r, s) ==
    \/ (Refreshed(req[r], s) \/ sess[s].loggingOut) /\ Resend(r, s, sess, req) /\ UNCHANGED logins
    \/ /\ ~Refreshed(req[r], s) /\ ~sess[s].loggingOut
       /\ req' = [req EXCEPT ![r].st = "joined", ![r].again = TRUE]
       /\ sess' = [sess EXCEPT ![s].pendingAuth = TRUE]
       /\ logins' = logins \cup {StartLogin(s)}

ReauthOnce(r, s) ==
    \/ /\ Refreshed(req[r], s) \/ sess[s].loggingOut
       /\ IF req[r].kind = "once" /\ sess[s].loggingOut
          THEN Fail(r) ELSE Resend(r, s, sess, req) /\ UNCHANGED logins
    \/ /\ ~Refreshed(req[r], s) /\ ~sess[s].loggingOut
       /\ req' = [req EXCEPT ![r].st = "joined", ![r].again = TRUE]
       /\ IF sess[s].pendingAuth THEN UNCHANGED <<sess, logins>>
          ELSE /\ sess' = [sess EXCEPT ![s].pendingAuth = TRUE]
               /\ logins' = logins \cup {StartLogin(s)}

\* Mutant of Retry: the account may have been replaced.
RetryAnyway(r) ==
    LET s == req[r].s
    IN  IF req[r].again THEN Fail(r)
        ELSE IF req[r].res = "403" /\ OnChannel(req[r])
        THEN IF req[r].kind = "once" THEN Fail(r) ELSE RotateOnce(r, s) /\ UNCHANGED logins
        ELSE ReauthOnce(r, s)

(* The catch of each verb. *)
Retry(r) ==
    LET s == req[r].s
    IN  IF config # s \/ req[r].again THEN Fail(r)
        ELSE IF req[r].res = "403" /\ OnChannel(req[r])
        THEN IF req[r].kind = "once" THEN Fail(r) ELSE RotateOnce(r, s) /\ UNCHANGED logins
        ELSE ReauthOnce(r, s)

(* A response reaches the client, or is lost.  Unless there is an event source *)
(* the client asks who it is, and opens one.                                  *)
Answered(r) ==
    LET q == req[r]
    IN  /\ q.st = "answered"
        /\ \/ /\ q.res = "ok"
              /\ req' = [req EXCEPT ![r] =
                            IF OnChannel(q) /\ ~sess[q.s].sse
                            THEN [@ EXCEPT !.st = "naming", !.cookie = sess[q.s].cookie]
                            ELSE Done(@)]
              /\ UNCHANGED <<sess, logins>>
           \/ q.res # "ok" /\ Retry(r)
        /\ UNCHANGED <<config, last, late, ship, asked>>

Named(r) ==
    LET q == req[r]
    IN  /\ q.st = "named"
        /\ \/ /\ q.res = "ok"
              /\ req' = [req EXCEPT ![r] = Done(@)]
              /\ sess' = [sess EXCEPT ![q.s].sse = TRUE, ![q.s].channelOpened = TRUE,
                                      ![q.s].stream = @ \/ ~sess[q.s].sse]
              /\ UNCHANGED logins
           \/ q.res # "ok" /\ Retry(r)
        /\ UNCHANGED <<config, last, late, ship, asked>>

Lost(r) ==
    /\ req[r].st \in OnWire
    /\ Fail(r)
    /\ UNCHANGED <<config, last, late, ship, asked>>

-----------------------------------------------------------------------------

\* Mutant of Settle: pendingAuth outlives a login that is rejected.
SettleOnSuccess(l, ok, sx, rx) ==
    LET await == {r \in Req : rx[r].s = l.s /\ rx[r].st \in Waiting}
    IN  /\ logins' = logins \ {l}
        /\ sess' = [sx EXCEPT ![l.s].pendingAuth = ~ok]
        /\ req' = [r \in Req |-> IF r \in await /\ ok THEN SentOver(rx[r], l.s, sx)
                                 ELSE IF r \in await THEN Ended("failed") ELSE rx[r]]

(* The end of performReauth, with the fields sx and the requests rx: whoever   *)
(* awaited pendingAuth goes on, and fails if it was rejected.  A one-shot is   *)
(* repeated only after a login.                                               *)
Settle(l, ok, sx, rx) ==
    LET s == l.s
        goes(r) == ok /\ ~(rx[r].st = "joined" /\ rx[r].kind = "once"
                           /\ (sx[s].loggingOut \/ sx[s].epoch = rx[r].epoch))
        await == {r \in Req : rx[r].s = s /\ rx[r].st \in Waiting}
        opens == \E r \in await : goes(r) /\ OnChannel(rx[r])
    IN  /\ logins' = logins \ {l}
        /\ sess' = [sx EXCEPT ![s].pendingAuth = FALSE,
                              ![s].channelOpened = @ \/ opens]
        /\ req' = [r \in Req |->
                      IF r \notin await THEN rx[r]
                      ELSE IF ~goes(r) THEN Ended("failed")
                      ELSE SentOver(rx[r], s, sx)]

Step(l, step) == logins' = (logins \ {l}) \cup {step}

\* Mutant of Swapped: the login goes on for an account that was replaced.
SwappedNever(l) == FALSE

Swapped(l) == config # l.s

(* performReauth after the code: the login request goes out. *)
Post(l)       == [l EXCEPT !.step = "post", !.cookie = sess[l.s].cookie, !.res = "none"]

CodeFetched(l) ==
    /\ l.step = "code"
    /\ IF Swapped(l) THEN Settle(l, FALSE, sess, req)
       ELSE Step(l, Post(l)) /\ UNCHANGED <<sess, req>>
    /\ UNCHANGED <<config, last, late, ship, asked>>

CodeFails(l) ==
    /\ l.step = "code"
    /\ Settle(l, ~Swapped(l), sess, req)
    /\ asked' = IF Swapped(l) THEN asked ELSE asked \cup {l.s}
    /\ UNCHANGED <<config, last, late, ship>>

(* The ship: a login closes the session it arrives with.                      *)
Grant(c) ==
    /\ Closing(c, {issued + 1})
    /\ issued' = issued + 1
    /\ needless' = needless + Cardinality({c} \cap live)
    /\ UNCHANGED <<expiries, ran, twice, refused>>

Outcome(l, res, c) == Step(l, [l EXCEPT !.step = "answered", !.res = res, !.cookie = c])

LoginArrives(l) ==
    /\ l.step = "post"
    /\ \/ Grant(l.cookie) /\ Outcome(l, "ok", issued + 1)
       \/ \E res \in {"400", "401", "4xx", "error"} :
              /\ res = "401" => l.cookie \notin live
              /\ Outcome(l, res, 0)
              /\ UNCHANGED ship
    /\ UNCHANGED <<config, last, sess, late, req, asked>>

(* LOGIN_TIMEOUT: the ship may receive the request nevertheless.              *)
LoginTimesOut(l) ==
    /\ l.step = "post"
    /\ late' = late \cup {l.cookie}
    /\ Outcome(l, "error", 0)
    /\ UNCHANGED <<config, last, sess, req, ship, asked>>

LateArrives(c) ==
    /\ c \in late
    /\ late' = late \ {c}
    /\ Grant(c)
    /\ UNCHANGED <<config, last, sess, logins, req, asked>>

\* Mutant of LastAttempt: one attempt too many.
LastAttemptLate(l) == l.tries >= MaxAttempts

LastAttempt(l) == l.tries + 1 >= MaxAttempts

LoginAnswered(l) ==
    LET s == l.s
        loggedIn == [sess EXCEPT ![s].epoch = @ + 1, ![s].cookie = l.cookie]
    IN  /\ l.step = "answered"
        /\ \/ Swapped(l) /\ Settle(l, FALSE, sess, req) /\ UNCHANGED asked
           \/ /\ ~Swapped(l) /\ l.res = "ok"
              /\ IF sess[s].channelOpened
                 THEN Settle(l, TRUE, RotatedSess(loggedIn, req, s), RotatedReq(loggedIn, req, s))
                 ELSE Settle(l, TRUE, loggedIn, req)
              /\ UNCHANGED asked
           \/ /\ ~Swapped(l) /\ l.res = "400"
              /\ Settle(l, TRUE, [sess EXCEPT ![s].loggingOut = TRUE], req)
              /\ asked' = asked \cup {s}
           \/ /\ ~Swapped(l)
              /\ \/ l.res = "4xx"
                 \/ l.res \in {"401", "error"} /\ LastAttempt(l)
              /\ Settle(l, FALSE, sess, req)
              /\ asked' = IF l.res = "401" THEN asked \cup {s} ELSE asked
           \/ /\ ~Swapped(l) /\ l.res \in {"401", "error"} /\ ~LastAttempt(l)
              /\ Step(l, [l EXCEPT !.step = "backoff"])
              /\ UNCHANGED <<sess, req, asked>>
        /\ UNCHANGED <<config, last, late, ship>>

BackoffEnds(l) ==
    /\ l.step = "backoff"
    /\ IF Swapped(l) THEN Settle(l, FALSE, sess, req)
       ELSE Step(l, Post([l EXCEPT !.tries = @ + 1])) /\ UNCHANGED <<sess, req>>
    /\ UNCHANGED <<config, last, late, ship, asked>>

-----------------------------------------------------------------------------
Ship(r)   == ScryArrives(r) \/ PutArrives(r) \/ NameArrives(r)
Client(r) == Answered(r) \/ Named(r) \/ Lost(r)
Login(l)  == \/ CodeFetched(l) \/ CodeFails(l) \/ LoginArrives(l) \/ LoginTimesOut(l)
             \/ LoginAnswered(l) \/ BackoffEnds(l)

Next ==
    \/ Configure \/ Reconfigure \/ RemoveClient
    \/ \E r \in Req : (\E k \in Kinds : Call(r, k)) \/ Ship(r) \/ Client(r)
    \/ \E s \in Sessions : StreamReaped(s) \/ StreamFails(s)
    \/ \E c \in live : Expire(c)
    \/ \E b \in bound : Reap(b)
    \/ \E c \in late : LateArrives(c)
    \/ \E l \in logins : Login(l)

Spec == Init /\ [][Next]_vars

-----------------------------------------------------------------------------
TypeOK ==
    /\ config \in 0..MaxSession /\ last \in 0..MaxSession
    /\ sess \in [Sessions -> [epoch : Nat, cookie : Nat, loggingOut : BOOLEAN,
                              pendingAuth : BOOLEAN, chan : Nat, channelOpened : BOOLEAN,
                              sse : BOOLEAN, stream : BOOLEAN]]
    /\ logins \subseteq [s : Sessions, n : {1, 2},
                         step : {"code", "post", "answered", "backoff"}, tries : 0..(MaxAttempts - 1),
                         res : {"none", "ok", "400", "401", "4xx", "error"}, cookie : Nat]
    /\ late \subseteq Nat
    /\ req \in [Req -> [st : Steps, kind : Kinds \cup {"none"}, s : 0..MaxSession, epoch : Nat, chan : Nat, on : Nat,
                        cookie : Nat, again : BOOLEAN, res : {"none", "ok", "403", "guest"}]]
    /\ live \subseteq Nat /\ issued \in Nat /\ expiries \in Nat /\ needless \in Nat
    /\ bound \subseteq [s : Sessions, chan : Nat, cookie : Nat]
    /\ ran \in [Req -> SUBSET Nat] /\ twice \subseteq Req
    /\ refused \subseteq Sessions \X Nat
    /\ asked \subseteq Sessions

(* A session has a login under way exactly while pendingAuth is set, and never *)
(* two: all requests that fail together share one (reauth).  Nobody waits for  *)
(* a login that has ended: whoever awaits pendingAuth is released with it,     *)
(* though the account is replaced or the login rejected meanwhile.            *)
OneLogin ==
    /\ \A k, l \in logins : k.s = l.s => k = l
    /\ \A s \in Sessions : sess[s].pendingAuth <=> \E l \in logins : l.s = s
    /\ \A r \in Req : req[r].st \in Waiting => \E l \in logins : l.s = req[r].s

(* No login closes a session that was still open.  The ship closes the one a  *)
(* login arrives with, so a second login by a request that failed earlier      *)
(* would cut off everything that runs under the first (reauthOnce).            *)
NoNeedlessLogin == needless = 0

(* Accounts stay apart.  Nothing that is still under way for an account that   *)
(* was replaced changes that session's credentials or asks its user to log in  *)
(* again (abandonIfSwapped), and a request goes out only while the account it  *)
(* was made for is configured, whatever it waited for before: a login, a       *)
(* rotation, a first failure.  The one thing that outlives the account is an   *)
(* event source opened by a request that had its PUT behind it: its reset      *)
(* takes a new channel and replays that session's own subscriptions, no more.  *)
Credentials(s) == <<sess[s].epoch, sess[s].cookie, sess[s].loggingOut>>
Rotated(s)     == sess'[s].chan # sess[s].chan
AccountsStayApart ==
    [][/\ \A s \in Sessions : s # config /\ s # config' =>
             /\ Credentials(s)' = Credentials(s)
             /\ s \in asked' => s \in asked
             /\ Rotated(s) => sess[s].stream
       /\ \A r \in Req : req'[r].st = "wire" /\ req'[r] # req[r] =>
             \/ req'[r].s = config
             \/ /\ req'[r].kind = "subscribe" /\ req'[r].s = req[r].s
                /\ sess[req[r].s].stream /\ Rotated(req[r].s)]_vars

(* A channel is given up only after a login, or because the ship refuses it,   *)
(* does not know it or fails its event source: of several requests refused on  *)
(* the same channel only the first rotates it (rotateChannelOnce), also if the *)
(* event source is reset between them.                                        *)
RotatesOnlyRefused ==
    [][\A s \in Sessions : Rotated(s) =>
            \/ sess'[s].epoch # sess[s].epoch
            \/ <<s, sess[s].chan>> \in refused' \/ Holder(s, sess[s].chan) = {}]_vars

(* The ship never runs a poke twice for a session that stays open: a poke that *)
(* went out on a channel that is rotated, and may have been taken, is not sent *)
(* again, and one that is refused was not taken (the retry of poke).          *)
RunsOnce == twice = {}

=============================================================================
