----------------------------- MODULE CustomerSession -----------------------------
\* A customer's session that several requests share: that of a browser, whose cookies
\* the shop front sets and clears (shopfront/src/app/api), or that of a surge in the
\* worker process (customer-session-manager.ts, gateway-client.ts). The user service
\* gives a session token with every access token, and a refresh replaces both; they are
\* set and cleared together, so that one number stands for the pair. Session tokens do
\* not expire here (seven days), access tokens do. Which page of the browser shows what
\* is left out: any of them may be old.
EXTENDS Integers

CONSTANTS
  Caller,               \* pages of the browser, or senders of the surge
  MaxTokens,            \* bound on session tokens
  MaxFaults             \* bound on calls that fail or lose their answer

Token == 1..MaxTokens

VARIABLES
  holder,               \* "browser" or "worker"
  stage,                \* of the worker's session: new, open, closing, closed
  held,                 \* the token in the cookies or in CustomerSession, 0 for none
  token,                \* user_session: status of each token
  lapsed,               \* tokens whose access token has expired
  call,                 \* per caller, the call under way and what it has brought
  doubled,              \* history: two refreshes have replaced one token
  faults

serverVars == <<token, lapsed, doubled>>
sessionVars == <<holder, stage, held, serverVars, call, faults>>

NoCall == [pc |-> "idle", kind |-> "none", carried |-> 0, got |-> 0, answer |-> "none", again |-> FALSE]
Call(kind, carried, again) ==
  [NoCall EXCEPT !.pc = "sent", !.kind = kind, !.carried = carried, !.again = again]

TypeOK ==
  /\ holder \in {"browser", "worker"} /\ stage \in {"new", "open", "closing", "closed"}
  /\ held \in Token \cup {0} /\ token \in [Token -> {"unused", "active", "revoked"}]
  /\ lapsed \subseteq Token /\ doubled \in BOOLEAN /\ faults \in 0..MaxFaults
  /\ \A c \in Caller :
       /\ call[c].pc \in {"idle", "sent", "found", "answered"}
       /\ call[c].kind \in {"none", "request", "login", "refresh", "logout"}
       /\ call[c].carried \in Token \cup {0} /\ call[c].got \in Token \cup {0}
       /\ call[c].answer \in {"none", "ok", "invalid", "401", "lost"} /\ call[c].again \in BOOLEAN

Init ==
  /\ \/ holder = "browser" /\ stage = "open" /\ held = 1
        /\ token = [t \in Token |-> IF t = 1 THEN "active" ELSE "unused"]
     \/ holder = "worker" /\ stage = "new" /\ held = 0 /\ token = [t \in Token |-> "unused"]
  /\ lapsed = {} /\ call = [c \in Caller |-> NoCall] /\ doubled = FALSE /\ faults = 0

At(c, pc) == call[c].pc = pc
Idle == \A c \in Caller : At(c, "idle")

-----------------------------------------------------------------------------
\* The user service, and the gateway in front of it

\* createSession
Created(replaced, c) ==
  \E t \in Token :
    /\ token[t] = "unused" /\ \A u \in Token : u < t => token[u] # "unused"
    /\ token' = [u \in Token |-> IF u = t THEN "active"
                                 ELSE IF u = replaced THEN "revoked" ELSE token[u]]
    /\ call' = [call EXCEPT ![c].pc = "answered", ![c].answer = "ok", ![c].got = t]

ServesLogin(c) ==
  /\ At(c, "sent") /\ call[c].kind = "login" /\ Created(0, c)
  /\ UNCHANGED <<holder, stage, held, lapsed, doubled, faults>>

\* findActiveSession: nothing keeps another refresh from reading the same row.
FindsSession(c) ==
  /\ At(c, "sent") /\ call[c].kind \in {"refresh", "logout"}
  /\ call' = [call EXCEPT ![c] = IF token[@.carried] = "active"
                                 THEN [@ EXCEPT !.pc = "found"]
                                 ELSE [@ EXCEPT !.pc = "answered", !.answer = "invalid"]]
  /\ UNCHANGED <<holder, stage, held, serverVars, faults>>

Replaces(c) ==
  /\ At(c, "found") /\ call[c].kind = "refresh" /\ Created(call[c].carried, c)
  /\ doubled' = (doubled \/ token[call[c].carried] = "revoked")
  /\ UNCHANGED <<holder, stage, held, lapsed, faults>>

Revokes(c) ==
  /\ At(c, "found") /\ call[c].kind = "logout"
  /\ token' = [token EXCEPT ![call[c].carried] = "revoked"]
  /\ call' = [call EXCEPT ![c].pc = "answered", ![c].answer = "ok"]
  /\ UNCHANGED <<holder, stage, held, lapsed, doubled, faults>>

ServesRequest(c) ==
  /\ At(c, "sent") /\ call[c].kind = "request"
  /\ call' = [call EXCEPT ![c].pc = "answered",
                          ![c].answer = IF call[c].carried \in lapsed THEN "401" ELSE "ok"]
  /\ UNCHANGED <<holder, stage, held, serverVars, faults>>

\* The access token lives for fifteen minutes.
AccessLapses ==
  /\ \E t \in Token : token[t] # "unused" /\ lapsed' = lapsed \cup {t}
  /\ UNCHANGED <<holder, stage, held, token, doubled, call, faults>>

\* The call does not reach the service, or its answer does not come back.
Fails(c) ==
  /\ call[c].pc \in {"sent", "answered"} /\ call[c].answer # "lost" /\ faults < MaxFaults
  /\ call' = [call EXCEPT ![c].pc = "answered", ![c].answer = "lost"]
  /\ faults' = faults + 1
  /\ UNCHANGED <<holder, stage, held, serverVars>>

-----------------------------------------------------------------------------
\* The browser

\* The shop front passes on the cookies that the call comes with.
PageSends(c) ==
  /\ holder = "browser" /\ At(c, "idle")
  /\ \/ call' = [call EXCEPT ![c] = Call("login", 0, FALSE)]
     \/ \E kind \in {"request", "refresh", "logout"} :
          held # 0 /\ call' = [call EXCEPT ![c] = Call(kind, held, FALSE)]
  /\ UNCHANGED <<holder, stage, held, serverVars, faults>>

\* proxy and GET of auth/session: a 401 of any request
Expired(answered) == answered.answer = "401"
\* logoutResponse
SignedOut(answered) ==
  answered.answer = "invalid" \/ (answered.kind = "logout" /\ answered.answer = "ok")
Renewed(answered) == answered.kind \in {"login", "refresh"} /\ answered.answer = "ok"

\* Defect: a refresh sets the cookie of the access token only.
PageTakesAccess(c) ==
  /\ holder = "browser" /\ At(c, "answered")
  /\ held' = IF call[c].kind = "login" /\ Renewed(call[c]) THEN call[c].got
             ELSE IF Expired(call[c]) \/ SignedOut(call[c]) THEN 0 ELSE held
  /\ call' = [call EXCEPT ![c] = NoCall]
  /\ UNCHANGED <<holder, stage, serverVars, faults>>

\* The answer sets the cookies or clears them, whatever they are by then.
PageTakes(c) ==
  /\ holder = "browser" /\ At(c, "answered")
  /\ held' = IF Renewed(call[c]) THEN call[c].got
             ELSE IF Expired(call[c]) \/ SignedOut(call[c]) THEN 0 ELSE held
  /\ call' = [call EXCEPT ![c] = NoCall]
  /\ UNCHANGED <<holder, stage, serverVars, faults>>

-----------------------------------------------------------------------------
\* The worker process

\* openSession
Opens(c) ==
  /\ stage = "new" /\ Idle /\ call' = [call EXCEPT ![c] = Call("login", 0, FALSE)]
  /\ UNCHANGED <<holder, stage, held, serverVars, faults>>

Opened(c) ==
  /\ holder = "worker" /\ At(c, "answered") /\ call[c].kind = "login"
  /\ held' = call[c].got
  /\ stage' = IF call[c].answer = "ok" THEN "open" ELSE "closed"
  /\ call' = [call EXCEPT ![c] = NoCall]
  /\ UNCHANGED <<holder, serverVars, faults>>

SenderSends(c) ==
  /\ holder = "worker" /\ stage = "open" /\ At(c, "idle")
  /\ call' = [call EXCEPT ![c] = Call("request", held, FALSE)]
  /\ UNCHANGED <<holder, stage, held, serverVars, faults>>

\* customerRequest: a first 401 is followed by a refresh of the session as it is now.
SenderTakes(c) ==
  /\ holder = "worker" /\ At(c, "answered") /\ call[c].kind = "request"
  /\ call' = [call EXCEPT ![c] = IF @.answer = "401" /\ ~ @.again THEN Call("refresh", held, TRUE)
                                 ELSE NoCall]
  /\ UNCHANGED <<holder, stage, held, serverVars, faults>>

\* refreshSession: the request is repeated, or fails and the session stays as it is.
SenderRefreshed(c) ==
  /\ holder = "worker" /\ At(c, "answered") /\ call[c].kind = "refresh"
  /\ IF call[c].answer = "ok"
     THEN held' = call[c].got /\ call' = [call EXCEPT ![c] = Call("request", @.got, TRUE)]
     ELSE UNCHANGED held /\ call' = [call EXCEPT ![c] = NoCall]
  /\ UNCHANGED <<holder, stage, serverVars, faults>>

\* closeSession, once the senders have ended
Closes(c) ==
  /\ holder = "worker" /\ stage = "open" /\ Idle
  /\ stage' = "closing" /\ call' = [call EXCEPT ![c] = Call("logout", held, FALSE)]
  /\ UNCHANGED <<holder, held, serverVars, faults>>

\* Whatever the answer is.
Closed(c) ==
  /\ holder = "worker" /\ At(c, "answered") /\ call[c].kind = "logout"
  /\ held' = 0 /\ stage' = "closed" /\ call' = [call EXCEPT ![c] = NoCall]
  /\ UNCHANGED <<holder, serverVars, faults>>

-----------------------------------------------------------------------------
CallerStep(c) ==
  \/ ServesLogin(c) \/ FindsSession(c) \/ Replaces(c) \/ Revokes(c) \/ ServesRequest(c) \/ Fails(c)
  \/ PageSends(c) \/ PageTakes(c)
  \/ Opens(c) \/ Opened(c) \/ SenderSends(c) \/ SenderTakes(c) \/ SenderRefreshed(c)
  \/ Closes(c) \/ Closed(c)

Next == AccessLapses \/ \E c \in Caller : CallerStep(c)

Spec == Init /\ [][Next]_sessionVars

\* With no call under way, the tokens at hand are good for a refresh or a sign-out,
\* however calls and answers have overtaken each other, unless an answer was lost
\* (POST of [action]/route.ts, refreshSession).
HeldIsLive == Idle /\ held # 0 /\ faults = 0 => token[held] = "active"

\* A surge that has ended leaves no session behind, unless an answer was lost or two of
\* its senders have replaced one token at once (closeSession).
ClosedIsRevoked ==
  stage = "closed" /\ faults = 0 /\ ~ doubled => \A t \in Token : token[t] # "active"
=============================================================================
