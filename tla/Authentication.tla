--------------------------- MODULE Authentication ---------------------------
(***************************************************************************)
(* How a request gets its actor: AuthMiddleware on every route, AuthGuard  *)
(* on the guarded ones, both asking RequestAuthenticator, which looks up   *)
(* the session cookie and then the API key, each with an awaited query.    *)
(*                                                                         *)
(* Meanwhile the database goes down and comes back, and credentials cease  *)
(* to be valid and become valid: sessions expire or are deleted, agents    *)
(* are deactivated or their keys rotated, new ones are issued, and a save  *)
(* that was in flight brings an old one back (Sessions, Agents).           *)
(***************************************************************************)
CONSTANTS
    Tokens,      \* well-formed session tokens
    Keys,        \* well-formed API keys
    BadCookies,  \* cookies createSessionToken throws on (under 32 characters)
    BadKeys,     \* bearer values isValid refuses
    None,        \* no cookie, no bearer header, no actor
    Requests

ASSUME AuthenticationAssumption ==
    /\ None \notin Tokens \cup Keys \cup BadCookies \cup BadKeys
    /\ Tokens \cap Keys = {}
    /\ (Tokens \cup Keys) \cap (BadCookies \cup BadKeys) = {}

VARIABLES
    up,      \* whether the database answers
    valid,   \* credentials that a lookup would accept now
    req      \* what each request is doing

vars == <<up, valid, req>>

-----------------------------------------------------------------------------
Idle == [pc |-> "idle"]

Outcomes == {"handler", "401", "503"}

(* proven and outage are history: the presented credentials that have been *)
(* valid since the request arrived, and whether the database was ever down *)
(* since then.                                                             *)
Request == [pc : {"session", "touch", "agent"} \cup Outcomes, in : {"middleware", "guard"},
            guarded : BOOLEAN, cookie : Tokens \cup BadCookies \cup {None},
            bearer : Keys \cup BadKeys \cup {None}, actor : Tokens \cup Keys \cup {None},
            proven : SUBSET (Tokens \cup Keys), outage : BOOLEAN]

Init ==
    /\ up = TRUE
    /\ valid = Tokens \cup Keys
    /\ req = [r \in Requests |-> Idle]

Arrive(r, guarded, cookie, bearer) ==
    /\ req[r] = Idle
    /\ req' = [req EXCEPT ![r] =
                 [pc |-> "session", in |-> "middleware", guarded |-> guarded,
                  cookie |-> cookie, bearer |-> bearer, actor |-> None,
                  proven |-> {cookie, bearer} \cap valid, outage |-> ~ up]]
    /\ UNCHANGED <<up, valid>>

Become(r, q) ==
    /\ req' = [req EXCEPT ![r] = q]
    /\ UNCHANGED <<up, valid>>

\* Mutants: the middleware enforces, or tries again.
AfterMiddlewareBlocking(q) == [q EXCEPT !.pc = "401"]
AfterMiddlewareAgain(q) == [q EXCEPT !.pc = "session"]

\* next(): the guard of a guarded route starts over, any other handler runs.
AfterMiddleware(q) ==
    IF q.guarded THEN [q EXCEPT !.pc = "session", !.in = "guard"]
                 ELSE [q EXCEPT !.pc = "handler"]

\* authenticate returned null.
Denied(q) == IF q.in = "middleware" THEN AfterMiddleware(q) ELSE [q EXCEPT !.pc = "401"]

\* Mutants: a failure taken for an invalid credential, as before THE-67, at
\* once or after the API key has been tried; a guard that lets it pass; and
\* the cookie attached before it has been looked up.
FailedAsDenied(q) == Denied(q)
FailedTriesKey(q) == IF q.pc = "session" THEN [q EXCEPT !.pc = "agent"] ELSE Denied(q)
FailedOpen(q) ==
    IF q.in = "middleware" THEN AfterMiddleware(q) ELSE [q EXCEPT !.pc = "handler"]

FailedAttached(q) == AfterMiddleware([q EXCEPT !.actor = q.cookie])

\* authenticate threw AuthenticationInfrastructureError.
Failed(q) == IF q.in = "middleware" THEN AfterMiddleware(q) ELSE [q EXCEPT !.pc = "503"]

\* authenticate returned an actor: the guard lets a request with one pass.
Authenticated(q, c) == [q EXCEPT !.actor = c, !.pc = "handler"]

\* Mutant: a repository that throws when it finds no row.
LookedUpThrows(q, c, found, missing) == IF up /\ c \in valid THEN found ELSE Failed(q)

\* What a query for credential c makes of the request: it fails, or c is
\* valid and the request goes on as found, or it goes on as missing.
LookedUp(q, c, found, missing) ==
    IF ~ up THEN Failed(q) ELSE IF c \in valid THEN found ELSE missing

(* extractSessionToken, and authenticateSession up to the touch.  A cookie *)
(* findByToken throws on is reported like a failure of the database.       *)
LookUpSession(r) ==
    LET q == req[r]
        next == [q EXCEPT !.pc = "agent"]
    IN  /\ q.pc = "session"
        /\ Become(r, CASE q.cookie = None -> next
                       [] q.cookie \in BadCookies -> Failed(q)
                       [] OTHER -> LookedUp(q, q.cookie, [q EXCEPT !.pc = "touch"], next))

(* touchSessionIfStale, whether it writes, fails or has nothing to do; the *)
(* actor is that of the session read before.                               *)
Touch(r) ==
    /\ req[r].pc = "touch"
    /\ Become(r, Authenticated(req[r], req[r].cookie))

(* extractApiKey and authenticateApiKey. *)
LookUpAgent(r) ==
    LET q == req[r]
    IN  /\ q.pc = "agent"
        /\ Become(r, IF q.bearer \in Keys
                       THEN LookedUp(q, q.bearer, Authenticated(q, q.bearer), Denied(q))
                       ELSE Denied(q))

(* The response is sent. *)
Finish(r) ==
    /\ req[r].pc \in Outcomes
    /\ Become(r, Idle)

(* The database goes down, or comes back. *)
Outage ==
    /\ up' = ~ up
    /\ req' = [r \in Requests |-> IF req[r] = Idle THEN Idle ELSE [req[r] EXCEPT !.outage = TRUE]]
    /\ UNCHANGED valid

(* A session or a key ceases to be valid. *)
Invalidate(c) ==
    /\ valid' = valid \ {c}
    /\ req' = [r \in Requests |->
                 IF req[r] = Idle THEN Idle ELSE [req[r] EXCEPT !.proven = @ \ {c}]]
    /\ UNCHANGED up

(* A session or a key is issued, or becomes valid again. *)
Validate(c) ==
    /\ valid' = valid \cup {c}
    /\ UNCHANGED <<up, req>>

Step(r) == LookUpSession(r) \/ Touch(r) \/ LookUpAgent(r)

Next ==
    \/ \E r \in Requests :
          \/ \E g \in BOOLEAN, c \in Tokens \cup BadCookies \cup {None},
                b \in Keys \cup BadKeys \cup {None} : Arrive(r, g, c, b)
          \/ Step(r)
          \/ Finish(r)
    \/ Outage
    \/ \E c \in valid : Invalidate(c)
    \/ \E c \in (Tokens \cup Keys) \ valid : Validate(c)

Spec == Init /\ [][Next]_vars

-----------------------------------------------------------------------------
(* Types. *)
TypeOK ==
    /\ up \in BOOLEAN
    /\ valid \subseteq Tokens \cup Keys
    /\ req \in [Requests -> {Idle} \cup Request]

At(r, outcome) == req[r].pc = outcome

(* No 401 to a client one of whose credentials was valid all along,        *)
(* whatever the database does between the queries of the middleware and    *)
(* those of the guard: an outage does not present as "everyone got logged  *)
(* out" (auth.middleware.ts:9-11).                                         *)
NoFalse401 == \A r \in Requests : At(r, "401") => req[r].proven = {}

(* A guarded handler runs only for an actor, the holder of a credential    *)
(* the request presented; a failure never opens the door.                  *)
GuardedHandlerHasActor ==
    \A r \in Requests :
        (At(r, "handler") /\ req[r].guarded) =>
            /\ req[r].actor \in {req[r].cookie, req[r].bearer}
            /\ req[r].actor # None

(* With a session valid all along, no failure makes the request act as the *)
(* agent whose key it also carries.                                        *)
SessionGoesFirst ==
    \A r \in Requests :
        req[r] # Idle =>
            (req[r].cookie \in req[r].proven => req[r].actor \in {None, req[r].cookie})

(* Without the guard a request always reaches its handler: the middleware  *)
(* never blocks (auth.middleware.ts:8).                                    *)
PublicNeverBlocked ==
    \A r \in Requests :
        (req[r] # Idle /\ ~ req[r].guarded) => ~ At(r, "401") /\ ~ At(r, "503")

(* "absent/invalid credentials are 401, infrastructure failures are 503"   *)
(* (auth.middleware.ts:9-10): a 503 is owed to a failure of the database   *)
(* while the request was served.                                           *)
UnavailableIsOutage == \A r \in Requests : At(r, "503") => req[r].outage

(* What is left of it: a request whose cookie findByToken does not throw   *)
(* on gets a 503 only for a failure of the database, never for a session   *)
(* or key that is unknown, expired or deactivated, or a key of no valid    *)
(* form, though these come and go between the two rounds of lookups.       *)
UnavailableHasCause ==
    \A r \in Requests :
        (At(r, "503") /\ req[r].cookie \notin BadCookies) => req[r].outage
=============================================================================
