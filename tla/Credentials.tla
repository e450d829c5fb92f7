---------------------------- MODULE Credentials ----------------------------
(***************************************************************************)
(* Accounts and their passwords: the users table, the reset tokens, and    *)
(* the requests of RegisterUserUseCase, LoginUseCase,                      *)
(* RefreshSessionUseCase, RequestPasswordResetUseCase and                  *)
(* CompletePasswordResetUseCase, each a sequence of awaited steps.         *)
(*                                                                         *)
(* Both login and reset read the whole user, change one field in memory    *)
(* and hand the whole user to UserRepositoryDrizzle.save, which writes     *)
(* every column back.  An address never changes, so a user stands for it:  *)
(* of the registrations of one address each has an id of its own, and the  *)
(* unique index on the address lets one of them be stored.                 *)
(*                                                                         *)
(* src has only the port of the reset-token repository, so the token store *)
(* follows how the use cases use it: one atomic statement per call.  Of a  *)
(* session only its owner matters here; Sessions models the rest.  Every   *)
(* registration and reset submits a password of its own, so that histories *)
(* can be told apart; hashes are one-to-one with passwords.                *)
(***************************************************************************)
EXTENDS Integers

CONSTANTS
    Users, Passwords, TokenIds, SessionIds, Requests,
    TokenLife,   \* RESET_TOKEN_DURATION_MS
    MaxTime,     \* bound of the clock
    Absent       \* no row

Row == [password : Passwords, active : BOOLEAN]

ASSUME CredentialsAssumption == TokenLife \in Nat /\ MaxTime \in Nat /\ Absent \notin Row

VARIABLES
    now,
    users,      \* the users table: password and active flag per address
    sessions,   \* the sessions table: whose each session is
    tokens,     \* the reset tokens
    mailed,     \* tokens sent out in an event
    req,        \* what each request is doing
    chosen,     \* history: passwords ever submitted for each user
    latest,     \* history: the passwords the last reset or registration wrote
    welcomed    \* history: registrations answered 201

vars == <<now, users, sessions, tokens, mailed, req, chosen, latest, welcomed>>

-----------------------------------------------------------------------------
\* by is history: the request that created the token.
Token == [id : TokenIds, user : Users, expiresAt : Nat, used : BOOLEAN, by : Requests]

Session == [id : SessionIds, user : Users]

Idle == [pc |-> "idle"]
Registering == [pc : {"insert", "welcome"}, user : Users, copy : Row]
LoggingIn == [pc : {"session", "record"}, user : Users, copy : Row]
Rotating == [pc : {"rotate"}, user : Users, session : SessionIds]
Renewing == [pc : {"renew"}, user : Users]
Asking == [pc : {"invalidate", "create"}, user : Users]
Emitting == [pc : {"emit"}, user : Users, token : TokenIds]
Resetting == [pc : {"user"}, user : Users, token : TokenIds, password : Passwords]
Changing == [pc : {"save", "drop", "mark", "cleanup"}, user : Users, token : TokenIds,
             copy : Row]

Start(r, q) == req' = [req EXCEPT ![r] = q]

Goto(r, pc) == req' = [req EXCEPT ![r].pc = pc]

Taken == {c.password : c \in chosen}

Init ==
    /\ now = 0
    /\ users = [u \in Users |-> Absent]
    /\ sessions = {}
    /\ tokens = {}
    /\ mailed = {}
    /\ req = [r \in Requests |-> Idle]
    /\ chosen = {}
    /\ latest = [u \in Users |-> {}]
    /\ welcomed = {}

\* Mutant: a cache of users that no save evicts from.
FindByEmailCached(u) ==
    IF users[u] = Absent THEN {}
    ELSE {[password |-> c.password, active |-> TRUE] : c \in {d \in chosen : d.user = u}}

FindByEmail(u) == {users[u]} \ {Absent}

-----------------------------------------------------------------------------
(* AuthController.register and RegisterUserUseCase.execute.                *)

\* findByEmail finds nobody; the hash, and the new user in memory.
RegisterLookup(r, u, p) ==
    /\ req[r] = Idle
    /\ p \notin Taken
    /\ FindByEmail(u) = {}
    /\ Start(r, [pc |-> "insert", user |-> u, copy |-> [password |-> p, active |-> TRUE]])
    /\ chosen' = chosen \cup {[user |-> u, password |-> p]}
    /\ UNCHANGED <<now, users, sessions, tokens, mailed, latest, welcomed>>

\* UserRepositoryDrizzle.save: one transaction that writes every column.
SaveUser(u, copy) == users' = [users EXCEPT ![u] = copy]

\* Mutant: the column without its unique index.
EmailFreeAlways(u) == TRUE

\* The unique index on the address.
EmailFree(u) == users[u] = Absent

\* userRepository.save; a second row of one address is refused, and the
\* transaction rolled back with the actors row it had inserted (Abort).
RegisterSave(r) ==
    LET q == req[r]
    IN  /\ q.pc = "insert"
        /\ EmailFree(q.user)
        /\ SaveUser(q.user, q.copy)
        /\ latest' = [latest EXCEPT ![q.user] = {q.copy.password}]
        /\ Goto(r, "welcome")
        /\ UNCHANGED <<now, sessions, tokens, mailed, chosen, welcomed>>

\* The event, then the 201.
RegisterAnswer(r) ==
    /\ req[r].pc = "welcome"
    /\ welcomed' = welcomed \cup {[user |-> req[r].user, password |-> req[r].copy.password]}
    /\ Start(r, Idle)
    /\ UNCHANGED <<now, users, sessions, tokens, mailed, chosen, latest>>

-----------------------------------------------------------------------------
(* LoginUseCase.execute.                                                   *)

\* findByEmail, the active check, and bcrypt's verdict on the copy read.
LoginLookup(r, u, p) ==
    /\ req[r] = Idle
    /\ \E x \in FindByEmail(u) :
          /\ x.active
          /\ p = x.password
          /\ Start(r, [pc |-> "session", user |-> u, copy |-> x])
    /\ UNCHANGED <<now, users, sessions, tokens, mailed, chosen, latest, welcomed>>

\* An id no session has, stored or in the hands of a refresh.
Fresh == SessionIds \ ({s.id : s \in sessions}
                        \cup {req[r].session : r \in {q \in Requests : req[q].pc = "rotate"}})

\* sessionRepository.save (Sessions models it statement by statement).
SaveSession(u) == \E i \in Fresh : sessions' = sessions \cup {[id |-> i, user |-> u]}

LoginSaveSession(r) ==
    /\ req[r].pc = "session"
    /\ SaveSession(req[r].user)
    /\ Goto(r, "record")
    /\ UNCHANGED <<now, users, tokens, mailed, chosen, latest, welcomed>>

\* recordLogin and userRepository.save.
LoginSaveUser(r) ==
    /\ req[r].pc = "record"
    /\ SaveUser(req[r].user, req[r].copy)
    /\ Start(r, Idle)
    /\ UNCHANGED <<now, sessions, tokens, mailed, chosen, latest, welcomed>>

-----------------------------------------------------------------------------
(* RefreshSessionUseCase.execute, which never loads the user.              *)

\* findByToken.
RefreshLookup(r, s) ==
    /\ req[r] = Idle
    /\ Start(r, [pc |-> "rotate", user |-> s.user, session |-> s.id])
    /\ UNCHANGED <<now, users, sessions, tokens, mailed, chosen, latest, welcomed>>

\* deleteByToken, which may find the session gone.
RefreshDelete(r) ==
    /\ req[r].pc = "rotate"
    /\ sessions' = {s \in sessions : s.id # req[r].session}
    /\ Start(r, [pc |-> "renew", user |-> req[r].user])
    /\ UNCHANGED <<now, users, tokens, mailed, chosen, latest, welcomed>>

\* A new session of the same actor, and its save.
RefreshSave(r) ==
    /\ req[r].pc = "renew"
    /\ SaveSession(req[r].user)
    /\ Start(r, Idle)
    /\ UNCHANGED <<now, users, tokens, mailed, chosen, latest, welcomed>>

-----------------------------------------------------------------------------
(* RequestPasswordResetUseCase, execute and executeWithValidation alike.   *)

\* findByEmail and the active check; an inactive user gets no token.
AskLookup(r, u) ==
    /\ req[r] = Idle
    /\ \E x \in FindByEmail(u) : x.active
    /\ Start(r, [pc |-> "invalidate", user |-> u])
    /\ UNCHANGED <<now, users, sessions, tokens, mailed, chosen, latest, welcomed>>

\* Mutant: nothing is invalidated.
SpentNone(u) == tokens

\* invalidateAllForUser.
Spent(u) == {IF t.user = u THEN [t EXCEPT !.used = TRUE] ELSE t : t \in tokens}

AskInvalidate(r) ==
    /\ req[r].pc = "invalidate"
    /\ tokens' = Spent(req[r].user)
    /\ Goto(r, "create")
    /\ UNCHANGED <<now, users, sessions, mailed, chosen, latest, welcomed>>

\* A fresh token, stored with its expiry.
AskCreate(r) ==
    /\ req[r].pc = "create"
    /\ \E i \in TokenIds \ {t.id : t \in tokens} :
          /\ tokens' = tokens \cup {[id |-> i, user |-> req[r].user,
                                     expiresAt |-> now + TokenLife,
                                     used |-> FALSE, by |-> r]}
          /\ Start(r, [pc |-> "emit", user |-> req[r].user, token |-> i])
    /\ UNCHANGED <<now, users, sessions, mailed, chosen, latest, welcomed>>

\* The event that carries the token to the user.
AskEmit(r) ==
    /\ req[r].pc = "emit"
    /\ mailed' = mailed \cup {req[r].token}
    /\ Start(r, Idle)
    /\ UNCHANGED <<now, users, sessions, tokens, chosen, latest, welcomed>>

-----------------------------------------------------------------------------
(* CompletePasswordResetUseCase.execute.                                   *)

\* Mutant: an inactive account may reset.
MayResetAlways(u) == TRUE

MayReset(u) == users[u].active

\* Mutant: the token's id for its user's.
OwnersOfId(t) == {t.id}

OwnersOf(t) == {t.user}

\* findByTokenHash and the checks on the token.
ResetLookup(r, i, p) ==
    /\ req[r] = Idle
    /\ p \notin Taken
    /\ \E t \in tokens :
          /\ t.id = i
          /\ ~ t.used
          /\ now <= t.expiresAt
          /\ \E u \in OwnersOf(t) :
                Start(r, [pc |-> "user", user |-> u, token |-> i, password |-> p])
          /\ chosen' = chosen \cup {[user |-> t.user, password |-> p]}
    /\ UNCHANGED <<now, users, sessions, tokens, mailed, latest, welcomed>>

\* findById, the active check, and the new hash put in the copy.
ResetReadUser(r) ==
    LET q == req[r]
    IN  /\ q.pc = "user"
        /\ MayReset(q.user)
        /\ Start(r, [pc |-> "save", user |-> q.user, token |-> q.token,
                     copy |-> [users[q.user] EXCEPT !.password = q.password]])
        /\ UNCHANGED <<now, users, sessions, tokens, mailed, chosen, latest, welcomed>>

\* userRepository.save.
ResetSaveUser(r) ==
    LET q == req[r]
    IN  /\ q.pc = "save"
        /\ SaveUser(q.user, q.copy)
        /\ latest' = [latest EXCEPT ![q.user] = {q.copy.password}]
        /\ Goto(r, "drop")
        /\ UNCHANGED <<now, sessions, tokens, mailed, chosen, welcomed>>

\* deleteByActorId.
ResetDropSessions(r) ==
    /\ req[r].pc = "drop"
    /\ sessions' = {s \in sessions : s.user # req[r].user}
    /\ Goto(r, "mark")
    /\ UNCHANGED <<now, users, tokens, mailed, chosen, latest, welcomed>>

\* markAsUsed.
ResetMarkUsed(r) ==
    /\ req[r].pc = "mark"
    /\ tokens' = {IF t.id = req[r].token THEN [t EXCEPT !.used = TRUE] ELSE t : t \in tokens}
    /\ Goto(r, "cleanup")
    /\ UNCHANGED <<now, users, sessions, mailed, chosen, latest, welcomed>>

\* invalidateAllForUser, then the answer.
ResetCleanup(r) ==
    /\ req[r].pc = "cleanup"
    /\ tokens' = Spent(req[r].user)
    /\ Start(r, Idle)
    /\ UNCHANGED <<now, users, sessions, mailed, chosen, latest, welcomed>>

-----------------------------------------------------------------------------
(* A statement fails, a check refuses, or the process dies. *)
Abort(r) ==
    /\ req[r] # Idle
    /\ Start(r, Idle)
    /\ UNCHANGED <<now, users, sessions, tokens, mailed, chosen, latest, welcomed>>

(* An operator clears is_active in the database: no use case does. *)
Deactivate(u) ==
    /\ \E x \in FindByEmail(u) : x.active
    /\ users' = [users EXCEPT ![u].active = FALSE]
    /\ UNCHANGED <<now, sessions, tokens, mailed, req, chosen, latest, welcomed>>

Tick ==
    /\ now < MaxTime
    /\ now' = now + 1
    /\ UNCHANGED <<users, sessions, tokens, mailed, req, chosen, latest, welcomed>>

Step(r) ==
    \/ \E u \in Users, p \in Passwords : RegisterLookup(r, u, p)
    \/ RegisterSave(r)
    \/ RegisterAnswer(r)
    \/ \E u \in Users, p \in Passwords : LoginLookup(r, u, p)
    \/ LoginSaveSession(r)
    \/ LoginSaveUser(r)
    \/ \E s \in sessions : RefreshLookup(r, s)
    \/ RefreshDelete(r)
    \/ RefreshSave(r)
    \/ \E u \in Users : AskLookup(r, u)
    \/ AskInvalidate(r)
    \/ AskCreate(r)
    \/ AskEmit(r)
    \/ \E i \in mailed, p \in Passwords : ResetLookup(r, i, p)
    \/ ResetReadUser(r)
    \/ ResetSaveUser(r)
    \/ ResetDropSessions(r)
    \/ ResetMarkUsed(r)
    \/ ResetCleanup(r)
    \/ Abort(r)

Next ==
    \/ \E r \in Requests : Step(r)
    \/ \E u \in Users : Deactivate(u)
    \/ Tick

Spec == Init /\ [][Next]_vars

-----------------------------------------------------------------------------
(* Types. *)
TypeOK ==
    /\ now \in Nat
    /\ users \in [Users -> Row \cup {Absent}]
    /\ sessions \subseteq Session
    /\ tokens \subseteq Token
    /\ mailed \subseteq TokenIds
    /\ req \in [Requests -> {Idle} \cup Registering \cup LoggingIn \cup Rotating \cup Renewing
                              \cup Asking \cup Emitting \cup Resetting \cup Changing]
    /\ chosen \subseteq [user : Users, password : Passwords]
    /\ latest \in [Users -> SUBSET Passwords]
    /\ welcomed \subseteq [user : Users, password : Passwords]

(* Two people may register one address at once, both past the lookup: only *)
(* one of them is told the account is theirs                               *)
(* (register-user.use-case.ts:79-100, auth.controller.ts:111-131).         *)
OneWelcomePerAddress == \A a, b \in welcomed : a.user = b.user => a = b

Active(u) == {t \in tokens : t.user = u /\ ~ t.used}

(* Requests for a reset may race each other past the invalidation, but the *)
(* active tokens of a user come from distinct requests in flight: there    *)
(* are never more of them than requests served at once.                    *)
ActiveTokensBounded ==
    \A u \in Users : \A s, t \in Active(u) : s.by = t.by => s = t

HoldsCopy(r, u) == req[r].pc \in {"insert", "session", "record", "save"} /\ req[r].user = u

Retired(c) ==
    /\ users[c.user] # Absent /\ users[c.user].password # c.password
    /\ \A r \in Requests : HoldsCopy(r, c.user) => req[r].copy.password # c.password
    /\ \A r \in Requests : req[r].pc = "user" => req[r].password # c.password

(* A password that is neither stored nor in the memory of a request never  *)
(* works again: only a login or reset in flight can restore an old one.    *)
RetiredStaysRetired == [][\A c \in chosen : Retired(c) => Retired(c)']_vars

LockedOut(u) ==
    /\ users[u] # Absent /\ ~ users[u].active
    /\ \A r \in Requests : HoldsCopy(r, u) => ~ req[r].copy.active

Renews(r, u) == req[r].pc \in {"rotate", "renew"} /\ req[r].user = u

\* No session of u is stored, and no refresh holds one.
SignedOut(u) == (\A s \in sessions : s.user # u) /\ \A r \in Requests : ~ Renews(r, u)

(* A deactivated account of which no request holds an active copy stays    *)
(* deactivated with the password it has, whatever login and reset do.  A   *)
(* session it still has can be refreshed, since refresh never looks at the *)
(* account: nothing else adds one, and once they are gone none comes back. *)
LockedOutStaysOut ==
    [][\A u \in Users : LockedOut(u) =>
          /\ LockedOut(u)'
          /\ users'[u].password = users[u].password
          /\ (\E s \in sessions' \ sessions : s.user = u) => \E r \in Requests : Renews(r, u)
          /\ SignedOut(u) => SignedOut(u)']_vars

(* "Updating the user's password" (reset-password.use-case.ts:283): the    *)
(* password a reset wrote stays until the next reset writes another.       *)
ResetPasswordSticks == \A u \in Users : \A x \in FindByEmail(u) : latest[u] = {x.password}
=============================================================================
