------------------------------ MODULE Sessions ------------------------------
(***************************************************************************)
(* The life of server-side sessions in modules/identity-access: the        *)
(* sessions table of PostgreSQL, and the requests that read and write it,  *)
(* several at a time.                                                      *)
(*                                                                         *)
(* A handler is a sequence of awaited SQL statements.  Each statement is   *)
(* one action here, and between two of them any other request may run, a   *)
(* statement may fail, and the process may crash.  In particular           *)
(* SessionRepositoryDrizzle.save is two statements, outside a transaction. *)
(*                                                                         *)
(* Session.create draws an id and a token together, both random and both   *)
(* unique, and neither ever changes: one element of Ids stands for the     *)
(* pair.  Time is counted in units of which a session lives a few.         *)
(***************************************************************************)
EXTENDS Integers

CONSTANTS
    Actors,           \* owners of sessions
    Ids,              \* session ids, each with its token
    Requests,         \* HTTP requests the process can serve at once
    Durations,        \* lifetimes login may choose (DEFAULT, EXTENDED)
    DefaultDuration,  \* the lifetime refresh always chooses
    TouchInterval,    \* TOUCH_INTERVAL_MS
    MaxTime           \* bound of the clock: the model stops ticking there

ASSUME ConstantsAssumption ==
    /\ Durations \subseteq Nat \ {0}
    /\ DefaultDuration \in Nat \ {0}
    /\ TouchInterval \in Nat
    /\ MaxTime \in Nat

VARIABLES
    now,      \* Date.now()
    table,    \* the rows of the sessions table
    req,      \* what each request is doing
    issued,   \* tokens that reached a client in a response
    minted,   \* history: what every Session.create made
    revoked   \* history: ids a completed DELETE was meant to end

vars == <<now, table, req, issued, minted, revoked>>

-----------------------------------------------------------------------------
(* Rows and entities.  parent and root are history: the session this one   *)
(* was rotated from (itself after a login), and the login it goes back to. *)

Session == [id : Ids, actor : Actors, createdAt : Nat, expiresAt : Nat,
            lastAccessedAt : Nat, parent : Ids, root : Ids]

Origin == [id : Ids, actor : Actors, createdAt : Nat, expiresAt : Nat,
           parent : Ids, root : Ids]

\* What of a session no code may change once it is created.
OriginOf(s) == [id |-> s.id, actor |-> s.actor, createdAt |-> s.createdAt,
                expiresAt |-> s.expiresAt, parent |-> s.parent, root |-> s.root]

Ops == {"login", "refresh", "visit", "logout"}

Pcs == {"select", "update", "insert", "delete", "record"}

Idle == [pc |-> "idle"]

Serving == [pc : Pcs, op : Ops, session : Session]

\* A refresh before its DELETE: the old session, and the expiry it has
\* already chosen for the new one.
Rotating == [pc : {"rotate"}, op : {"refresh"}, session : Session, expiresAt : Nat]

Busy == Serving \cup Rotating

MintedIds == {m.id : m \in minted}

IsExpired(s) == now >= s.expiresAt

\* Mutant: a write per request, as before the interval was introduced.
IsStaleAlways(s) == TRUE

IsStale(s) == now - s.lastAccessedAt >= TouchInterval

\* Mutants: a sliding expiry, and a touch that backdates.
TouchedSliding(s) == [s EXCEPT !.lastAccessedAt = now, !.expiresAt = now + DefaultDuration]
TouchedBackdated(s) == [s EXCEPT !.lastAccessedAt = s.lastAccessedAt - TouchInterval]

Touched(s) == [s EXCEPT !.lastAccessedAt = now]

\* Whether the save in progress is the bookkeeping write of an authentication.
Touching(q) == q.op \in {"visit", "logout"}

\* Mutant: a lookup cache that no delete evicts from.
FindByTokenCached(i) ==
    {[id |-> m.id, actor |-> m.actor, createdAt |-> m.createdAt, expiresAt |-> m.expiresAt,
      lastAccessedAt |-> m.createdAt, parent |-> m.parent, root |-> m.root] :
        m \in {n \in minted : n.id = i}}

FindByToken(i) == {s \in table : s.id = i}

Without(i) == {s \in table : s.id # i}

\* Mutant: no primary key.
KeyFreeAlways(i) == TRUE

\* The primary key of the table lets an INSERT through.
KeyFree(i) == FindByToken(i) = {}

\* Mutant: the DELETE is never sent.
DeleteByTokenSkipped(i) == UNCHANGED <<table, revoked>>

(* deleteByToken: one DELETE, which need not find a row. *)
DeleteByToken(i) ==
    /\ table' = Without(i)
    /\ revoked' = revoked \cup {i}

-----------------------------------------------------------------------------
Init ==
    /\ now = 0
    /\ table = {}
    /\ req = [r \in Requests |-> Idle]
    /\ issued = {}
    /\ minted = {}
    /\ revoked = {}

Start(r, q) == req' = [req EXCEPT ![r] = q]

Goto(r, pc) == req' = [req EXCEPT ![r].pc = pc]

CreateExpirationDate(d) == now + d

(* Session.create: a fresh id, createdAt and lastAccessedAt the present     *)
(* moment, and an expiry that must lie ahead of it.                        *)
Create(r, op, i, a, expiresAt, parent, root) ==
    LET s == [id |-> i, actor |-> a, createdAt |-> now, expiresAt |-> expiresAt,
              lastAccessedAt |-> now, parent |-> parent, root |-> root]
    IN  /\ now < expiresAt
        /\ i \in Ids \ MintedIds
        /\ minted' = minted \cup {OriginOf(s)}
        /\ Start(r, [pc |-> "select", op |-> op, session |-> s])

(* LoginUseCase.execute once the password is verified (Credentials models  *)
(* the part before): the session is created and its save begins.           *)
Login(r, a, d) ==
    /\ req[r] = Idle
    /\ \E i \in Ids : Create(r, "login", i, a, CreateExpirationDate(d), i, i)
    /\ UNCHANGED <<now, table, issued, revoked>>

(* RequestAuthenticator.authenticateSession for a request that carries the *)
(* token of session i, be it a plain visit or a logout: an unknown or      *)
(* expired session denies it, a stale one is touched and saved first.      *)
Authenticate(r, op, i) ==
    /\ req[r] = Idle
    /\ \E s \in FindByToken(i) :
          /\ ~ IsExpired(s)
          /\ \/ /\ IsStale(s)
                /\ Start(r, [pc |-> "select", op |-> op, session |-> Touched(s)])
             \/ /\ ~ IsStale(s)
                /\ op = "logout"
                /\ Start(r, [pc |-> "delete", op |-> op, session |-> s])
    /\ UNCHANGED <<now, table, issued, minted, revoked>>

(* RefreshSessionUseCase.execute up to its first write: the expiry of the  *)
(* new session is computed here, from the clock before the DELETE.         *)
Refresh(r, i) ==
    /\ req[r] = Idle
    /\ \E s \in FindByToken(i) :
          /\ ~ IsExpired(s)
          /\ Start(r, [pc |-> "rotate", op |-> "refresh", session |-> s,
                       expiresAt |-> CreateExpirationDate(DefaultDuration)])
    /\ UNCHANGED <<now, table, issued, minted, revoked>>

(* deleteByToken of the old session, whether or not it still has a row,    *)
(* then Session.create of the new one for the same actor, created when the *)
(* DELETE has returned and expiring as chosen before it: it throws when    *)
(* that moment has passed, and the client is left with neither session.    *)
Rotate(r) ==
    LET old == req[r].session
        chosen == req[r].expiresAt
    IN  /\ req[r].pc = "rotate"
        /\ DeleteByToken(old.id)
        /\ \/ \E i \in Ids :
                 Create(r, "refresh", i, old.actor, chosen, old.id, old.root)
           \/ /\ chosen <= now
              /\ Start(r, Idle)
              /\ UNCHANGED minted
        /\ UNCHANGED <<now, issued>>

-----------------------------------------------------------------------------
(* SessionRepositoryDrizzle.save: SELECT by id, then UPDATE or INSERT.     *)

SaveSelect(r) ==
    /\ req[r].pc = "select"
    /\ Goto(r, IF FindByToken(req[r].session.id) # {} THEN "update" ELSE "insert")
    /\ UNCHANGED <<now, table, issued, minted, revoked>>

\* What a request does when its save has returned: login goes on to record
\* the login, logout to delete the session, the others answer.
AfterSave(q) ==
    CASE q.op = "login"  -> [q EXCEPT !.pc = "record"]
      [] q.op = "logout" -> [q EXCEPT !.pc = "delete"]
      [] OTHER           -> Idle

IssuedAfterSave(q) == IF q.op = "refresh" THEN issued \cup {q.session.id} ELSE issued

\* UPDATE ... WHERE id: it writes the expiry and the access time, and
\* nothing at all when the row is gone.
SaveUpdate(r) ==
    LET e == req[r].session
    IN  /\ req[r].pc = "update"
        /\ table' = {IF s.id = e.id
                       THEN [s EXCEPT !.expiresAt = e.expiresAt,
                                      !.lastAccessedAt = e.lastAccessedAt]
                       ELSE s : s \in table}
        /\ Start(r, AfterSave(req[r]))
        /\ issued' = IssuedAfterSave(req[r])
        /\ UNCHANGED <<now, minted, revoked>>

\* INSERT: the primary key lets it through only when there is no such row.
SaveInsert(r) ==
    LET e == req[r].session
    IN  /\ req[r].pc = "insert"
        /\ KeyFree(e.id)
        /\ table' = table \cup {e}
        /\ Start(r, AfterSave(req[r]))
        /\ issued' = IssuedAfterSave(req[r])
        /\ UNCHANGED <<now, minted, revoked>>

-----------------------------------------------------------------------------
(* The tail of LoginUseCase.execute: userRepository.save (modelled in      *)
(* Credentials), then the response with the token.                         *)
RecordLogin(r) ==
    /\ req[r].pc = "record"
    /\ issued' = issued \cup {req[r].session.id}
    /\ Start(r, Idle)
    /\ UNCHANGED <<now, table, minted, revoked>>

(* LogoutUseCase.execute, after the guard has authenticated the request. *)
Logout(r) ==
    /\ req[r].pc = "delete"
    /\ DeleteByToken(req[r].session.id)
    /\ Start(r, Idle)
    /\ UNCHANGED <<now, issued, minted>>

(* deleteByActorId, which CompletePasswordResetUseCase calls to invalidate *)
(* all existing sessions of the actor.                                     *)
RevokeActor(a) ==
    LET mine == {s \in table : s.actor = a}
    IN  /\ mine # {}
        /\ table' = table \ mine
        /\ revoked' = revoked \cup {s.id : s \in mine}
        /\ UNCHANGED <<now, req, issued, minted>>

(* A statement fails, an INSERT that meets an existing row among them.  A  *)
(* failed touch is logged and the request goes on; any other failure       *)
(* becomes a 5xx and the request ends there.                               *)
StatementFails(r) ==
    /\ req[r] # Idle
    /\ Start(r, IF req[r].pc \in {"select", "update", "insert"} /\ Touching(req[r])
                  THEN AfterSave(req[r]) ELSE Idle)
    /\ UNCHANGED <<now, table, issued, minted, revoked>>

(* The process dies; what it had committed stays. *)
Crash ==
    /\ \E r \in Requests : req[r] # Idle
    /\ req' = [r \in Requests |-> Idle]
    /\ UNCHANGED <<now, table, issued, minted, revoked>>

Tick ==
    /\ now < MaxTime
    /\ now' = now + 1
    /\ UNCHANGED <<table, req, issued, minted, revoked>>

-----------------------------------------------------------------------------
Step(r) ==
    \/ \E a \in Actors, d \in Durations : Login(r, a, d)
    \/ \E op \in {"visit", "logout"}, i \in issued : Authenticate(r, op, i)
    \/ \E i \in issued : Refresh(r, i)
    \/ Rotate(r)
    \/ SaveSelect(r)
    \/ SaveUpdate(r)
    \/ SaveInsert(r)
    \/ RecordLogin(r)
    \/ Logout(r)
    \/ StatementFails(r)

Next ==
    \/ \E r \in Requests : Step(r)
    \/ \E a \in Actors : RevokeActor(a)
    \/ Crash
    \/ Tick

Spec == Init /\ [][Next]_vars

-----------------------------------------------------------------------------
(* Types. *)
TypeOK ==
    /\ now \in Nat
    /\ table \subseteq Session
    /\ req \in [Requests -> {Idle} \cup Busy]
    /\ issued \subseteq Ids
    /\ minted \subseteq Origin
    /\ revoked \subseteq Ids

(* No interleaving of logins, touches, rotations and failures stores a     *)
(* session under another owner, with a later expiry or with another past   *)
(* than Session.create gave it: the whole-row UPDATE and the reviving      *)
(* INSERT of save() write stale copies, but never altered ones.            *)
RowsAsMinted == \A s \in table : OriginOf(s) \in minted

(* The sessions table never holds two rows with one id (hence one token),  *)
(* although save() decides between UPDATE and INSERT from an old SELECT.   *)
OneRowPerId == \A s, t \in table : s.id = t.id => s = t

(* Rotation deletes before it saves: wherever the successor of a refresh   *)
(* is stored, the DELETE of the token it replaces has been executed, and   *)
(* the two belong to one owner, whatever else ran in between               *)
(* (refresh-session.use-case.ts:85-98).                                    *)
SuccessorAfterRevocation ==
    \A s \in table :
        s.parent # s.id => /\ s.parent \in revoked
                           /\ \E m \in minted : m.id = s.parent /\ m.actor = s.actor

(* A token that was replaced or revoked is spent once it has no row and no *)
(* request that read it before still works on it.  Two refreshes that read *)
(* one token at a time both get a successor of it                          *)
(* (refresh-session.use-case.ts:71-98); from a spent one nothing is ever   *)
(* derived, however often a client replays it.                             *)
Holds(q, i) == q # Idle /\ q.pc # "delete" /\ q.session.id = i

Spent(i) ==
    /\ i \in revoked
    /\ \A s \in table : s.id # i
    /\ \A r \in Requests : ~ Holds(req[r], i)

SuccessorsOf(i) == {m.id : m \in {n \in minted : n.parent = i /\ n.id # i}}

SpentStaysSpent ==
    [][\A i \in Ids :
          Spent(i) => Spent(i)' /\ SuccessorsOf(i)' = SuccessorsOf(i)]_vars

Carries(q, root) == q # Idle /\ q.pc # "delete" /\ q.session.root = root

Alive(root) ==
    \/ \E s \in table : s.root = root
    \/ \E r \in Requests : Carries(req[r], root)

(* A login whose sessions have all gone, and which no request still holds  *)
(* in memory, never comes back: only a request that was already in flight  *)
(* can undo a logout, a rotation or a reset.                               *)
DeadLoginStaysDead ==
    [][\A m \in minted : ~ Alive(m.root) => ~ Alive(m.root)']_vars

(* Only a session that had gone stale can come back after logout, rotation *)
(* or reset deleted it: the bookkeeping write of authentication is the one *)
(* save that can follow a deletion (request-authenticator.ts:160-171).     *)
OnlyStaleReturn ==
    \A s \in table : s.id \in revoked => s.lastAccessedAt >= s.createdAt + TouchInterval

(* Sessions implements SessionStore: whatever save() and the deletions do  *)
(* between one another's statements, under failures and crashes, the table *)
(* changes as if each of them were one step (session.repository.ts:38-61), *)
(* with one exception to what the port promises, the return of a session   *)
(* that had gone stale.                                                    *)
Store == INSTANCE SessionStore WITH
            rows <- table,
            past <- {m \in minted : m.id \in revoked}

OneStepAtATime == Store!Spec
=============================================================================
