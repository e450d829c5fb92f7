------------------------- MODULE CredentialsProofs -------------------------
(***************************************************************************)
(* Theorems about Credentials, for every set of users, passwords, tokens   *)
(* and requests and every life of a token.                                 *)
(*                                                                         *)
(* A row never goes away and a copy is only ever taken of an active user:  *)
(* these two facts, kept together with the types, carry everything else.   *)
(***************************************************************************)
EXTENDS Credentials, TLAPS

Copying == {"insert", "session", "record", "save"}

States == {Idle} \cup Registering \cup LoggingIn \cup Rotating \cup Renewing \cup Asking
            \cup Emitting \cup Resetting \cup Changing

\* A refresh never looks at the account of its session.
Blind == {"idle", "insert", "rotate", "renew"}

\* What a request in progress relies on.
Sound(q, us) ==
    /\ q.pc \notin Blind => us[q.user] # Absent
    /\ q.pc \in Copying => q.copy.active

IInv ==
    /\ TypeOK
    /\ \A r \in Requests : Sound(req[r], users)
    /\ \A t \in tokens : users[t.user] # Absent

-----------------------------------------------------------------------------
LEMMA TableTypes ==
    ASSUME IInv
    PROVE  /\ now \in Nat
           /\ users \in [Users -> Row \cup {Absent}]
           /\ sessions \subseteq Session
           /\ tokens \subseteq Token
           /\ \A t \in tokens : t.user \in Users /\ users[t.user] # Absent
           /\ mailed \subseteq TokenIds
           /\ chosen \subseteq [user : Users, password : Passwords]
           /\ latest \in [Users -> SUBSET Passwords]
           /\ welcomed \subseteq [user : Users, password : Passwords]
BY DEF IInv, TypeOK, Token

LEMMA StateTypes ==
    ASSUME IInv, NEW r \in Requests
    PROVE  /\ req[r] \in States
           /\ req[r].pc \in {"insert", "welcome"} => req[r] \in Registering
           /\ req[r].pc \in {"session", "record"} => req[r] \in LoggingIn
           /\ req[r].pc = "rotate" => req[r] \in Rotating
           /\ req[r].pc = "renew" => req[r] \in Renewing
           /\ req[r].pc \in {"invalidate", "create"} => req[r] \in Asking
           /\ req[r].pc = "emit" => req[r] \in Emitting
           /\ req[r].pc = "user" => req[r] \in Resetting
           /\ req[r].pc \in {"save", "drop", "mark", "cleanup"} => req[r] \in Changing
<1>1. req[r] \in States
  BY DEF IInv, TypeOK, States
<1> QED
  BY <1>1 DEF States, Idle, Registering, LoggingIn, Rotating, Renewing, Asking, Emitting, Resetting,
             Changing

(* Request r comes to q, and no row goes away. *)
LEMMA MoveKeepsIInv ==
    ASSUME IInv, NEW r \in Requests, NEW q \in States, Start(r, q), Sound(q, users'),
           \A u \in Users : users[u] # Absent => users'[u] # Absent,
           users' \in [Users -> Row \cup {Absent}],
           tokens' \subseteq Token, \A t \in tokens' : users'[t.user] # Absent,
           now' = now, mailed' \subseteq TokenIds,
           sessions' \subseteq Session,
           chosen' \subseteq [user : Users, password : Passwords],
           welcomed' \subseteq [user : Users, password : Passwords],
           latest' \in [Users -> SUBSET Passwords]
    PROVE  IInv'
<1>1. req' \in [Requests -> States]
  BY DEF Start, IInv, TypeOK, States
<1>2. TypeOK'
  BY <1>1 DEF IInv, TypeOK, States
<1>3. ASSUME NEW s \in Requests PROVE Sound(req'[s], users')
  <2>1. CASE s = r
    <3>1. req'[s] = q
      BY <2>1 DEF Start, IInv, TypeOK
    <3> QED BY <3>1 DEF Sound
  <2>2. CASE s # r
    <3>1. req'[s] = req[s] /\ Sound(req[s], users) /\ req[s] \in States
      BY <2>2, StateTypes DEF Start, IInv, TypeOK
    <3>2. req[s].pc # "idle" => req[s].user \in Users
      BY <3>1 DEF States, Idle, Registering, LoggingIn, Rotating, Renewing, Asking, Emitting, Resetting,
             Changing
    <3> QED BY <3>1, <3>2 DEF Sound, Blind
  <2> QED BY <2>1, <2>2
<1> QED BY <1>2, <1>3 DEF IInv

(* Steps that touch neither the rows nor the tokens. *)
LEMMA QuietKeepsIInv ==
    ASSUME IInv, NEW r \in Requests, NEW q \in States, Start(r, q), Sound(q, users),
           UNCHANGED <<now, users, tokens>>,
           mailed' \subseteq TokenIds,
           sessions' \subseteq Session,
           chosen' \subseteq [user : Users, password : Passwords],
           welcomed' \subseteq [user : Users, password : Passwords],
           latest' \in [Users -> SUBSET Passwords]
    PROVE  IInv'
<1>1. Sound(q, users')
  BY DEF Sound
<1> QED BY <1>1, MoveKeepsIInv DEF IInv, TypeOK

LEMMA IdleIsSound == Idle \in States /\ Sound(Idle, users) /\ Sound(Idle, users')
BY DEF States, Idle, Sound, Copying, Blind

-----------------------------------------------------------------------------
(* Registration. *)
LEMMA RegisterLookupKeepsIInv ==
    ASSUME IInv, NEW r \in Requests, NEW u \in Users, NEW p \in Passwords, RegisterLookup(r, u, p)
    PROVE  IInv'
<1> DEFINE q == [pc |-> "insert", user |-> u, copy |-> [password |-> p, active |-> TRUE]]
<1>1. q \in States
  BY DEF States, Registering, Row
<1>2. Sound(q, users)
  BY DEF Sound, Blind
<1>3. Start(r, q) /\ UNCHANGED <<now, users, sessions, tokens, mailed, latest, welcomed>>
      /\ chosen' = chosen \cup {[user |-> u, password |-> p]}
  BY DEF RegisterLookup
<1> HIDE DEF q
<1> QED BY <1>1, <1>2, <1>3, TableTypes, QuietKeepsIInv

LEMMA RegisterSaveKeepsIInv ==
    ASSUME IInv, NEW r \in Requests, RegisterSave(r)
    PROVE  IInv'
<1>1. req[r] \in Registering
  BY StateTypes DEF RegisterSave
<1> DEFINE q == [req[r] EXCEPT !.pc = "welcome"]
           u == req[r].user
           c == req[r].copy
<1>2. u \in Users /\ c \in Row /\ q \in Registering /\ q.pc = "welcome" /\ q.user = u
  BY <1>1 DEF Registering
<1>3. Start(r, q)
  BY DEF RegisterSave, Goto, Start
<1>4. users' = [users EXCEPT ![u] = c] /\ latest' = [latest EXCEPT ![u] = {c.password}]
      /\ UNCHANGED <<now, sessions, tokens, mailed, chosen, welcomed>>
  BY DEF RegisterSave, SaveUser
<1>5. c # Absent /\ c.password \in Passwords
  BY <1>2, CredentialsAssumption DEF Row
<1> HIDE DEF q, u, c
<1>6. users'[u] = c
  BY <1>2, <1>4, TableTypes
<1>7. Sound(q, users') /\ q \in States
  BY <1>2, <1>5, <1>6 DEF Sound, Blind, Copying, States
<1>8. /\ users' \in [Users -> Row \cup {Absent}] /\ latest' \in [Users -> SUBSET Passwords]
      /\ \A v \in Users : users[v] # Absent => users'[v] # Absent
  BY <1>2, <1>4, <1>5, TableTypes
<1>9. /\ tokens' \subseteq Token /\ \A t \in tokens' : users'[t.user] # Absent
      /\ now' = now /\ mailed' \subseteq TokenIds
      /\ sessions' \subseteq Session
      /\ chosen' \subseteq [user : Users, password : Passwords]
      /\ welcomed' \subseteq [user : Users, password : Passwords]
  BY <1>4, <1>8, TableTypes
<1> QED BY <1>3, <1>7, <1>8, <1>9, MoveKeepsIInv

LEMMA RegisterAnswerKeepsIInv ==
    ASSUME IInv, NEW r \in Requests, RegisterAnswer(r)
    PROVE  IInv'
<1>1. req[r] \in Registering
  BY StateTypes DEF RegisterAnswer
<1>2. welcomed' \subseteq [user : Users, password : Passwords]
  BY <1>1, TableTypes DEF RegisterAnswer, Registering, Row
<1> QED BY <1>2, IdleIsSound, QuietKeepsIInv, TableTypes DEF RegisterAnswer

-----------------------------------------------------------------------------
(* Login. *)
LEMMA LoginLookupKeepsIInv ==
    ASSUME IInv, NEW r \in Requests, NEW u \in Users, NEW p \in Passwords, LoginLookup(r, u, p)
    PROVE  IInv'
<1>1. PICK x \in FindByEmail(u) :
          x.active /\ Start(r, [pc |-> "session", user |-> u, copy |-> x])
  BY DEF LoginLookup
<1>2. x \in Row /\ x = users[u] /\ users[u] # Absent
  BY TableTypes DEF FindByEmail
<1> DEFINE q == [pc |-> "session", user |-> u, copy |-> x]
<1>3. q \in States
  BY <1>2 DEF States, LoggingIn
<1>4. Sound(q, users)
  BY <1>1, <1>2 DEF Sound, Blind
<1>5. Start(r, q)
  BY <1>1
<1> HIDE DEF q
<1> QED BY <1>3, <1>4, <1>5, QuietKeepsIInv, TableTypes DEF LoginLookup

LEMMA SavedSessionTypes ==
    ASSUME IInv, NEW u \in Users, SaveSession(u)
    PROVE  sessions' \subseteq Session
BY TableTypes DEF SaveSession, Fresh, Session

LEMMA LoginSaveSessionKeepsIInv ==
    ASSUME IInv, NEW r \in Requests, LoginSaveSession(r)
    PROVE  IInv'
<1>1. req[r] \in LoggingIn /\ Sound(req[r], users) /\ req[r].pc = "session"
  BY StateTypes DEF LoginSaveSession, IInv
<1> DEFINE q == [req[r] EXCEPT !.pc = "record"]
<1>2. /\ q \in LoggingIn /\ q.pc = "record" /\ q.user = req[r].user /\ q.copy = req[r].copy
  BY <1>1 DEF LoggingIn
<1>3. Start(r, q)
  BY DEF LoginSaveSession, Goto, Start
<1> HIDE DEF q
<1>4. Sound(q, users) /\ q \in States
  BY <1>1, <1>2 DEF Sound, Blind, States, Copying
<1>5. sessions' \subseteq Session
  BY <1>1, SavedSessionTypes DEF LoginSaveSession, LoggingIn
<1> QED BY <1>3, <1>4, <1>5, QuietKeepsIInv, TableTypes DEF LoginSaveSession

LEMMA LoginSaveUserKeepsIInv ==
    ASSUME IInv, NEW r \in Requests, LoginSaveUser(r)
    PROVE  IInv'
<1>1. req[r] \in LoggingIn
  BY StateTypes DEF LoginSaveUser
<1>2. req[r].user \in Users /\ req[r].copy \in Row /\ req[r].copy # Absent
  BY <1>1, CredentialsAssumption DEF LoggingIn
<1>3. /\ users' = [users EXCEPT ![req[r].user] = req[r].copy] /\ Start(r, Idle)
      /\ UNCHANGED <<now, sessions, tokens, mailed, chosen, latest, welcomed>>
  BY DEF LoginSaveUser, SaveUser
<1>4. /\ users' \in [Users -> Row \cup {Absent}]
      /\ \A v \in Users : users[v] # Absent => users'[v] # Absent
  BY <1>2, <1>3, TableTypes
<1>5. \A t \in tokens' : users'[t.user] # Absent
  BY <1>3, <1>4, TableTypes
<1> QED BY <1>3, <1>4, <1>5, IdleIsSound, MoveKeepsIInv, TableTypes

-----------------------------------------------------------------------------
(* The refresh of a session. *)
LEMMA RefreshLookupKeepsIInv ==
    ASSUME IInv, NEW r \in Requests, NEW s \in sessions, RefreshLookup(r, s)
    PROVE  IInv'
<1> DEFINE q == [pc |-> "rotate", user |-> s.user, session |-> s.id]
<1>1. q \in States
  BY TableTypes DEF States, Rotating, Session
<1>2. Sound(q, users)
  BY DEF Sound, Blind, Copying
<1>3. Start(r, q) /\ UNCHANGED <<now, users, sessions, tokens, mailed, chosen, latest, welcomed>>
  BY DEF RefreshLookup
<1> HIDE DEF q
<1> QED BY <1>1, <1>2, <1>3, QuietKeepsIInv, TableTypes

LEMMA RefreshDeleteKeepsIInv ==
    ASSUME IInv, NEW r \in Requests, RefreshDelete(r)
    PROVE  IInv'
<1> DEFINE q == [pc |-> "renew", user |-> req[r].user]
<1>1. q \in States
  BY StateTypes DEF RefreshDelete, States, Rotating, Renewing
<1>2. Sound(q, users)
  BY DEF Sound, Blind, Copying
<1>3. /\ Start(r, q) /\ UNCHANGED <<now, users, tokens, mailed, chosen, latest, welcomed>>
      /\ sessions' \subseteq Session
  BY TableTypes DEF RefreshDelete
<1> HIDE DEF q
<1> QED BY <1>1, <1>2, <1>3, QuietKeepsIInv, TableTypes

LEMMA RefreshSaveKeepsIInv ==
    ASSUME IInv, NEW r \in Requests, RefreshSave(r)
    PROVE  IInv'
<1>1. sessions' \subseteq Session
  BY StateTypes, SavedSessionTypes DEF RefreshSave, Renewing
<1> QED BY <1>1, IdleIsSound, QuietKeepsIInv, TableTypes DEF RefreshSave

-----------------------------------------------------------------------------
(* The request for a reset. *)

(* Steps that change tokens, and leave each the user it had. *)
LEMMA TokensKeepIInv ==
    ASSUME IInv, NEW r \in Requests, NEW q \in States, Start(r, q), Sound(q, users),
           tokens' \subseteq Token, \A t \in tokens' : users[t.user] # Absent,
           UNCHANGED <<now, users, sessions, mailed, chosen, latest, welcomed>>
    PROVE  IInv'
<1>1. Sound(q, users') /\ \A t \in tokens' : users'[t.user] # Absent
  OBVIOUS
<1> QED BY <1>1, MoveKeepsIInv, TableTypes

LEMMA SpentTypes ==
    ASSUME IInv, NEW u
    PROVE  Spent(u) \subseteq Token /\ \A t \in Spent(u) : users[t.user] # Absent
<1>1. ASSUME NEW t \in tokens
      PROVE  [t EXCEPT !.used = TRUE] \in Token /\ [t EXCEPT !.used = TRUE].user = t.user
  BY TableTypes DEF Token
<1> QED BY <1>1, TableTypes DEF Spent

LEMMA AskLookupKeepsIInv ==
    ASSUME IInv, NEW r \in Requests, NEW u \in Users, AskLookup(r, u)
    PROVE  IInv'
<1> DEFINE q == [pc |-> "invalidate", user |-> u]
<1>1. users[u] # Absent
  BY DEF AskLookup, FindByEmail
<1>2. q \in States
  BY DEF States, Asking
<1>3. Sound(q, users)
  BY <1>1 DEF Sound, Blind, Copying
<1>4. Start(r, q) /\ UNCHANGED <<now, users, sessions, tokens, mailed, chosen, latest, welcomed>>
  BY DEF AskLookup
<1> HIDE DEF q
<1> QED BY <1>2, <1>3, <1>4, QuietKeepsIInv, TableTypes

LEMMA AskInvalidateKeepsIInv ==
    ASSUME IInv, NEW r \in Requests, AskInvalidate(r)
    PROVE  IInv'
<1>1. req[r] \in Asking /\ users[req[r].user] # Absent
  BY StateTypes DEF AskInvalidate, IInv, Sound, Blind
<1>2. PICK q \in Asking : q = [pc |-> "create", user |-> req[r].user]
  BY <1>1 DEF Asking
<1>3. q = [req[r] EXCEPT !.pc = "create"]
  BY <1>1, <1>2 DEF Asking
<1>4. Start(r, q) /\ tokens' = Spent(req[r].user)
      /\ UNCHANGED <<now, users, sessions, mailed, chosen, latest, welcomed>>
  BY <1>3 DEF AskInvalidate, Goto, Start
<1>5. Sound(q, users) /\ q \in States
  BY <1>1, <1>2 DEF Sound, Blind, States, Copying
<1> QED BY <1>4, <1>5, SpentTypes, TokensKeepIInv

LEMMA AskCreateKeepsIInv ==
    ASSUME IInv, NEW r \in Requests, AskCreate(r)
    PROVE  IInv'
<1>1. req[r] \in Asking /\ users[req[r].user] # Absent
  BY StateTypes DEF AskCreate, IInv, Sound, Blind
<1>2. PICK i \in TokenIds :
          /\ tokens' = tokens \cup {[id |-> i, user |-> req[r].user, expiresAt |-> now + TokenLife,
                                     used |-> FALSE, by |-> r]}
          /\ Start(r, [pc |-> "emit", user |-> req[r].user, token |-> i])
  BY DEF AskCreate
<1>3. req[r].user \in Users /\ now + TokenLife \in Nat
  BY <1>1, TableTypes, CredentialsAssumption DEF Asking
<1>4. PICK t \in Token : t = [id |-> i, user |-> req[r].user, expiresAt |-> now + TokenLife,
                              used |-> FALSE, by |-> r]
  BY <1>3 DEF Token
<1>5. PICK q \in Emitting : q = [pc |-> "emit", user |-> req[r].user, token |-> i]
  BY <1>3 DEF Emitting
<1>6. Sound(q, users) /\ q \in States
  BY <1>1, <1>5 DEF Sound, Blind, States, Copying
<1>7. tokens' = tokens \cup {t} /\ users[t.user] # Absent
  BY <1>1, <1>2, <1>4
<1>8. Start(r, q) /\ UNCHANGED <<now, users, sessions, mailed, chosen, latest, welcomed>>
  BY <1>2, <1>5 DEF AskCreate
<1> QED BY <1>6, <1>7, <1>8, TableTypes, TokensKeepIInv

LEMMA AskEmitKeepsIInv ==
    ASSUME IInv, NEW r \in Requests, AskEmit(r)
    PROVE  IInv'
<1>1. mailed' \subseteq TokenIds
  BY StateTypes, TableTypes DEF AskEmit, Emitting
<1> QED BY <1>1, IdleIsSound, QuietKeepsIInv, TableTypes DEF AskEmit

-----------------------------------------------------------------------------
(* The completion of a reset. *)
LEMMA ResetLookupKeepsIInv ==
    ASSUME IInv, NEW r \in Requests, NEW i \in TokenIds, NEW p \in Passwords, ResetLookup(r, i, p)
    PROVE  IInv'
<1>1. PICK t \in tokens :
          /\ Start(r, [pc |-> "user", user |-> t.user, token |-> i, password |-> p])
          /\ chosen' = chosen \cup {[user |-> t.user, password |-> p]}
  BY DEF ResetLookup, OwnersOf
<1>2. t.user \in Users /\ users[t.user] # Absent
  BY TableTypes
<1> DEFINE q == [pc |-> "user", user |-> t.user, token |-> i, password |-> p]
<1>3. q \in States
  BY <1>2 DEF States, Resetting
<1>4. Sound(q, users)
  BY <1>2 DEF Sound, Blind, Copying
<1>5. Start(r, q)
  BY <1>1
<1> HIDE DEF q
<1>6. chosen' \subseteq [user : Users, password : Passwords]
  BY <1>1, <1>2, TableTypes
<1> QED BY <1>3, <1>4, <1>5, <1>6, QuietKeepsIInv, TableTypes DEF ResetLookup

LEMMA NewPassword ==
    ASSUME NEW x \in Row, NEW p \in Passwords
    PROVE  /\ [x EXCEPT !.password = p] \in Row
           /\ [x EXCEPT !.password = p].active = x.active
           /\ [x EXCEPT !.password = p].password = p
BY DEF Row

LEMMA ResetReadUserKeepsIInv ==
    ASSUME IInv, NEW r \in Requests, ResetReadUser(r)
    PROVE  IInv'
<1>1. req[r] \in Resetting /\ users[req[r].user] # Absent
  BY StateTypes DEF ResetReadUser, IInv, Sound, Blind
<1>2. users[req[r].user] \in Row /\ users[req[r].user].active
  BY <1>1, TableTypes DEF ResetReadUser, MayReset, Resetting
<1>3. PICK c \in Row : c = [users[req[r].user] EXCEPT !.password = req[r].password] /\ c.active
  <2> DEFINE x == users[req[r].user]
             y == [x EXCEPT !.password = req[r].password]
  <2>1. x \in Row /\ x.active /\ req[r].password \in Passwords
    BY <1>1, <1>2 DEF Resetting
  <2> HIDE DEF x
  <2>2. y \in Row /\ y.active
    BY <2>1, NewPassword
  <2> HIDE DEF y
  <2>3. \E c \in Row : c = y /\ c.active
    BY <2>2
  <2> QED BY <2>3 DEF x, y
<1>4. PICK q \in Changing :
          q = [pc |-> "save", user |-> req[r].user, token |-> req[r].token, copy |-> c]
  BY <1>1 DEF Resetting, Changing
<1>5. Sound(q, users) /\ q \in States
  BY <1>1, <1>3, <1>4 DEF Sound, Blind, States
<1>6. Start(r, q) /\ UNCHANGED <<now, users, sessions, tokens, mailed, chosen, latest, welcomed>>
  BY <1>3, <1>4 DEF ResetReadUser
<1> QED BY <1>5, <1>6, QuietKeepsIInv, TableTypes

LEMMA ChangingMoves ==
    ASSUME IInv, NEW r \in Requests, req[r] \in Changing, NEW pc \in {"drop", "mark", "cleanup"},
           Goto(r, pc)
    PROVE  \E q \in Changing : /\ q.user = req[r].user /\ Start(r, q) /\ q.pc = pc
                               /\ q \in States
                               /\ users[q.user] # Absent => Sound(q, users)
                               /\ users'[q.user] # Absent => Sound(q, users')
<1>1. PICK q \in Changing :
          q = [pc |-> pc, user |-> req[r].user, token |-> req[r].token, copy |-> req[r].copy]
  BY DEF Changing
<1>2. q = [req[r] EXCEPT !.pc = pc]
  BY <1>1 DEF Changing
<1>3. Start(r, q)
  BY <1>2 DEF Goto, Start
<1>4. q.pc \notin Copying /\ q \in States
  BY <1>1 DEF Copying, States
<1> QED BY <1>1, <1>3, <1>4 DEF Sound, Blind

LEMMA ResetSaveUserKeepsIInv ==
    ASSUME IInv, NEW r \in Requests, ResetSaveUser(r)
    PROVE  IInv'
<1>1. req[r] \in Changing
  BY StateTypes DEF ResetSaveUser
<1>2. req[r].user \in Users /\ req[r].copy \in Row /\ req[r].copy # Absent
      /\ req[r].copy.password \in Passwords
  BY <1>1, CredentialsAssumption DEF Changing, Row
<1>3. /\ users' = [users EXCEPT ![req[r].user] = req[r].copy]
      /\ latest' = [latest EXCEPT ![req[r].user] = {req[r].copy.password}]
      /\ Goto(r, "drop")
      /\ UNCHANGED <<now, sessions, tokens, mailed, chosen, welcomed>>
  BY DEF ResetSaveUser, SaveUser
<1>4. /\ users' \in [Users -> Row \cup {Absent}] /\ latest' \in [Users -> SUBSET Passwords]
      /\ \A v \in Users : users[v] # Absent => users'[v] # Absent
      /\ users'[req[r].user] # Absent
  BY <1>2, <1>3, TableTypes
<1>5. PICK q \in States : Start(r, q) /\ Sound(q, users')
  BY <1>1, <1>3, <1>4, ChangingMoves
<1>6. /\ tokens' \subseteq Token /\ \A t \in tokens' : users'[t.user] # Absent
      /\ now' = now /\ mailed' \subseteq TokenIds
      /\ sessions' \subseteq Session
      /\ chosen' \subseteq [user : Users, password : Passwords]
      /\ welcomed' \subseteq [user : Users, password : Passwords]
  BY <1>3, <1>4, TableTypes
<1> QED BY <1>4, <1>5, <1>6, MoveKeepsIInv

LEMMA ResetDropSessionsKeepsIInv ==
    ASSUME IInv, NEW r \in Requests, ResetDropSessions(r)
    PROVE  IInv'
<1>1. req[r] \in Changing /\ users[req[r].user] # Absent
  BY StateTypes DEF ResetDropSessions, IInv, Sound, Blind
<1>2. PICK q \in States : Start(r, q) /\ Sound(q, users)
  BY <1>1, ChangingMoves DEF ResetDropSessions
<1>3. sessions' \subseteq Session
  BY TableTypes DEF ResetDropSessions
<1> QED BY <1>2, <1>3, QuietKeepsIInv, TableTypes DEF ResetDropSessions

LEMMA ResetMarkUsedKeepsIInv ==
    ASSUME IInv, NEW r \in Requests, ResetMarkUsed(r)
    PROVE  IInv'
<1>1. req[r] \in Changing /\ users[req[r].user] # Absent
  BY StateTypes DEF ResetMarkUsed, IInv, Sound, Blind
<1>2. PICK q \in States : Start(r, q) /\ Sound(q, users)
  BY <1>1, ChangingMoves DEF ResetMarkUsed
<1>3. ASSUME NEW t \in tokens
      PROVE  [t EXCEPT !.used = TRUE] \in Token /\ [t EXCEPT !.used = TRUE].user = t.user
  BY TableTypes DEF Token
<1>4. tokens' \subseteq Token /\ \A t \in tokens' : users[t.user] # Absent
  <2>1. tokens' = {IF t.id = req[r].token THEN [t EXCEPT !.used = TRUE] ELSE t : t \in tokens}
    BY DEF ResetMarkUsed
  <2>2. ASSUME NEW t \in tokens'
        PROVE  t \in Token /\ users[t.user] # Absent
    <3>1. PICK s \in tokens : t = s \/ t = [s EXCEPT !.used = TRUE]
      BY <2>1
    <3> QED BY <1>3, <3>1, TableTypes
  <2> QED BY <2>2
<1> QED BY <1>2, <1>4, TokensKeepIInv DEF ResetMarkUsed

LEMMA ResetCleanupKeepsIInv ==
    ASSUME IInv, NEW r \in Requests, ResetCleanup(r)
    PROVE  IInv'
BY IdleIsSound, SpentTypes, TokensKeepIInv DEF ResetCleanup

LEMMA DeactivateKeepsIInv ==
    ASSUME IInv, NEW u \in Users, Deactivate(u)
    PROVE  IInv'
<1>1. users[u] \in Row /\ users' = [users EXCEPT ![u] = [users[u] EXCEPT !.active = FALSE]]
      /\ UNCHANGED <<now, sessions, tokens, mailed, req, chosen, latest, welcomed>>
  BY TableTypes DEF Deactivate, FindByEmail
<1>2. [users[u] EXCEPT !.active = FALSE] \in Row
  BY <1>1 DEF Row
<1>3. /\ users' \in [Users -> Row \cup {Absent}]
      /\ \A v \in Users : users[v] # Absent => users'[v] # Absent
  BY <1>1, <1>2, TableTypes, CredentialsAssumption
<1>4. TypeOK'
  BY <1>1, <1>3 DEF IInv, TypeOK
<1>5. ASSUME NEW s \in Requests PROVE Sound(req'[s], users')
  <2>1. req'[s] = req[s] /\ Sound(req[s], users) /\ req[s] \in States
    BY <1>1, StateTypes DEF IInv
  <2>2. req[s].pc # "idle" => req[s].user \in Users
    BY <2>1 DEF States, Idle, Registering, LoggingIn, Rotating, Renewing, Asking, Emitting, Resetting,
             Changing
  <2> QED BY <1>3, <2>1, <2>2 DEF Sound, Blind
<1>6. \A t \in tokens' : users'[t.user] # Absent
  BY <1>1, <1>3, TableTypes
<1> QED BY <1>4, <1>5, <1>6 DEF IInv

LEMMA InitIInv == Init => IInv
<1> SUFFICES ASSUME Init PROVE IInv
  OBVIOUS
<1>1. TypeOK
  BY DEF Init, TypeOK
<1>2. \A r \in Requests : Sound(req[r], users)
  BY DEF Init, Sound, Blind, Idle, Copying
<1> QED BY <1>1, <1>2 DEF Init, IInv

LEMMA StepIInv == IInv /\ [Next]_vars => IInv'
<1> SUFFICES ASSUME IInv, [Next]_vars PROVE IInv'
  OBVIOUS
<1>1. ASSUME NEW r \in Requests, Step(r) PROVE IInv'
  <2>1. ASSUME NEW u \in Users, NEW p \in Passwords, RegisterLookup(r, u, p) \/ LoginLookup(r, u, p)
        PROVE  IInv'
    BY <2>1, RegisterLookupKeepsIInv, LoginLookupKeepsIInv
  <2>2. ASSUME NEW i \in mailed, NEW p \in Passwords, ResetLookup(r, i, p) PROVE IInv'
    BY <2>2, ResetLookupKeepsIInv, TableTypes
  <2>3. CASE Abort(r)
    BY <2>3, IdleIsSound, QuietKeepsIInv, TableTypes DEF Abort
  <2> QED
    BY <1>1, <2>1, <2>2, <2>3, RegisterSaveKeepsIInv, RegisterAnswerKeepsIInv,
       LoginSaveSessionKeepsIInv, LoginSaveUserKeepsIInv, RefreshLookupKeepsIInv,
       RefreshDeleteKeepsIInv, RefreshSaveKeepsIInv, AskLookupKeepsIInv,
       AskInvalidateKeepsIInv, AskCreateKeepsIInv, AskEmitKeepsIInv, ResetReadUserKeepsIInv,
       ResetSaveUserKeepsIInv, ResetDropSessionsKeepsIInv, ResetMarkUsedKeepsIInv,
       ResetCleanupKeepsIInv DEF Step
<1>2. CASE Tick
  <2>1. TypeOK'
    BY <1>2 DEF Tick, IInv, TypeOK
  <2> QED BY <1>2, <2>1 DEF Tick, IInv
<1>3. CASE UNCHANGED vars
  <2>1. TypeOK'
    BY <1>3 DEF vars, IInv, TypeOK
  <2> QED BY <1>3, <2>1 DEF vars, IInv
<1> QED BY <1>1, <1>2, <1>3, DeactivateKeepsIInv DEF Next

THEOREM InductiveInvariant == Spec => []IInv
BY InitIInv, StepIInv, PTL DEF Spec

(* Rows, copies, tokens and histories always have their types. *)
THEOREM TypeCorrect == Spec => []TypeOK
<1>1. IInv => TypeOK
  BY DEF IInv
<1> QED BY <1>1, InductiveInvariant, PTL

-----------------------------------------------------------------------------
(* What a step may do to a request, to the rows, and to the rest.          *)

\* Where a request can come to hold a copy, a new password or a promise.
Became(r) ==
    LET q == req[r]
        n == req'[r]
    IN  \/ n.pc \notin Copying \cup {"user", "welcome", "create"}
        \/ n.pc = "insert" /\ users[n.user] = Absent /\ n.copy.password \notin Taken
        \/ /\ q.pc = "insert" /\ n.pc = "welcome" /\ n.user = q.user
           /\ users[q.user] = Absent /\ welcomed' = welcomed
        \/ /\ n.pc = "session" /\ users[n.user] # Absent
           /\ users[n.user].active /\ n.copy = users[n.user]
        \/ q.pc = "session" /\ n.pc = "record" /\ n.user = q.user /\ n.copy = q.copy
        \/ n.pc = "create" /\ n.user = req[r].user /\ tokens' = Spent(n.user)
        \/ n.pc = "user" /\ n.password \notin Taken
        \/ /\ q.pc = "user" /\ n.pc = "save" /\ n.user = q.user
           /\ users[q.user].active /\ n.copy.password = q.password

\* ... and no other request moves.
Moves(r) == Became(r) /\ \A s \in Requests \ {r} : req'[s] = req[s]

LEMMA Moved ==
    ASSUME IInv, NEW r \in Requests, NEW q, Start(r, q)
    PROVE  req'[r] = q /\ \A s \in Requests \ {r} : req'[s] = req[s]
BY DEF Start, IInv, TypeOK

LEMMA Went ==
    ASSUME IInv, NEW r \in Requests, NEW pc, Goto(r, pc), req[r].pc # "idle"
    PROVE  /\ req'[r] = [req[r] EXCEPT !.pc = pc]
           /\ req'[r].pc = pc /\ req'[r].user = req[r].user
           /\ req[r].pc \in Copying => req'[r].copy = req[r].copy
           /\ \A s \in Requests \ {r} : req'[s] = req[s]
<1>1. req'[r] = [req[r] EXCEPT !.pc = pc] /\ \A s \in Requests \ {r} : req'[s] = req[s]
  BY DEF Goto, IInv, TypeOK
<1>2. req[r] \in States
  BY StateTypes
<1>3. req[r] \in Registering \cup LoggingIn \cup Rotating \cup Renewing \cup Asking \cup Emitting
                \cup Resetting \cup Changing
  BY <1>2 DEF States, Idle
<1>4. req'[r].pc = pc /\ req'[r].user = req[r].user
  BY <1>1, <1>3 DEF Registering, LoggingIn, Rotating, Renewing, Asking, Emitting, Resetting, Changing
<1>5. ASSUME req[r].pc \in Copying PROVE req'[r].copy = req[r].copy
  <2>1. req[r] \in Registering \cup LoggingIn \cup Changing
    BY <1>5, StateTypes DEF Copying
  <2> QED BY <1>1, <2>1 DEF Registering, LoggingIn, Changing
<1> QED BY <1>1, <1>4, <1>5

LEMMA RequestStep ==
    ASSUME IInv, NEW r \in Requests, Step(r)
    PROVE  Moves(r)
<1>1. ASSUME NEW u \in Users, NEW p \in Passwords, RegisterLookup(r, u, p) PROVE Moves(r)
  <2> DEFINE q == [pc |-> "insert", user |-> u, copy |-> [password |-> p, active |-> TRUE]]
  <2>1. q.pc = "insert" /\ q.user = u /\ q.copy.password = p
    OBVIOUS
  <2>2. Start(r, q) /\ p \notin Taken /\ users[u] = Absent
    BY <1>1 DEF RegisterLookup, FindByEmail
  <2> HIDE DEF q
  <2>3. req'[r] = q /\ \A s \in Requests \ {r} : req'[s] = req[s]
    BY <2>2, Moved
  <2> QED BY <2>1, <2>2, <2>3 DEF Moves, Became
<1>2. CASE RegisterSave(r)
  BY <1>2, Went DEF RegisterSave, EmailFree, Moves, Became, Copying
<1>3. ASSUME NEW u \in Users, NEW p \in Passwords, LoginLookup(r, u, p) PROVE Moves(r)
  <2>1. PICK x \in FindByEmail(u) :
            x.active /\ Start(r, [pc |-> "session", user |-> u, copy |-> x])
    BY <1>3 DEF LoginLookup
  <2>2. x = users[u] /\ users[u] # Absent
    BY DEF FindByEmail
  <2> DEFINE q == [pc |-> "session", user |-> u, copy |-> x]
  <2>3. q.pc = "session" /\ q.user = u /\ q.copy = x
    OBVIOUS
  <2>4. Start(r, q)
    BY <2>1
  <2> HIDE DEF q
  <2>5. req'[r] = q /\ \A s \in Requests \ {r} : req'[s] = req[s]
    BY <2>4, Moved
  <2> QED BY <2>1, <2>2, <2>3, <2>5 DEF Moves, Became
<1>4. CASE LoginSaveSession(r)
  BY <1>4, Went DEF LoginSaveSession, Moves, Became, Copying
<1>5. CASE AskInvalidate(r)
  BY <1>5, Went DEF AskInvalidate, Moves, Became
<1>6. ASSUME NEW i \in TokenIds, NEW p \in Passwords, ResetLookup(r, i, p) PROVE Moves(r)
  <2>1. PICK t \in tokens :
            Start(r, [pc |-> "user", user |-> t.user, token |-> i, password |-> p])
    BY <1>6 DEF ResetLookup, OwnersOf
  <2> DEFINE q == [pc |-> "user", user |-> t.user, token |-> i, password |-> p]
  <2>2. q.pc = "user" /\ q.password = p /\ p \notin Taken
    BY <1>6 DEF ResetLookup
  <2>3. Start(r, q)
    BY <2>1
  <2> HIDE DEF q
  <2>4. req'[r] = q /\ \A s \in Requests \ {r} : req'[s] = req[s]
    BY <2>3, Moved
  <2> QED BY <2>2, <2>4 DEF Moves, Became
<1>7. CASE ResetReadUser(r)
  <2>1. req[r] \in Resetting /\ users[req[r].user] # Absent /\ req[r].pc = "user"
    BY <1>7, StateTypes DEF ResetReadUser, IInv, Sound, Blind
  <2> DEFINE x == users[req[r].user]
             c == [x EXCEPT !.password = req[r].password]
             q == [pc |-> "save", user |-> req[r].user, token |-> req[r].token, copy |-> c]
  <2>2. x \in Row /\ req[r].password \in Passwords
    BY <2>1, TableTypes DEF Resetting
  <2>3. c.password = req[r].password
    BY <2>2 DEF Row
  <2>4. q.pc = "save" /\ q.user = req[r].user /\ q.copy = c
    OBVIOUS
  <2>5. Start(r, q) /\ x.active
    BY <1>7 DEF ResetReadUser, MayReset
  <2> HIDE DEF c, q
  <2>6. req'[r] = q /\ \A s \in Requests \ {r} : req'[s] = req[s]
    BY <2>5, Moved
  <2> QED BY <2>1, <2>3, <2>4, <2>5, <2>6 DEF Moves, Became
<1>8. ASSUME NEW q, Start(r, q), q.pc \notin Copying \cup {"user", "welcome", "create"} PROVE Moves(r)
  BY <1>8, Moved DEF Moves, Became
<1>9. CASE \E u \in Users : AskLookup(r, u)
  BY <1>8, <1>9 DEF AskLookup, Copying
<1>10. CASE AskCreate(r)
  BY <1>8, <1>10 DEF AskCreate, Copying
<1>11. CASE RegisterAnswer(r) \/ LoginSaveUser(r) \/ RefreshSave(r) \/ AskEmit(r) \/ ResetCleanup(r) \/ Abort(r)
  BY <1>8, <1>11
     DEF RegisterAnswer, LoginSaveUser, RefreshSave, AskEmit, ResetCleanup, Abort, Idle, Copying
<1>12. CASE ResetSaveUser(r) \/ ResetDropSessions(r) \/ ResetMarkUsed(r)
  <2>1. PICK pc \in {"drop", "mark", "cleanup"} : Goto(r, pc) /\ req[r].pc # "idle"
    BY <1>12 DEF ResetSaveUser, ResetDropSessions, ResetMarkUsed
  <2>2. req'[r].pc = pc /\ \A s \in Requests \ {r} : req'[s] = req[s]
    BY <2>1, Went
  <2> QED BY <2>2 DEF Moves, Became, Copying
<1>13. CASE \E u \in Users, p \in Passwords : RegisterLookup(r, u, p) \/ LoginLookup(r, u, p)
  BY <1>1, <1>3, <1>13
<1>14. CASE \E i \in mailed, p \in Passwords : ResetLookup(r, i, p)
  BY <1>6, <1>14, TableTypes
<1>15. CASE (\E s \in sessions : RefreshLookup(r, s)) \/ RefreshDelete(r)
  BY <1>8, <1>15 DEF RefreshLookup, RefreshDelete, Copying
<1> QED
  BY <1>2, <1>4, <1>5, <1>7, <1>9, <1>10, <1>11, <1>12, <1>13, <1>14, <1>15 DEF Step

(* A row written is a copy that a request held, or has its flag cleared.   *)
LEMMA RowsStep ==
    ASSUME IInv, [Next]_vars, NEW u \in Users
    PROVE  \/ users'[u] = users[u]
           \/ \E r \in Requests : HoldsCopy(r, u) /\ users'[u] = req[r].copy
           \/ /\ users[u] # Absent /\ users'[u] # Absent
              /\ users'[u].password = users[u].password /\ ~ users'[u].active
<1>1. ASSUME NEW r \in Requests, RegisterSave(r) \/ LoginSaveUser(r) \/ ResetSaveUser(r)
      PROVE  \/ users'[u] = users[u]
             \/ HoldsCopy(r, u) /\ users'[u] = req[r].copy
  BY <1>1, TableTypes DEF RegisterSave, LoginSaveUser, ResetSaveUser, SaveUser, HoldsCopy
<1>2. ASSUME NEW v \in Users, Deactivate(v)
      PROVE  \/ users'[u] = users[u]
             \/ /\ users[u] # Absent /\ users'[u] # Absent
                /\ users'[u].password = users[u].password /\ ~ users'[u].active
  <2>1. users[v] \in Row /\ users' = [users EXCEPT ![v] = [users[v] EXCEPT !.active = FALSE]]
    BY <1>2, TableTypes DEF Deactivate, FindByEmail
  <2>2. CASE u = v
    <3>1. users'[u] = [users[u] EXCEPT !.active = FALSE] /\ users[u] \in Row
      BY <2>1, <2>2, TableTypes
    <3>2. users'[u] \in Row /\ users'[u].password = users[u].password /\ ~ users'[u].active
      BY <3>1 DEF Row
    <3> QED BY <3>1, <3>2, CredentialsAssumption
  <2>3. CASE u # v
    BY <2>1, <2>3, TableTypes
  <2> QED BY <2>2, <2>3
<1> QED
  BY <1>1, <1>2
     DEF Next, Step, vars, Tick, RegisterLookup, RegisterAnswer, LoginLookup, LoginSaveSession,
         RefreshLookup, RefreshDelete, RefreshSave, AskLookup, AskInvalidate, AskCreate, AskEmit, ResetLookup, ResetReadUser,
         ResetDropSessions, ResetMarkUsed, ResetCleanup, Abort

LEMMA RowsStay ==
    ASSUME IInv, [Next]_vars, NEW u \in Users, users[u] # Absent
    PROVE  users'[u] # Absent
<1>1. ASSUME NEW r \in Requests, HoldsCopy(r, u) PROVE req[r].copy # Absent
  <2>1. req[r] \in Registering \cup LoggingIn \cup Changing
    BY <1>1, StateTypes DEF HoldsCopy
  <2>2. req[r].copy \in Row
    BY <2>1 DEF Registering, LoggingIn, Changing
  <2> QED BY <2>2, CredentialsAssumption
<1> QED BY <1>1, RowsStep

(* A request is where it was, or came there in a way of Became. *)
LEMMA RequestsStep ==
    ASSUME IInv, [Next]_vars, NEW s \in Requests
    PROVE  req'[s] = req[s] \/ (Became(s) /\ Step(s))
<1>1. ASSUME NEW r \in Requests, Step(r) PROVE req'[s] = req[s] \/ (Became(s) /\ Step(s))
  BY <1>1, RequestStep DEF Moves
<1> QED BY <1>1 DEF Next, vars, Tick, Deactivate

-----------------------------------------------------------------------------
(* A registration about to be welcomed is the only one of its address, and *)
(* there is none for an address that has been welcomed already.            *)
WelcomeInv ==
    /\ OneWelcomePerAddress
    /\ \A a \in welcomed :
          /\ users[a.user] # Absent
          /\ \A r \in Requests : req[r].pc = "welcome" => req[r].user # a.user
    /\ \A r, s \in Requests :
          (req[r].pc = "welcome" /\ req[s].pc = "welcome" /\ req[r].user = req[s].user) => r = s

LEMMA WelcomedStep ==
    ASSUME IInv, [Next]_vars
    PROVE  \/ welcomed' = welcomed
           \/ \E r \in Requests :
                 /\ req[r].pc = "welcome" /\ req'[r] = Idle
                 /\ welcomed' = welcomed \cup
                        {[user |-> req[r].user, password |-> req[r].copy.password]}
<1>1. ASSUME NEW r \in Requests, RegisterAnswer(r) PROVE req'[r] = Idle
  BY <1>1, Moved DEF RegisterAnswer
<1> QED
  BY <1>1
     DEF Next, Step, vars, Tick, Deactivate, RegisterLookup, RegisterSave, RegisterAnswer,
         LoginLookup, LoginSaveSession, LoginSaveUser, RefreshLookup, RefreshDelete, RefreshSave,
         AskLookup, AskInvalidate, AskCreate, AskEmit, ResetLookup, ResetReadUser, ResetSaveUser,
         ResetDropSessions, ResetMarkUsed, ResetCleanup, Abort

(* Who is about to be welcomed was so before, or was just stored under an  *)
(* address that nobody had.                                                *)
LEMMA WelcomingStep ==
    ASSUME IInv, [Next]_vars, NEW s \in Requests, req'[s].pc = "welcome"
    PROVE  /\ req'[s].user \in Users
           /\ \/ req'[s] = req[s] /\ users[req[s].user] # Absent
              \/ /\ users[req'[s].user] = Absent /\ welcomed' = welcomed
                 /\ \A r \in Requests \ {s} : req'[r] = req[r]
<1>1. CASE req'[s] = req[s]
  BY <1>1, StateTypes DEF IInv, Sound, Blind, Registering
<1>2. CASE Became(s) /\ Step(s)
  <2>1. /\ req[s].pc = "insert" /\ req'[s].user = req[s].user
        /\ users[req[s].user] = Absent /\ welcomed' = welcomed
    BY <1>2 DEF Became, Copying
  <2>2. \A r \in Requests \ {s} : req'[r] = req[r]
    BY <1>2, RequestStep DEF Moves
  <2> QED BY <2>1, <2>2, StateTypes DEF Registering
<1> QED BY <1>1, <1>2, RequestsStep

LEMMA WelcomeStep == IInv /\ WelcomeInv /\ [Next]_vars => WelcomeInv'
<1> SUFFICES ASSUME IInv, WelcomeInv, [Next]_vars PROVE WelcomeInv'
  OBVIOUS
<1>1. ASSUME NEW r \in Requests, NEW s \in Requests,
             req'[r].pc = "welcome", req'[s].pc = "welcome", req'[r].user = req'[s].user
      PROVE  r = s
  BY <1>1, WelcomingStep DEF WelcomeInv
<1>2. ASSUME NEW a \in welcomed'
      PROVE  /\ users'[a.user] # Absent
             /\ \A r \in Requests : req'[r].pc = "welcome" => req'[r].user # a.user
  <2>1. CASE a \in welcomed
    <3>1. a.user \in Users
      BY <2>1, TableTypes
    <3>2. users'[a.user] # Absent
      BY <2>1, <3>1, RowsStay DEF WelcomeInv
    <3>3. ASSUME NEW r \in Requests, req'[r].pc = "welcome", req'[r].user = a.user PROVE FALSE
      BY <2>1, <3>3, WelcomingStep DEF WelcomeInv
    <3> QED BY <3>2, <3>3
  <2>2. CASE a \notin welcomed
    <3>1. PICK s \in Requests : /\ req[s].pc = "welcome" /\ req'[s] = Idle /\ a.user = req[s].user
                               /\ welcomed' # welcomed
      BY <1>2, <2>2, WelcomedStep
    <3>2. a.user \in Users /\ users[a.user] # Absent
      BY <3>1, StateTypes DEF IInv, Sound, Blind, Registering
    <3>3. users'[a.user] # Absent
      BY <3>2, RowsStay
    <3>4. ASSUME NEW r \in Requests, req'[r].pc = "welcome", req'[r].user = a.user PROVE FALSE
      <4>1. req'[r] = req[r]
        BY <3>1, <3>4, WelcomingStep
      <4>2. r = s
        BY <3>1, <3>4, <4>1 DEF WelcomeInv
      <4> QED BY <3>1, <3>4, <4>2 DEF Idle
    <3> QED BY <3>3, <3>4
  <2> QED BY <2>1, <2>2
<1>3. OneWelcomePerAddress'
  <2> SUFFICES ASSUME NEW a \in welcomed', NEW b \in welcomed', a.user = b.user PROVE a = b
    BY DEF OneWelcomePerAddress
  <2>1. ASSUME NEW c \in welcomed', NEW d \in welcomed, c \notin welcomed PROVE c.user # d.user
    <3>1. \E r \in Requests : req[r].pc = "welcome" /\ c.user = req[r].user
      BY <2>1, WelcomedStep
    <3> QED BY <3>1 DEF WelcomeInv
  <2>2. CASE a \notin welcomed /\ b \notin welcomed
    BY <2>2, WelcomedStep
  <2> QED BY <2>1, <2>2 DEF WelcomeInv, OneWelcomePerAddress
<1> QED BY <1>1, <1>2, <1>3 DEF WelcomeInv

(* However many register one address at once, one of them is told that the *)
(* account is theirs (register-user.use-case.ts:79-100).                   *)
THEOREM OneWelcomeAlways == Spec => []OneWelcomePerAddress
<1>1. Init => WelcomeInv
  BY DEF Init, WelcomeInv, OneWelcomePerAddress, Idle
<1>2. WelcomeInv => OneWelcomePerAddress
  BY DEF WelcomeInv
<1> QED BY <1>1, <1>2, WelcomeStep, InductiveInvariant, PTL DEF Spec

-----------------------------------------------------------------------------
(* A request about to create a token has no active one of that user.       *)
TokenInv ==
    /\ ActiveTokensBounded
    /\ \A r \in Requests : req[r].pc = "create" => \A t \in Active(req[r].user) : t.by # r

LEMMA TokensStep ==
    ASSUME IInv, [Next]_vars, NEW t \in tokens', ~ t.used
    PROVE  \/ t \in tokens
           \/ \E r \in Requests :
                 /\ req[r].pc = "create" /\ t.user = req[r].user /\ t.by = r
                 /\ req'[r].pc # "create" /\ tokens' = tokens \cup {t}
<1>1. ASSUME NEW u, t \in Spent(u) PROVE t \in tokens
  <2>1. PICK s \in tokens : t = IF s.user = u THEN [s EXCEPT !.used = TRUE] ELSE s
    BY <1>1 DEF Spent
  <2>2. [s EXCEPT !.used = TRUE].used
    BY TableTypes DEF Token
  <2> QED BY <2>1, <2>2
<1>2. ASSUME NEW r \in Requests, AskInvalidate(r) \/ ResetCleanup(r) PROVE t \in tokens
  BY <1>1, <1>2 DEF AskInvalidate, ResetCleanup
<1>3. ASSUME NEW r \in Requests, ResetMarkUsed(r) PROVE t \in tokens
  <2>1. tokens' = {IF s.id = req[r].token THEN [s EXCEPT !.used = TRUE] ELSE s : s \in tokens}
    BY <1>3 DEF ResetMarkUsed
  <2>2. PICK s \in tokens : t = s \/ t = [s EXCEPT !.used = TRUE]
    BY <2>1
  <2>3. [s EXCEPT !.used = TRUE].used
    BY TableTypes DEF Token
  <2> QED BY <2>2, <2>3
<1>4. ASSUME NEW r \in Requests, AskCreate(r), t \notin tokens
      PROVE  /\ req[r].pc = "create" /\ t.user = req[r].user /\ t.by = r
             /\ req'[r].pc # "create" /\ tokens' = tokens \cup {t}
  <2>1. PICK i \in TokenIds :
            /\ tokens' = tokens \cup {[id |-> i, user |-> req[r].user, expiresAt |-> now + TokenLife,
                                       used |-> FALSE, by |-> r]}
            /\ Start(r, [pc |-> "emit", user |-> req[r].user, token |-> i])
    BY <1>4 DEF AskCreate
  <2>2. req'[r] = [pc |-> "emit", user |-> req[r].user, token |-> i]
    BY <2>1, Moved
  <2>3. req'[r].pc # "create"
    BY <2>2
  <2>4. t = [id |-> i, user |-> req[r].user, expiresAt |-> now + TokenLife,
             used |-> FALSE, by |-> r]
    BY <1>4, <2>1
  <2> QED BY <1>4, <2>1, <2>3, <2>4 DEF AskCreate
<1> QED
  BY <1>2, <1>3, <1>4
     DEF Next, Step, vars, Tick, Deactivate, RegisterLookup, RegisterSave, RegisterAnswer,
         LoginLookup, LoginSaveSession, LoginSaveUser, RefreshLookup, RefreshDelete, RefreshSave,
         AskLookup, AskEmit, ResetLookup,
         ResetReadUser, ResetSaveUser, ResetDropSessions, Abort

LEMMA TokenStep == IInv /\ TokenInv /\ [Next]_vars => TokenInv'
<1> SUFFICES ASSUME IInv, TokenInv, [Next]_vars PROVE TokenInv'
  OBVIOUS
<1>1. ASSUME NEW u \in Users, NEW s \in Active(u)', NEW t \in Active(u)', s.by = t.by PROVE s = t
  <2>1. s \in tokens' /\ t \in tokens' /\ ~ s.used /\ ~ t.used /\ s.user = u /\ t.user = u
    BY <1>1 DEF Active
  <2>2. ASSUME NEW x \in tokens', ~ x.used, x \notin tokens,
               NEW y \in tokens, ~ y.used, x.user = y.user, x.by = y.by
        PROVE  FALSE
    BY <2>2, TokensStep DEF TokenInv, Active
  <2>3. CASE s \in tokens /\ t \in tokens
    BY <1>1, <2>1, <2>3 DEF TokenInv, ActiveTokensBounded, Active
  <2>4. CASE s \notin tokens /\ t \notin tokens
    BY <2>1, <2>4, TokensStep
  <2> QED BY <1>1, <2>1, <2>2, <2>3, <2>4
<1>2. ASSUME NEW r \in Requests, req'[r].pc = "create",
             NEW t \in tokens', ~ t.used, t.user = req'[r].user, t.by = r
      PROVE  FALSE
  <2>1. t \in tokens
    BY <1>2, TokensStep
  <2>2. CASE req'[r] = req[r]
    BY <1>2, <2>1, <2>2 DEF TokenInv, Active
  <2>3. CASE Became(r)
    <3>1. tokens' = Spent(t.user)
      BY <1>2, <2>3 DEF Became, Copying
    <3>2. PICK s \in tokens : t = IF s.user = t.user THEN [s EXCEPT !.used = TRUE] ELSE s
      BY <1>2, <3>1 DEF Spent
    <3>3. [s EXCEPT !.used = TRUE].used
      BY TableTypes DEF Token
    <3> QED BY <1>2, <3>2, <3>3
  <2> QED BY <2>2, <2>3, RequestsStep
<1> QED BY <1>1, <1>2 DEF TokenInv, ActiveTokensBounded, Active

(* However requests for a reset race each other, the active tokens of a    *)
(* user come from distinct requests in flight.                             *)
THEOREM TokensAreBounded == Spec => []ActiveTokensBounded
<1>1. Init => TokenInv
  BY DEF Init, TokenInv, ActiveTokensBounded, Active, Idle
<1>2. TokenInv => ActiveTokensBounded
  BY DEF TokenInv
<1> QED BY <1>1, <1>2, TokenStep, InductiveInvariant, PTL DEF Spec

-----------------------------------------------------------------------------
(* A copy is an old one, that of a new user, or one of an active row, with *)
(* its password or that of the request.                                    *)
LEMMA CopiesStep ==
    ASSUME IInv, [Next]_vars, NEW s \in Requests, NEW u, HoldsCopy(s, u)'
    PROVE  \/ HoldsCopy(s, u) /\ req'[s].copy = req[s].copy
           \/ users[u] = Absent /\ req'[s].copy.password \notin Taken
           \/ users[u].active /\ req'[s].copy = users[u]
           \/ /\ users[u].active /\ req[s].pc = "user"
              /\ req'[s].copy.password = req[s].password
<1>1. req'[s].pc \in Copying /\ req'[s].user = u
  BY DEF HoldsCopy, Copying
<1>2. CASE req'[s] = req[s]
  BY <1>1, <1>2 DEF HoldsCopy, Copying
<1>3. CASE Became(s)
  BY <1>1, <1>3 DEF Became, HoldsCopy, Copying
<1> QED BY <1>2, <1>3, RequestsStep

(* A password that no row and no request has never works again.            *)
THEOREM RetiredIsFinal == Spec => RetiredStaysRetired
<1>1. ASSUME IInv, [Next]_vars, NEW c \in chosen, Retired(c) PROVE Retired(c)'
  <2>1. c.user \in Users /\ c.password \in Taken
    BY TableTypes, <1>1 DEF Taken
  <2>2. /\ users[c.user] # Absent /\ users[c.user].password # c.password
        /\ \A r \in Requests : HoldsCopy(r, c.user) => req[r].copy.password # c.password
        /\ \A r \in Requests : req[r].pc = "user" => req[r].password # c.password
    BY <1>1 DEF Retired
  <2>3. users'[c.user] # Absent
    BY <1>1, <2>1, <2>2, RowsStay
  <2>4. users'[c.user].password # c.password
    BY <1>1, <2>1, <2>2, RowsStep
  <2>5. ASSUME NEW r \in Requests, HoldsCopy(r, c.user)'
        PROVE  req'[r].copy.password # c.password
    BY <1>1, <2>1, <2>2, <2>5, CopiesStep
  <2>6. ASSUME NEW r \in Requests, req'[r].pc = "user"
        PROVE  req'[r].password # c.password
    <3>1. CASE req'[r] = req[r]
      BY <2>2, <2>6, <3>1
    <3>2. CASE Became(r)
      BY <2>1, <2>6, <3>2 DEF Became, Copying
    <3> QED BY <1>1, <3>1, <3>2, RequestsStep
  <2> QED BY <2>3, <2>4, <2>5, <2>6 DEF Retired
<1>2. IInv /\ [Next]_vars => [\A c \in chosen : Retired(c) => Retired(c)']_vars
  BY <1>1
<1> QED BY <1>2, InductiveInvariant, PTL DEF Spec, RetiredStaysRetired

\* Who may add a session, and how a request comes to renew one.
LEMMA SessionsStep ==
    ASSUME IInv, [Next]_vars, NEW s \in sessions', s \notin sessions
    PROVE  \E r \in Requests : /\ s.user = req[r].user
                               /\ HoldsCopy(r, s.user) \/ Renews(r, s.user)
<1>1. ASSUME NEW r \in Requests, LoginSaveSession(r) PROVE HoldsCopy(r, s.user) /\ s.user = req[r].user
  BY <1>1 DEF LoginSaveSession, SaveSession, HoldsCopy
<1>2. ASSUME NEW r \in Requests, RefreshSave(r) PROVE Renews(r, s.user) /\ s.user = req[r].user
  BY <1>2 DEF RefreshSave, SaveSession, Renews
<1> QED
  BY <1>1, <1>2
     DEF Next, Step, vars, Tick, Deactivate, RegisterLookup, RegisterSave, RegisterAnswer,
         LoginLookup, LoginSaveUser, RefreshLookup, RefreshDelete, AskLookup, AskInvalidate,
         AskCreate, AskEmit, ResetLookup, ResetReadUser, ResetSaveUser, ResetDropSessions,
         ResetMarkUsed, ResetCleanup, Abort

LEMMA RenewsStep ==
    ASSUME IInv, [Next]_vars, NEW r \in Requests, NEW u, Renews(r, u)'
    PROVE  Renews(r, u) \/ \E s \in sessions : s.user = u
<1>1. CASE req'[r] = req[r]
  BY <1>1 DEF Renews
<1>2. CASE Became(r) /\ Step(r)
  <2>1. req'[r].pc \in {"rotate", "renew"} /\ req'[r].user = u
    BY DEF Renews
  <2>2. ASSUME NEW s \in sessions, RefreshLookup(r, s) PROVE s.user = u
    <3> DEFINE q == [pc |-> "rotate", user |-> s.user, session |-> s.id]
    <3>1. Start(r, q) /\ q.user = s.user
      BY <2>2 DEF RefreshLookup
    <3> HIDE DEF q
    <3> QED BY <2>1, <3>1, Moved
  <2>3. CASE RefreshDelete(r)
    <3> DEFINE q == [pc |-> "renew", user |-> req[r].user]
    <3>1. Start(r, q) /\ q.user = req[r].user /\ req[r].pc = "rotate"
      BY <2>3 DEF RefreshDelete
    <3> HIDE DEF q
    <3> QED BY <2>1, <3>1, Moved DEF Renews
  <2>4. ASSUME NEW q, Start(r, q), q.pc \notin {"rotate", "renew"} PROVE FALSE
    BY <2>1, <2>4, Moved
  <2>5. ASSUME NEW pc, Goto(r, pc), req[r].pc # "idle", pc \notin {"rotate", "renew"} PROVE FALSE
    BY <2>1, <2>5, Went
  <2>6. CASE (\E v \in Users, p \in Passwords : RegisterLookup(r, v, p) \/ LoginLookup(r, v, p))
             \/ (\E i \in mailed, p \in Passwords : ResetLookup(r, i, p))
    BY <2>4, <2>6 DEF RegisterLookup, LoginLookup, ResetLookup
  <2>7. CASE RegisterAnswer(r) \/ LoginSaveUser(r) \/ RefreshSave(r) \/ AskEmit(r)
             \/ ResetCleanup(r) \/ Abort(r)
    BY <2>4, <2>7 DEF RegisterAnswer, LoginSaveUser, RefreshSave, AskEmit, ResetCleanup, Abort, Idle
  <2>8. CASE (\E v \in Users : AskLookup(r, v)) \/ AskCreate(r) \/ ResetReadUser(r)
    BY <2>4, <2>8 DEF AskLookup, AskCreate, ResetReadUser
  <2>9. CASE RegisterSave(r) \/ LoginSaveSession(r) \/ AskInvalidate(r) \/ ResetSaveUser(r)
             \/ ResetDropSessions(r) \/ ResetMarkUsed(r)
    BY <2>5, <2>9
       DEF RegisterSave, LoginSaveSession, AskInvalidate, ResetSaveUser, ResetDropSessions,
           ResetMarkUsed
  <2> QED BY <1>2, <2>2, <2>3, <2>6, <2>7, <2>8, <2>9 DEF Step
<1> QED BY <1>1, <1>2, RequestsStep

(* Of a deactivated account no copy can be taken, so that nothing can      *)
(* write it back, sign it in anew or change its password; the sessions it  *)
(* still has can be refreshed, and once they are gone none comes back.     *)
THEOREM LockedOutIsFinal == Spec => LockedOutStaysOut
<1> DEFINE Out(u) ==
        /\ LockedOut(u)'
        /\ users'[u].password = users[u].password
        /\ (\E s \in sessions' \ sessions : s.user = u) => \E r \in Requests : Renews(r, u)
        /\ SignedOut(u) => SignedOut(u)'
<1>1. ASSUME IInv, [Next]_vars, NEW u \in Users, LockedOut(u) PROVE Out(u)
  <2>1. users[u] # Absent /\ ~ users[u].active
    BY <1>1 DEF LockedOut
  <2>2. ASSUME NEW r \in Requests, HoldsCopy(r, u) PROVE FALSE
    BY <1>1, <2>2 DEF LockedOut, HoldsCopy, IInv, Sound, Copying
  <2>3. /\ users'[u] # Absent /\ ~ users'[u].active
        /\ users'[u].password = users[u].password
    BY <1>1, <2>1, <2>2, RowsStep
  <2>4. ASSUME NEW r \in Requests, HoldsCopy(r, u)' PROVE FALSE
    BY <1>1, <2>1, <2>2, <2>4, CopiesStep
  <2>5. ASSUME NEW s \in sessions', s \notin sessions, s.user = u
        PROVE  \E r \in Requests : Renews(r, u)
    BY <1>1, <2>2, <2>5, SessionsStep
  <2>6. ASSUME SignedOut(u) PROVE SignedOut(u)'
    <3>1. ASSUME NEW s \in sessions', s.user = u PROVE FALSE
      BY <2>5, <2>6, <3>1 DEF SignedOut
    <3>2. ASSUME NEW r \in Requests, Renews(r, u)' PROVE FALSE
      BY <1>1, <2>6, <3>2, RenewsStep DEF SignedOut
    <3> QED BY <3>1, <3>2 DEF SignedOut
  <2> QED BY <2>3, <2>4, <2>5, <2>6 DEF LockedOut
<1>2. IInv /\ [Next]_vars
      => [\A u \in Users : LockedOut(u) =>
             /\ LockedOut(u)'
             /\ users'[u].password = users[u].password
             /\ (\E s \in sessions' \ sessions : s.user = u) => \E r \in Requests : Renews(r, u)
             /\ SignedOut(u) => SignedOut(u)']_vars
  BY <1>1
<1> QED BY <1>2, InductiveInvariant, PTL DEF Spec, LockedOutStaysOut
=============================================================================
