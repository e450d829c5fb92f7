--------------------------- MODULE SessionsProofs ---------------------------
(***************************************************************************)
(* Theorems about Sessions, for every set of actors, ids and requests,     *)
(* every choice of lifetimes and touch interval, and an unbounded number   *)
(* of requests one after another.                                          *)
(***************************************************************************)
EXTENDS Sessions, TLAPS

(***************************************************************************)
(* The inductive invariant.  Rows alone are not enough: a save writes the  *)
(* copy a request holds, so the copies must be as created too, ids must be *)
(* created once, and the parent and root of every session must have been   *)
(* created before it.                                                      *)
(***************************************************************************)
CopiesAsMinted == \A r \in Requests : req[r] # Idle => OriginOf(req[r].session) \in minted

MintedOnce == \A m, n \in minted : m.id = n.id => m = n

Lineage ==
    \A m \in minted :
        /\ m.root \in MintedIds
        /\ IF m.parent = m.id THEN m.root = m.id ELSE m.parent \in revoked
        /\ \E n \in minted : n.id = m.parent /\ n.actor = m.actor /\ n.root = m.root

IInv == TypeOK /\ RowsAsMinted /\ CopiesAsMinted /\ MintedOnce /\ Lineage

-----------------------------------------------------------------------------
(* What Session.create adds: one record, under an id that was not there,   *)
(* and a copy of it in the request's memory.                               *)
LEMMA CreateFacts ==
    ASSUME TypeOK,
           NEW r \in Requests, NEW op \in Ops, NEW i \in Ids, NEW a \in Actors,
           NEW x \in Nat, NEW parent \in Ids, NEW root \in Ids,
           Create(r, op, i, a, x, parent, root)
    PROVE  \E s \in Session :
              /\ s.id = i /\ s.actor = a /\ s.parent = parent /\ s.root = root
              /\ s.createdAt = now /\ s.lastAccessedAt = now /\ s.expiresAt = x /\ now < x
              /\ i \notin MintedIds
              /\ minted' = minted \cup {OriginOf(s)}
              /\ req' = [req EXCEPT ![r] = [pc |-> "select", op |-> op, session |-> s]]
<1> DEFINE s == [id |-> i, actor |-> a, createdAt |-> now, expiresAt |-> x,
                 lastAccessedAt |-> now, parent |-> parent, root |-> root]
<1>1. s \in Session
  BY DEF TypeOK, Session
<1>2. QED
  BY <1>1 DEF Create, Start

(* A refresh holds the old session and the expiry of the new one.          *)
LEMMA RotatingTyped == ASSUME TypeOK, NEW r \in Requests, req[r].pc = "rotate"
                       PROVE  req[r] \in Rotating /\ req[r] # Idle
BY DEF TypeOK, Busy, Serving, Pcs, Idle

LEMMA ChosenTyped == ASSUME TypeOK, NEW d \in Durations \cup {DefaultDuration}
                     PROVE  CreateExpirationDate(d) \in Nat
BY ConstantsAssumption DEF TypeOK, CreateExpirationDate

LEMMA OriginTyped == \A s \in Session : OriginOf(s) \in Origin
BY DEF Session, Origin, OriginOf

LEMMA AfterSaveTyped ==
    ASSUME NEW q \in Busy
    PROVE  /\ AfterSave(q) \in {Idle} \cup Busy
           /\ AfterSave(q) # Idle => AfterSave(q).session = q.session
BY DEF AfterSave, Busy, Serving, Rotating, Idle, Pcs, Ops

LEMMA NotIdle == ASSUME TypeOK, NEW r \in Requests
                 PROVE  /\ req[r].pc # "idle" => req[r] # Idle
                        /\ req[r] # Idle => req[r] \in Busy /\ req[r].session \in Session
                        /\ req[r].pc \in Pcs => req[r] \in Serving
BY DEF TypeOK, Idle, Busy, Serving, Rotating, Pcs

-----------------------------------------------------------------------------
LEMMA InitIInv == Init => IInv
BY ConstantsAssumption
DEF Init, IInv, TypeOK, RowsAsMinted, CopiesAsMinted, MintedOnce, Lineage, MintedIds, Idle

(* A create preserves the invariant when the new session is its own root   *)
(* and parent, or continues a session already minted and now revoked.      *)
LEMMA CreateKeepsIInv ==
    ASSUME IInv, NEW r \in Requests, NEW op \in Ops, NEW i \in Ids,
           NEW a \in Actors, NEW x \in Nat, NEW parent \in Ids, NEW root \in Ids,
           Create(r, op, i, a, x, parent, root),
           table' \subseteq table, now' = now, issued' = issued,
           revoked \subseteq revoked', revoked' \subseteq Ids,
           \/ parent = i /\ root = i
           \/ /\ parent \in revoked'
              /\ \E m \in minted : m.id = parent /\ m.actor = a /\ m.root = root
    PROVE  IInv'
<1>1. PICK s \in Session :
              /\ s.id = i /\ s.actor = a /\ s.parent = parent /\ s.root = root
              /\ i \notin MintedIds
              /\ minted' = minted \cup {OriginOf(s)}
              /\ req' = [req EXCEPT ![r] = [pc |-> "select", op |-> op, session |-> s]]
  BY CreateFacts DEF IInv
<1>2. TypeOK'
  BY <1>1, OriginTyped DEF IInv, TypeOK, Busy, Serving, Pcs, Ops
<1>3. RowsAsMinted'
  BY <1>1 DEF IInv, RowsAsMinted
<1>4. CopiesAsMinted'
  BY <1>1 DEF IInv, CopiesAsMinted, TypeOK
<1>5. MintedOnce'
  BY <1>1 DEF IInv, MintedOnce, MintedIds, OriginOf
<1>6. Lineage'
  <2> SUFFICES ASSUME NEW m \in minted'
               PROVE  /\ m.root \in MintedIds'
                      /\ IF m.parent = m.id THEN m.root = m.id ELSE m.parent \in revoked'
                      /\ \E n \in minted' :
                            n.id = m.parent /\ n.actor = m.actor /\ n.root = m.root
    BY DEF Lineage
  <2>1. CASE m \in minted
    BY <2>1, <1>1 DEF IInv, Lineage, MintedIds
  <2>2. CASE m = OriginOf(s)
    <3>1. m.id = i /\ m.parent = parent /\ m.root = root /\ m.actor = a
      BY <2>2, <1>1 DEF OriginOf
    <3>2. CASE parent = i /\ root = i
      BY <3>1, <3>2, <2>2, <1>1 DEF MintedIds
    <3>3. CASE /\ parent \in revoked'
               /\ \E n \in minted : n.id = parent /\ n.actor = a /\ n.root = root
      BY <3>1, <3>3, <1>1 DEF IInv, Lineage, MintedIds
    <3>4. QED
      BY <3>2, <3>3
  <2>3. QED
    BY <2>1, <2>2, <1>1
<1>7. QED
  BY <1>2, <1>3, <1>4, <1>5, <1>6 DEF IInv

(* Every other step leaves minted alone; it keeps the invariant when the   *)
(* rows and copies it writes are old ones as far as their origin goes.     *)
LEMMA QuietStep ==
    ASSUME IInv, TypeOK', minted' = minted, revoked \subseteq revoked',
           RowsAsMinted', CopiesAsMinted'
    PROVE  IInv'
BY DEF IInv, MintedOnce, Lineage, MintedIds

LEMMA StepIInv == IInv /\ [Next]_vars => IInv'
<1> SUFFICES ASSUME IInv, [Next]_vars PROVE IInv'
  OBVIOUS
<1>t. TypeOK /\ RowsAsMinted /\ CopiesAsMinted
  BY DEF IInv
<1>1. ASSUME NEW r \in Requests, NEW a \in Actors, NEW d \in Durations, Login(r, a, d)
      PROVE  IInv'
  BY <1>1, <1>t, CreateKeepsIInv, ChosenTyped DEF Login, IInv, TypeOK, Ops
<1>2. ASSUME NEW r \in Requests, NEW op \in {"visit", "logout"}, NEW i \in issued,
             Authenticate(r, op, i)
      PROVE  IInv'
  <2>1. PICK s \in table, q \in Busy :
               /\ req' = [req EXCEPT ![r] = q]
               /\ OriginOf(q.session) = OriginOf(s)
    <3>1. PICK s \in table :
             \/ req' = [req EXCEPT ![r] = [pc |-> "select", op |-> op, session |-> Touched(s)]]
             \/ req' = [req EXCEPT ![r] = [pc |-> "delete", op |-> op, session |-> s]]
      BY <1>2 DEF Authenticate, Start, FindByToken
    <3>2. s \in Session /\ Touched(s) \in Session /\ OriginOf(Touched(s)) = OriginOf(s)
      BY <1>t DEF TypeOK, Session, Touched, OriginOf
    <3>3. /\ [pc |-> "select", op |-> op, session |-> Touched(s)] \in Busy
          /\ [pc |-> "delete", op |-> op, session |-> s] \in Busy
      BY <3>2 DEF Busy, Serving, Pcs, Ops
    <3> QED
      BY <3>1, <3>2, <3>3
  <2>2. TypeOK'
    BY <1>2, <1>t, <2>1 DEF Authenticate, TypeOK
  <2>3. RowsAsMinted'
    BY <1>2, <1>t DEF Authenticate, RowsAsMinted
  <2>4. CopiesAsMinted'
    BY <1>2, <1>t, <2>1 DEF Authenticate, RowsAsMinted, CopiesAsMinted, TypeOK
  <2>5. QED
    BY <1>2, <2>2, <2>3, <2>4, QuietStep DEF Authenticate
<1>3. ASSUME NEW r \in Requests, NEW i \in issued, Refresh(r, i)
      PROVE  IInv'
  <2>1. PICK s \in table, q \in Busy : req' = [req EXCEPT ![r] = q] /\ q.session = s
    BY <1>3, <1>t, ChosenTyped, ConstantsAssumption
    DEF Refresh, Start, FindByToken, TypeOK, Busy, Rotating
  <2>2. TypeOK'
    BY <1>3, <1>t, <2>1 DEF Refresh, TypeOK
  <2>3. RowsAsMinted'
    BY <1>3, <1>t DEF Refresh, RowsAsMinted
  <2>4. CopiesAsMinted'
    BY <1>3, <1>t, <2>1 DEF Refresh, RowsAsMinted, CopiesAsMinted, TypeOK
  <2>5. QED
    BY <1>3, <2>2, <2>3, <2>4, QuietStep DEF Refresh
<1>4. ASSUME NEW r \in Requests, Rotate(r)
      PROVE  IInv'
  <2> DEFINE old == req[r].session
             chosen == req[r].expiresAt
  <2>1. req[r] \in Rotating /\ req[r] # Idle
    BY <1>4, <1>t, RotatingTyped DEF Rotate
  <2>2. old \in Session /\ OriginOf(old) \in minted /\ chosen \in Nat
    BY <2>1, <1>t DEF Rotating, CopiesAsMinted
  <2>3. \/ \E i \in Ids : Create(r, "refresh", i, old.actor, chosen, old.id, old.root)
        \/ req' = [req EXCEPT ![r] = Idle] /\ minted' = minted
    BY <1>4 DEF Rotate, Start
  <2>4. old.id \in Ids /\ old.root \in Ids /\ old.actor \in Actors
    BY <2>2 DEF Session
  <2>5. \E m \in minted : m.id = old.id /\ m.actor = old.actor /\ m.root = old.root
    BY <2>2 DEF OriginOf
  <2>6. /\ table' \subseteq table /\ now' = now /\ issued' = issued
        /\ revoked' = revoked \cup {old.id}
    BY <1>4 DEF Rotate, DeleteByToken, Without
  <2>7. "refresh" \in Ops /\ revoked \subseteq Ids
    BY <1>t DEF Ops, TypeOK
  <2> HIDE DEF old, chosen
  <2>8. CASE \E i \in Ids : Create(r, "refresh", i, old.actor, chosen, old.id, old.root)
    BY <2>2, <2>4, <2>5, <2>6, <2>7, <2>8, CreateKeepsIInv
  <2>9. CASE req' = [req EXCEPT ![r] = Idle] /\ minted' = minted
    <3>1. TypeOK'
      BY <2>4, <2>6, <2>9, <1>t DEF TypeOK
    <3>2. RowsAsMinted' /\ CopiesAsMinted'
      BY <2>6, <2>9, <1>t DEF RowsAsMinted, CopiesAsMinted, TypeOK
    <3> QED
      BY <2>6, <2>9, <3>1, <3>2, QuietStep
  <2> QED
    BY <2>3, <2>8, <2>9
<1>5. ASSUME NEW r \in Requests, SaveSelect(r)
      PROVE  IInv'
  <2>1. req[r] \in Serving /\ req[r] # Idle
    BY <1>5, <1>t, NotIdle DEF SaveSelect, Pcs
  <2>2. PICK q \in Busy : req' = [req EXCEPT ![r] = q] /\ q.session = req[r].session
    <3>1. PICK pc \in {"update", "insert"} : req' = [req EXCEPT ![r].pc = pc]
      BY <1>5 DEF SaveSelect, Goto
    <3>2. [req[r] EXCEPT !.pc = pc] \in Busy
      BY <2>1 DEF Busy, Serving, Pcs
    <3>3. req' = [req EXCEPT ![r] = [req[r] EXCEPT !.pc = pc]]
      BY <3>1
    <3>4. QED
      BY <3>2, <3>3, <2>1 DEF Serving
  <2>3. TypeOK'
    BY <1>5, <1>t, <2>2 DEF SaveSelect, TypeOK
  <2>4. RowsAsMinted' /\ CopiesAsMinted'
    BY <1>5, <1>t, <2>1, <2>2 DEF SaveSelect, RowsAsMinted, CopiesAsMinted, TypeOK
  <2>5. QED
    BY <1>5, <2>3, <2>4, QuietStep DEF SaveSelect
<1>6. ASSUME NEW r \in Requests, SaveUpdate(r)
      PROVE  IInv'
  <2>1. req[r] \in Busy /\ req[r] # Idle
    BY <1>6, <1>t, NotIdle DEF SaveUpdate
  <2>2. AfterSave(req[r]) \in {Idle} \cup Busy
        /\ (AfterSave(req[r]) # Idle => AfterSave(req[r]).session = req[r].session)
    BY <2>1, AfterSaveTyped
  <2>3. req[r].session \in Session /\ OriginOf(req[r].session) \in minted
    BY <2>1, <1>t, NotIdle DEF CopiesAsMinted
  <2>4. \A s \in table' : s \in Session /\ OriginOf(s) \in minted
    <3> SUFFICES ASSUME NEW s \in table'
                 PROVE  s \in Session /\ OriginOf(s) \in minted
      OBVIOUS
    <3> DEFINE e == req[r].session
    <3>1. CASE s \in table
      BY <3>1, <1>t DEF TypeOK, RowsAsMinted
    <3>2. CASE s \notin table
      <4>1. PICK t \in table : /\ t.id = e.id
                               /\ s = [t EXCEPT !.expiresAt = e.expiresAt,
                                                !.lastAccessedAt = e.lastAccessedAt]
        BY <1>6, <3>2 DEF SaveUpdate
      <4>2. t \in Session /\ OriginOf(t) \in minted
        BY <1>t DEF TypeOK, RowsAsMinted
      <4>3. OriginOf(t) = OriginOf(e)
        BY <4>1, <4>2, <2>3 DEF IInv, MintedOnce, OriginOf
      <4>4. s \in Session /\ OriginOf(s) = OriginOf(t)
        BY <4>1, <4>2, <4>3, <2>3 DEF Session, OriginOf
      <4>5. QED
        BY <4>2, <4>4
    <3>3. QED
      BY <3>1, <3>2
  <2>5. TypeOK'
    BY <1>6, <1>t, <2>2, <2>3, <2>4 DEF SaveUpdate, Start, TypeOK, IssuedAfterSave, Session
  <2>6. RowsAsMinted' /\ CopiesAsMinted'
    BY <1>6, <1>t, <2>2, <2>3, <2>4 DEF SaveUpdate, Start, RowsAsMinted, CopiesAsMinted, TypeOK
  <2>7. QED
    BY <1>6, <2>5, <2>6, QuietStep DEF SaveUpdate
<1>7. ASSUME NEW r \in Requests, SaveInsert(r)
      PROVE  IInv'
  <2>1. req[r] \in Busy /\ req[r] # Idle
    BY <1>7, <1>t, NotIdle DEF SaveInsert
  <2>2. AfterSave(req[r]) \in {Idle} \cup Busy
        /\ (AfterSave(req[r]) # Idle => AfterSave(req[r]).session = req[r].session)
    BY <2>1, AfterSaveTyped
  <2>3. req[r].session \in Session /\ OriginOf(req[r].session) \in minted
    BY <2>1, <1>t, NotIdle DEF CopiesAsMinted
  <2>4. TypeOK'
    BY <1>7, <1>t, <2>2, <2>3 DEF SaveInsert, Start, TypeOK, IssuedAfterSave, Session
  <2>5. RowsAsMinted' /\ CopiesAsMinted'
    BY <1>7, <1>t, <2>2, <2>3 DEF SaveInsert, Start, RowsAsMinted, CopiesAsMinted, TypeOK
  <2>6. QED
    BY <1>7, <2>4, <2>5, QuietStep DEF SaveInsert
<1>8. ASSUME NEW r \in Requests, RecordLogin(r) \/ Logout(r)
      PROVE  IInv'
  <2>1. req[r].session.id \in Ids
    BY <1>8, <1>t, NotIdle DEF RecordLogin, Logout, Session
  <2>2. TypeOK'
    BY <1>8, <1>t, <2>1 DEF RecordLogin, Logout, DeleteByToken, Start, Without, TypeOK
  <2>3. RowsAsMinted' /\ CopiesAsMinted'
    BY <1>8, <1>t DEF RecordLogin, Logout, DeleteByToken, Start, Without, RowsAsMinted, CopiesAsMinted, TypeOK
  <2>4. QED
    BY <1>8, <2>2, <2>3, QuietStep DEF RecordLogin, Logout, DeleteByToken
<1>9. ASSUME NEW r \in Requests, StatementFails(r)
      PROVE  IInv'
  <2>1. req[r] \in Busy
    BY <1>9, <1>t, NotIdle DEF StatementFails
  <2>2. PICK q \in {Idle} \cup Busy :
          req' = [req EXCEPT ![r] = q] /\ (q # Idle => q.session = req[r].session)
    BY <1>9, <2>1, AfterSaveTyped DEF StatementFails, Start
  <2>3. TypeOK'
    BY <1>9, <1>t, <2>2 DEF StatementFails, TypeOK
  <2>4. RowsAsMinted' /\ CopiesAsMinted'
    BY <1>9, <1>t, <2>2 DEF StatementFails, RowsAsMinted, CopiesAsMinted, TypeOK
  <2>5. QED
    BY <1>9, <2>3, <2>4, QuietStep DEF StatementFails
<1>10. ASSUME NEW a \in Actors, RevokeActor(a)
       PROVE  IInv'
  <2>1. TypeOK'
    BY <1>10, <1>t DEF RevokeActor, TypeOK, Session
  <2>2. RowsAsMinted' /\ CopiesAsMinted'
    BY <1>10, <1>t DEF RevokeActor, RowsAsMinted, CopiesAsMinted
  <2>3. QED
    BY <1>10, <2>1, <2>2, QuietStep DEF RevokeActor
<1>11. CASE Crash \/ Tick \/ UNCHANGED vars
  <2>1. TypeOK'
    BY <1>11, <1>t DEF Crash, Tick, vars, TypeOK
  <2>2. RowsAsMinted' /\ CopiesAsMinted'
    BY <1>11, <1>t DEF Crash, Tick, vars, RowsAsMinted, CopiesAsMinted
  <2>3. QED
    BY <1>11, <2>1, <2>2, QuietStep DEF Crash, Tick, vars
<1>12. QED
  BY <1>1, <1>2, <1>3, <1>4, <1>5, <1>6, <1>7, <1>8, <1>9, <1>10, <1>11 DEF Next, Step

(* The inductive invariant holds of every reachable state. *)
THEOREM InductiveInvariant == Spec => []IInv
BY InitIInv, StepIInv, PTL DEF Spec

(* Every variable keeps its type, for every value of the constants. *)
THEOREM TypeCorrect == Spec => []TypeOK
BY InductiveInvariant, PTL DEF IInv

(* No interleaving of the handlers stores a session under another owner,   *)
(* expiry or lineage than Session.create gave it.                          *)
THEOREM RowsKeepTheirOrigin == Spec => []RowsAsMinted
BY InductiveInvariant, PTL DEF IInv

(* After a refresh the token it replaced has been revoked before the       *)
(* successor is stored, and both belong to one owner.                      *)
THEOREM RotationRevokesFirst == Spec => []SuccessorAfterRevocation
<1>1. IInv => SuccessorAfterRevocation
  BY DEF IInv, RowsAsMinted, Lineage, SuccessorAfterRevocation, OriginOf
<1>2. QED
  BY <1>1, InductiveInvariant, PTL

-----------------------------------------------------------------------------
(* One row per id.  The decision between UPDATE and INSERT is taken on an  *)
(* old SELECT; what keeps the table a function of the id is that UPDATE    *)
(* never changes an id and INSERT meets the primary key.                   *)
THEOREM OneRowAlways == Spec => []OneRowPerId
<1>1. Init => OneRowPerId
  BY DEF Init, OneRowPerId
<1>2. TypeOK /\ OneRowPerId /\ [Next]_vars => OneRowPerId'
  <2> SUFFICES ASSUME TypeOK, OneRowPerId, [Next]_vars PROVE OneRowPerId'
    OBVIOUS
  <2>1. ASSUME table' \subseteq table PROVE OneRowPerId'
    BY <2>1 DEF OneRowPerId
  <2>2. ASSUME NEW r \in Requests, SaveUpdate(r) PROVE OneRowPerId'
    <3> DEFINE e == req[r].session
               upd(s) == IF s.id = e.id
                           THEN [s EXCEPT !.expiresAt = e.expiresAt,
                                          !.lastAccessedAt = e.lastAccessedAt]
                           ELSE s
    <3>1. table' = {upd(s) : s \in table}
      BY <2>2 DEF SaveUpdate
    <3>2. \A s \in table : upd(s).id = s.id
      BY DEF TypeOK, Session
    <3> HIDE DEF upd
    <3>3. QED
      BY <3>1, <3>2 DEF OneRowPerId
  <2>3. ASSUME NEW r \in Requests, SaveInsert(r) PROVE OneRowPerId'
    BY <2>3 DEF SaveInsert, KeyFree, FindByToken, OneRowPerId
  <2>4. QED
    BY <2>1, <2>2, <2>3
    DEF Next, Step, vars, Login, Authenticate, Refresh, Rotate, SaveSelect, RecordLogin,
        Logout, StatementFails, RevokeActor, Crash, Tick, DeleteByToken, Without
<1>3. QED
  BY <1>1, <1>2, TypeCorrect, PTL DEF Spec

-----------------------------------------------------------------------------
(* A dead login stays dead.  Every step that stores a row or hands a       *)
(* request a session takes it from a row or from a copy already held, but  *)
(* for Login, whose root is fresh.                                         *)
LEMMA DeadStep ==
    ASSUME IInv, [Next]_vars, NEW m \in minted, ~ Alive(m.root)
    PROVE  ~ Alive(m.root)'
<1> DEFINE root == m.root
<1>a. /\ \A s \in table : s.root # root
      /\ \A r \in Requests : ~ Carries(req[r], root)
  BY DEF Alive
<1>t. TypeOK /\ root \in MintedIds
  BY DEF IInv, Lineage
<1> SUFFICES /\ \A s \in table' : s.root # root
             /\ \A r \in Requests : ~ Carries(req'[r], root)
  BY DEF Alive, Carries
<1> HIDE DEF root
<1>1. ASSUME NEW r \in Requests, NEW a \in Actors, NEW d \in Durations, Login(r, a, d)
      PROVE  /\ \A s \in table' : s.root # root
             /\ \A r1 \in Requests : ~ Carries(req'[r1], root)
  <2>1. PICK i \in Ids : Create(r, "login", i, a, CreateExpirationDate(d), i, i)
    BY <1>1 DEF Login
  <2>2. PICK s \in Session :
          /\ s.root = i /\ i \notin MintedIds
          /\ req' = [req EXCEPT ![r] = [pc |-> "select", op |-> "login", session |-> s]]
    BY <2>1, <1>t, CreateFacts, ChosenTyped DEF Ops
  <2>3. QED
    BY <1>1, <1>a, <1>t, <2>2 DEF Login, Carries, TypeOK
<1>2. ASSUME NEW r \in Requests, NEW op \in {"visit", "logout"}, NEW i \in issued,
             Authenticate(r, op, i) \/ Refresh(r, i)
      PROVE  /\ \A s \in table' : s.root # root
             /\ \A r1 \in Requests : ~ Carries(req'[r1], root)
  <2>1. PICK s \in table, q \in Busy :
          req' = [req EXCEPT ![r] = q] /\ q.session.root = s.root
    <3>1. PICK s \in table :
             \/ req' = [req EXCEPT ![r] = [pc |-> "select", op |-> op, session |-> Touched(s)]]
             \/ req' = [req EXCEPT ![r] = [pc |-> "delete", op |-> op, session |-> s]]
             \/ req' = [req EXCEPT ![r] = [pc |-> "rotate", op |-> "refresh", session |-> s,
                                           expiresAt |-> CreateExpirationDate(DefaultDuration)]]
      BY <1>2 DEF Authenticate, Refresh, Start, FindByToken
    <3>2. s \in Session /\ Touched(s) \in Session /\ Touched(s).root = s.root
      BY <1>t DEF TypeOK, Session, Touched
    <3>3. /\ [pc |-> "select", op |-> op, session |-> Touched(s)] \in Busy
          /\ [pc |-> "delete", op |-> op, session |-> s] \in Busy
          /\ [pc |-> "rotate", op |-> "refresh", session |-> s,
               expiresAt |-> CreateExpirationDate(DefaultDuration)] \in Busy
      BY <3>2, <1>t, ChosenTyped, ConstantsAssumption DEF Busy, Serving, Rotating, Pcs, Ops
    <3> QED
      BY <3>1, <3>2, <3>3
  <2>2. QED
    BY <1>2, <1>a, <1>t, <2>1 DEF Authenticate, Refresh, Carries, TypeOK
<1>3. ASSUME NEW r \in Requests, Rotate(r)
      PROVE  /\ \A s \in table' : s.root # root
             /\ \A r1 \in Requests : ~ Carries(req'[r1], root)
  <2> DEFINE old == req[r].session
             chosen == req[r].expiresAt
  <2>1. req[r] \in Rotating /\ req[r].pc = "rotate" /\ req[r] # Idle
    BY <1>3, <1>t, RotatingTyped DEF Rotate
  <2>2. old \in Session /\ old.root # root /\ chosen \in Nat
    BY <2>1, <1>a DEF Rotating, Carries
  <2>3. \/ req' = [req EXCEPT ![r] = Idle]
        \/ \E i \in Ids : Create(r, "refresh", i, old.actor, chosen, old.id, old.root)
    BY <1>3 DEF Rotate, Start
  <2>4. \/ req' = [req EXCEPT ![r] = Idle]
        \/ \E s \in Session :
              /\ s.root = old.root
              /\ req' = [req EXCEPT ![r] = [pc |-> "select", op |-> "refresh", session |-> s]]
    <3>1. /\ old.actor \in Actors /\ old.id \in Ids /\ old.root \in Ids
          /\ "refresh" \in Ops
      BY <2>2 DEF Session, Ops
    <3> HIDE DEF old, chosen
    <3>2. QED
      BY <2>2, <2>3, <3>1, <1>t, CreateFacts
  <2>5. QED
    BY <1>3, <1>a, <1>t, <2>2, <2>4 DEF Rotate, DeleteByToken, Without, Carries, TypeOK
<1>4. ASSUME NEW r \in Requests,
             SaveSelect(r) \/ SaveUpdate(r) \/ SaveInsert(r) \/ RecordLogin(r)
               \/ Logout(r) \/ StatementFails(r)
      PROVE  /\ \A s \in table' : s.root # root
             /\ \A r1 \in Requests : ~ Carries(req'[r1], root)
  <2>1. req[r] \in Busy
    BY <1>4, <1>t, NotIdle
    DEF SaveSelect, SaveUpdate, SaveInsert, RecordLogin, Logout, StatementFails
  <2>2. req' = [req EXCEPT ![r] = req'[r]]
    BY <1>4, <1>t
    DEF SaveSelect, SaveUpdate, SaveInsert, RecordLogin, Logout, StatementFails,
        Start, Goto, TypeOK
  <2>3. req'[r] = Idle \/ req'[r].pc = "delete" \/
          (req[r] # Idle /\ req[r].pc # "delete" /\ req'[r].session = req[r].session)
    <3>1. AfterSave(req[r]) = Idle \/ AfterSave(req[r]).pc = "delete" \/
            AfterSave(req[r]).session = req[r].session
      BY <2>1 DEF AfterSave, Busy
    <3>2. CASE SaveSelect(r)
      BY <3>2, <1>t, <2>1, NotIdle DEF SaveSelect, Goto, TypeOK, Busy
    <3>3. CASE SaveUpdate(r) \/ SaveInsert(r)
      BY <3>1, <3>3, <1>t, NotIdle DEF SaveUpdate, SaveInsert, Start, TypeOK
    <3>4. CASE RecordLogin(r) \/ Logout(r)
      BY <3>4, <1>t DEF RecordLogin, Logout, Start, TypeOK
    <3>5. CASE StatementFails(r)
      BY <3>1, <3>5, <1>t, NotIdle DEF StatementFails, Start, TypeOK
    <3>6. QED
      BY <1>4, <3>2, <3>3, <3>4, <3>5
  <2>4. ~ Carries(req'[r], root)
    BY <2>3, <1>a DEF Carries
  <2>5. \A s \in table' : s.root # root
    <3>1. CASE SaveInsert(r)
      BY <3>1, <1>a, <1>t, NotIdle DEF SaveInsert, Carries
    <3>2. CASE SaveUpdate(r)
      BY <3>2, <1>a, <1>t DEF SaveUpdate, TypeOK, Session
    <3>3. QED
      BY <1>4, <1>a, <3>1, <3>2
      DEF SaveSelect, RecordLogin, Logout, StatementFails, DeleteByToken, Without
  <2>6. QED
    BY <1>a, <1>t, <2>2, <2>4, <2>5 DEF TypeOK
<1>5. ASSUME \/ \E a \in Actors : RevokeActor(a)
             \/ Crash
             \/ Tick
             \/ UNCHANGED vars
      PROVE  /\ \A s \in table' : s.root # root
             /\ \A r1 \in Requests : ~ Carries(req'[r1], root)
  BY <1>5, <1>a DEF RevokeActor, Crash, Tick, vars, Carries
<1>6. QED
  BY <1>1, <1>2, <1>3, <1>4, <1>5 DEF Next, Step

(* Once a login has no row left and no request holds one of its sessions,  *)
(* no sequence of steps brings it back.                                    *)
THEOREM DeadLoginIsFinal == Spec => DeadLoginStaysDead
<1>1. IInv /\ [Next]_vars => [\A m \in minted : ~ Alive(m.root) => ~ Alive(m.root)']_vars
  BY DeadStep
<1>2. QED
  BY <1>1, InductiveInvariant, PTL DEF Spec, DeadLoginStaysDead

-----------------------------------------------------------------------------
(***************************************************************************)
(* Only a stale session returns.  The invariant says why: a save in        *)
(* progress is either that of a new session, which has no row yet and of   *)
(* which nobody else has a copy, or a touch, whose copy is of an age.      *)
(***************************************************************************)
Aged(s) == s.lastAccessedAt >= s.createdAt + TouchInterval

Ordered(s) == s.createdAt <= s.lastAccessedAt /\ s.lastAccessedAt < s.expiresAt

Saving(r) == req[r] # Idle /\ req[r].pc \in {"select", "update", "insert"}

Fresh(r) ==
    /\ req[r].pc # "update"
    /\ req[r].session.id \notin revoked
    /\ \A s \in table : s.id # req[r].session.id
    /\ \A q \in Requests \ {r} : req[q] # Idle => req[q].session.id # req[r].session.id

NewOrAged ==
    \A r \in Requests :
        Saving(r) => /\ Touching(req[r]) => Aged(req[r].session)
                     /\ ~ Touching(req[r]) => Fresh(r)

InOrder ==
    /\ \A s \in table : Ordered(s)
    /\ \A r \in Requests : req[r] # Idle => Ordered(req[r].session)

AInv ==
    /\ IInv
    /\ OneRowPerId
    /\ OnlyStaleReturn
    /\ revoked \subseteq MintedIds
    /\ InOrder
    /\ NewOrAged

LEMMA InitAInv == Init => AInv
BY InitIInv
DEF Init, AInv, OneRowPerId, OnlyStaleReturn, InOrder, NewOrAged, Saving, MintedIds

LEMMA MintedIdOf == ASSUME NEW s, OriginOf(s) \in minted PROVE s.id \in MintedIds
<1>1. OriginOf(s).id = s.id
  BY DEF OriginOf
<1>2. QED
  BY <1>1 DEF MintedIds

LEMMA IdsInUseMinted ==
    ASSUME RowsAsMinted, CopiesAsMinted
    PROVE  /\ \A s \in table : s.id \in MintedIds
           /\ \A r \in Requests : req[r] # Idle => req[r].session.id \in MintedIds
BY MintedIdOf DEF RowsAsMinted, CopiesAsMinted

(* A new session enters the invariant whatever it descends from. *)
LEMMA CreateKeepsAInv ==
    ASSUME AInv, IInv', NEW r \in Requests, NEW op \in {"login", "refresh"},
           NEW i \in Ids, NEW a \in Actors, NEW x \in Nat,
           NEW parent \in Ids, NEW root \in Ids,
           Create(r, op, i, a, x, parent, root),
           \/ table' = table /\ revoked' = revoked
           \/ /\ req[r] # Idle
              /\ table' = Without(req[r].session.id)
              /\ revoked' = revoked \cup {req[r].session.id}
    PROVE  AInv'
<1>t. TypeOK /\ RowsAsMinted /\ CopiesAsMinted /\ op \in Ops
  BY DEF AInv, IInv, Ops
<1>1. PICK s \in Session :
              /\ s.id = i /\ s.createdAt = now /\ s.lastAccessedAt = now
              /\ s.expiresAt = x /\ now < x
              /\ i \notin MintedIds
              /\ minted' = minted \cup {OriginOf(s)}
              /\ req' = [req EXCEPT ![r] = [pc |-> "select", op |-> op, session |-> s]]
  BY <1>t, CreateFacts
<1>2. /\ table' \subseteq table
      /\ \A t \in table : t.id # i
      /\ i \notin revoked
  BY <1>1, <1>t, IdsInUseMinted DEF AInv, Without
<1>3. \A q \in Requests : req[q] # Idle => req[q].session.id # i
  BY <1>1, <1>t, IdsInUseMinted
<1>4. OneRowPerId' /\ OnlyStaleReturn'
  BY <1>2 DEF AInv, OneRowPerId, OnlyStaleReturn, Without
<1>5. (revoked \subseteq MintedIds)'
  <2>1. req[r] # Idle => req[r].session.id \in MintedIds
    BY <1>t, IdsInUseMinted
  <2>2. MintedIds \subseteq MintedIds'
    BY <1>1 DEF MintedIds
  <2>3. QED
    BY <2>1, <2>2 DEF AInv
<1>6. InOrder'
  <2>1. Ordered(s)
    BY <1>1, <1>t DEF Ordered, TypeOK
  <2>2. QED
    BY <2>1, <1>1, <1>2, <1>t DEF AInv, InOrder, Ordered, TypeOK
<1>7. NewOrAged'
  <2> SUFFICES ASSUME NEW q \in Requests, Saving(q)'
               PROVE  /\ Touching(req'[q]) => Aged(req'[q].session)
                      /\ ~ Touching(req'[q]) => Fresh(q)'
    BY DEF NewOrAged, Touching, Aged
  <2>1. CASE q = r
    <3>1. ~ Touching(req'[q])
      BY <2>1, <1>1, <1>t DEF TypeOK, Touching
    <3>2. Fresh(q)'
      BY <2>1, <1>1, <1>2, <1>3, <1>t DEF TypeOK, Fresh
    <3>3. QED
      BY <3>1, <3>2
  <2>2. CASE q # r
    <3>1. req'[q] = req[q] /\ Saving(q)
      BY <2>2, <1>1, <1>t DEF TypeOK, Saving
    <3>2. req[q].session.id # i
      BY <3>1, <1>3 DEF Saving
    <3>3. CASE Touching(req[q])
      BY <3>1, <3>3 DEF AInv, NewOrAged
    <3>4. CASE ~ Touching(req[q])
      <4>1. Fresh(q)
        BY <3>1, <3>4 DEF AInv, NewOrAged
      <4>2. Fresh(q)'
        BY <4>1, <2>2, <3>1, <3>2, <1>1, <1>2, <1>t DEF Fresh, TypeOK
      <4>3. QED
        BY <3>1, <3>4, <4>2
    <3>5. QED
      BY <3>3, <3>4
  <2>3. QED
    BY <2>1, <2>2
<1>8. QED
  BY <1>4, <1>5, <1>6, <1>7 DEF AInv

(* A request that takes a row into memory, to delete it, to rotate it or,  *)
(* once it is of an age, to touch it.                                      *)
LEMMA TakeRow ==
    ASSUME AInv, IInv', NEW r \in Requests, NEW s \in table, NEW q \in Busy,
           req' = [req EXCEPT ![r] = q], q.session.id = s.id, Ordered(q.session),
           \/ q.pc \in {"delete", "rotate"}
           \/ Touching(q) /\ Aged(q.session),
           UNCHANGED <<table, minted, revoked>>
    PROVE  AInv'
<1>t. TypeOK
  BY DEF AInv, IInv
<1>1. OneRowPerId' /\ OnlyStaleReturn' /\ (revoked \subseteq MintedIds)'
  BY DEF AInv, OneRowPerId, OnlyStaleReturn, MintedIds
<1>2. InOrder'
  BY <1>t DEF AInv, InOrder, Ordered, TypeOK
<1>3. NewOrAged'
  <2> SUFFICES ASSUME NEW p \in Requests, Saving(p)'
               PROVE  /\ Touching(req'[p]) => Aged(req'[p].session)
                      /\ ~ Touching(req'[p]) => Fresh(p)'
    BY DEF NewOrAged, Touching, Aged
  <2>1. CASE p = r
    BY <2>1, <1>t DEF TypeOK, Saving
  <2>2. CASE p # r
    <3>1. req'[p] = req[p] /\ Saving(p)
      BY <2>2, <1>t DEF TypeOK, Saving
    <3>2. ~ Touching(req[p]) => Fresh(p)'
      BY <2>2, <3>1, <1>t DEF AInv, NewOrAged, Fresh, TypeOK
    <3>3. QED
      BY <3>1, <3>2 DEF AInv, NewOrAged
  <2>3. QED
    BY <2>1, <2>2
<1>4. QED
  BY <1>1, <1>2, <1>3 DEF AInv

(* A request that goes on with the copy it holds, or ends, and that writes *)
(* no new row; a deletion may remove the row of the id it holds.           *)
LEMMA GoOn ==
    ASSUME AInv, IInv', NEW r \in Requests, req[r] # Idle, minted' = minted,
           NEW q \in {Idle} \cup Busy, req' = [req EXCEPT ![r] = q],
           q # Idle => q.session = req[r].session /\ q.op = req[r].op,
           (q # Idle /\ q.pc \in {"select", "update", "insert"}) =>
                Saving(r) /\ (Touching(q) \/ q.pc # "update"),
           \/ table' = table /\ revoked' = revoked
           \/ /\ table' = Without(req[r].session.id)
              /\ revoked' = revoked \cup {req[r].session.id}
              /\ q = Idle
    PROVE  AInv'
<1>t. TypeOK /\ RowsAsMinted /\ CopiesAsMinted
  BY DEF AInv, IInv
<1>1. OneRowPerId' /\ OnlyStaleReturn'
  BY DEF AInv, OneRowPerId, OnlyStaleReturn, Without
<1>2. (revoked \subseteq MintedIds)'
  BY <1>t, IdsInUseMinted DEF AInv, MintedIds
<1>3. InOrder'
  BY <1>t DEF AInv, InOrder, Ordered, TypeOK, Without
<1>4. NewOrAged'
  <2> SUFFICES ASSUME NEW p \in Requests, Saving(p)'
               PROVE  /\ Touching(req'[p]) => Aged(req'[p].session)
                      /\ ~ Touching(req'[p]) => Fresh(p)'
    BY DEF NewOrAged, Touching, Aged
  <2>0. \A p1 \in Requests \ {r} : req'[p1] = req[p1]
    BY <1>t DEF TypeOK
  <2>1. CASE p = r
    <3>1. req'[p] = q /\ Saving(r) /\ table' = table /\ revoked' = revoked
      BY <2>1, <1>t DEF TypeOK, Saving
    <3>2. Touching(q) <=> Touching(req[r])
      BY <3>1, <2>1 DEF Touching, Saving
    <3>3. CASE Touching(req[r])
      BY <3>1, <3>2, <3>3, <2>1 DEF AInv, NewOrAged, Saving
    <3>4. CASE ~ Touching(req[r])
      <4>1. Fresh(r)
        BY <3>1, <3>4 DEF AInv, NewOrAged
      <4>2. Fresh(r)'
        BY <4>1, <3>1, <3>2, <3>4, <2>0, <2>1 DEF Fresh, Saving
      <4>3. QED
        BY <3>1, <3>2, <3>4, <4>2, <2>1
    <3>5. QED
      BY <3>3, <3>4
  <2>2. CASE p # r
    <3>1. req'[p] = req[p] /\ Saving(p)
      BY <2>2, <2>0 DEF Saving
    <3>2. ASSUME ~ Touching(req[p]) PROVE Fresh(p)'
      <4>1. Fresh(p)
        BY <3>1, <3>2 DEF AInv, NewOrAged
      <4>2. req[r].session.id # req[p].session.id
        BY <4>1, <2>2 DEF Fresh
      <4>3. \A p1 \in Requests \ {p} : req'[p1] # Idle =>
               req'[p1].session.id # req[p].session.id
        <5>1. req'[r] = q
          BY <1>t DEF TypeOK
        <5>2. QED
          BY <4>1, <4>2, <5>1, <2>0 DEF Fresh
      <4>4. QED
        BY <4>1, <4>2, <4>3, <3>1 DEF Fresh, Without
    <3>3. QED
      BY <3>1, <3>2 DEF AInv, NewOrAged
  <2>3. QED
    BY <2>1, <2>2
<1>5. QED
  BY <1>1, <1>2, <1>3, <1>4 DEF AInv

LEMMA StepAInv == AInv /\ [Next]_vars => AInv'
<1> SUFFICES ASSUME AInv, [Next]_vars PROVE AInv'
  OBVIOUS
<1>t. TypeOK /\ RowsAsMinted /\ CopiesAsMinted /\ IInv' /\ TypeOK'
  BY StepIInv DEF AInv, IInv
<1>1. ASSUME NEW r \in Requests, NEW a \in Actors, NEW d \in Durations, Login(r, a, d)
      PROVE  AInv'
  BY <1>1, <1>t, CreateKeepsAInv, ChosenTyped DEF Login
<1>2. ASSUME NEW r \in Requests, NEW op \in {"visit", "logout"}, NEW i \in issued,
             Authenticate(r, op, i)
      PROVE  AInv'
  <2>1. PICK s \in FindByToken(i) :
          /\ ~ IsExpired(s)
          /\ \/ /\ IsStale(s)
                /\ Start(r, [pc |-> "select", op |-> op, session |-> Touched(s)])
             \/ Start(r, [pc |-> "delete", op |-> op, session |-> s])
    BY <1>2 DEF Authenticate
  <2>2. s \in table /\ s \in Session /\ Ordered(s)
    BY <2>1, <1>t DEF FindByToken, TypeOK, AInv, InOrder
  <2>3. CASE Start(r, [pc |-> "delete", op |-> op, session |-> s])
    <3> DEFINE q == [pc |-> "delete", op |-> op, session |-> s]
    <3>1. /\ req' = [req EXCEPT ![r] = q] /\ q \in Busy
          /\ q.session.id = s.id /\ q.pc = "delete" /\ Ordered(q.session)
      BY <2>2, <2>3 DEF Start, Busy, Serving, Pcs, Ops
    <3> HIDE DEF q
    <3>2. QED
      BY <1>2, <1>t, <2>2, <3>1, TakeRow DEF Authenticate
  <2>4. CASE /\ IsStale(s)
             /\ Start(r, [pc |-> "select", op |-> op, session |-> Touched(s)])
    <3> DEFINE q == [pc |-> "select", op |-> op, session |-> Touched(s)]
    <3>1. /\ Touched(s) \in Session /\ Touched(s).id = s.id
          /\ Touched(s).createdAt = s.createdAt /\ Touched(s).lastAccessedAt = now
          /\ Touched(s).expiresAt = s.expiresAt
      BY <2>2, <1>t DEF Touched, Session, TypeOK
    <3>2. Aged(Touched(s)) /\ Ordered(Touched(s))
      BY <3>1, <2>1, <2>2, <2>4, <1>t, ConstantsAssumption
      DEF IsStale, IsExpired, Aged, Ordered, Session, TypeOK
    <3>3. /\ req' = [req EXCEPT ![r] = q] /\ q \in Busy /\ q.session.id = s.id
          /\ Touching(q) /\ Aged(q.session) /\ Ordered(q.session)
      BY <2>4, <3>1, <3>2 DEF Start, Busy, Serving, Pcs, Ops, Touching
    <3> HIDE DEF q
    <3>4. QED
      BY <1>2, <1>t, <2>2, <3>3, TakeRow DEF Authenticate
  <2>5. QED
    BY <2>1, <2>3, <2>4
<1>3. ASSUME NEW r \in Requests, NEW i \in issued, Refresh(r, i)
      PROVE  AInv'
  <2>0. CreateExpirationDate(DefaultDuration) \in Nat
    BY <1>t, ChosenTyped, ConstantsAssumption
  <2>1. PICK s \in table : req' = [req EXCEPT ![r] =
                              [pc |-> "rotate", op |-> "refresh", session |-> s,
                               expiresAt |-> CreateExpirationDate(DefaultDuration)]]
    BY <1>3 DEF Refresh, Start, FindByToken
  <2> DEFINE q == [pc |-> "rotate", op |-> "refresh", session |-> s,
                   expiresAt |-> CreateExpirationDate(DefaultDuration)]
  <2>2. /\ req' = [req EXCEPT ![r] = q] /\ q \in Busy
        /\ q.session.id = s.id /\ q.pc = "rotate" /\ Ordered(q.session)
    BY <2>0, <2>1, <1>t DEF Busy, Rotating, TypeOK, AInv, InOrder
  <2> HIDE DEF q
  <2>3. QED
    BY <1>3, <1>t, <2>2, TakeRow DEF Refresh
<1>4. ASSUME NEW r \in Requests, Rotate(r)
      PROVE  AInv'
  <2> DEFINE old == req[r].session
             chosen == req[r].expiresAt
  <2>1. req[r] \in Rotating /\ req[r] # Idle
    BY <1>4, <1>t, RotatingTyped DEF Rotate
  <2>2. old.actor \in Actors /\ old.id \in Ids /\ old.root \in Ids /\ chosen \in Nat
    BY <2>1 DEF Rotating, Session
  <2>3. \/ \E i \in Ids : Create(r, "refresh", i, old.actor, chosen, old.id, old.root)
        \/ req' = [req EXCEPT ![r] = Idle] /\ minted' = minted
    BY <1>4 DEF Rotate, Start
  <2>4. table' = Without(old.id) /\ revoked' = revoked \cup {old.id}
    BY <1>4 DEF Rotate, DeleteByToken
  <2>5. CASE \E i \in Ids : Create(r, "refresh", i, old.actor, chosen, old.id, old.root)
    BY <1>t, <2>1, <2>2, <2>4, <2>5, CreateKeepsAInv
  <2>6. CASE req' = [req EXCEPT ![r] = Idle] /\ minted' = minted
    BY <1>t, <2>1, <2>4, <2>6, GoOn
  <2> QED
    BY <2>3, <2>5, <2>6
<1>5. ASSUME NEW r \in Requests, SaveSelect(r)
      PROVE  AInv'
  <2>1. req[r] \in Serving /\ req[r] # Idle /\ Saving(r)
    BY <1>5, <1>t, NotIdle DEF SaveSelect, Saving, Pcs
  <2>2. PICK pc \in {"update", "insert"} :
          /\ req' = [req EXCEPT ![r].pc = pc]
          /\ pc = "update" => FindByToken(req[r].session.id) # {}
    BY <1>5 DEF SaveSelect, Goto
  <2>3. pc = "update" => Touching(req[r])
    BY <2>1, <2>2 DEF AInv, NewOrAged, Fresh, FindByToken
  <2> DEFINE q == [req[r] EXCEPT !.pc = pc]
  <2>4. /\ q \in Busy /\ req' = [req EXCEPT ![r] = q]
        /\ q.session = req[r].session /\ q.op = req[r].op /\ q.pc = pc
    BY <2>1, <2>2 DEF Busy, Serving, Pcs
  <2> HIDE DEF q
  <2>5. Touching(q) <=> Touching(req[r])
    BY <2>4 DEF Touching
  <2>6. QED
    BY <1>5, <1>t, <2>1, <2>3, <2>4, <2>5, GoOn DEF SaveSelect
<1>6. ASSUME NEW r \in Requests, SaveUpdate(r)
      PROVE  AInv'
  <2> DEFINE e == req[r].session
             upd(s) == IF s.id = e.id
                         THEN [s EXCEPT !.expiresAt = e.expiresAt,
                                        !.lastAccessedAt = e.lastAccessedAt]
                         ELSE s
  <2>1. req[r] \in Busy /\ req[r] # Idle /\ Saving(r) /\ req[r].pc = "update"
    BY <1>6, <1>t, NotIdle DEF SaveUpdate, Saving
  <2>2. Touching(req[r]) /\ Aged(e) /\ Ordered(e) /\ e \in Session /\ OriginOf(e) \in minted
    BY <2>1, <1>t, NotIdle DEF AInv, NewOrAged, Fresh, InOrder, CopiesAsMinted
  <2>3. /\ table' = {upd(s) : s \in table} /\ revoked' = revoked /\ minted' = minted
        /\ req' = [req EXCEPT ![r] = AfterSave(req[r])]
    BY <1>6 DEF SaveUpdate, Start
  <2>4. \A s \in table : s.id = e.id => s.createdAt = e.createdAt
    BY <2>2, <1>t DEF AInv, IInv, RowsAsMinted, MintedOnce, OriginOf
  <2>5. \A s \in table : /\ upd(s).id = s.id
                         /\ upd(s) # s => Aged(upd(s))
                         /\ Ordered(upd(s))
    BY <1>t, <2>2, <2>4 DEF AInv, InOrder, Aged, Ordered, Session, TypeOK
  <2>6. /\ req'[r] = AfterSave(req[r])
        /\ \A p \in Requests \ {r} : req'[p] = req[p]
    BY <2>3, <1>t DEF TypeOK
  <2>7. req'[r] = Idle \/ (req'[r].pc = "delete" /\ req'[r].session = e)
    BY <2>1, <2>2, <2>6 DEF AfterSave, Touching, Busy
  <2> HIDE DEF upd
  <2>8. OneRowPerId' /\ OnlyStaleReturn' /\ (revoked \subseteq MintedIds)'
    BY <2>3, <2>5 DEF AInv, OneRowPerId, OnlyStaleReturn, MintedIds, Aged
  <2>9. InOrder'
    BY <2>2, <2>3, <2>5, <2>6, <2>7 DEF AInv, InOrder, Ordered
  <2>10. NewOrAged'
    <3> SUFFICES ASSUME NEW p \in Requests, Saving(p)'
                 PROVE  /\ Touching(req'[p]) => Aged(req'[p].session)
                        /\ ~ Touching(req'[p]) => Fresh(p)'
      BY DEF NewOrAged, Touching, Aged
    <3>1. p # r /\ req'[p] = req[p] /\ Saving(p)
      BY <2>6, <2>7 DEF Saving
    <3>2. ASSUME ~ Touching(req[p]) PROVE Fresh(p)'
      <4>1. Fresh(p)
        BY <3>1, <3>2 DEF AInv, NewOrAged
      <4>2. \A s \in table' : s.id # req[p].session.id
        BY <4>1, <2>3, <2>5 DEF Fresh
      <4>3. QED
        BY <4>1, <4>2, <3>1, <2>1, <2>3, <2>6, <2>7 DEF Fresh
    <3>3. QED
      BY <3>1, <3>2 DEF AInv, NewOrAged
  <2>11. QED
    BY <1>t, <2>8, <2>9, <2>10 DEF AInv
<1>7. ASSUME NEW r \in Requests, SaveInsert(r)
      PROVE  AInv'
  <2> DEFINE e == req[r].session
  <2>1. req[r] \in Busy /\ req[r] # Idle /\ Saving(r) /\ e \in Session /\ Ordered(e)
    BY <1>7, <1>t, NotIdle DEF SaveInsert, Saving, AInv, InOrder, Busy
  <2>2. /\ table' = table \cup {e} /\ revoked' = revoked /\ minted' = minted
        /\ FindByToken(e.id) = {}
        /\ req' = [req EXCEPT ![r] = AfterSave(req[r])]
    BY <1>7 DEF SaveInsert, KeyFree, Start
  <2>3. /\ req'[r] = AfterSave(req[r])
        /\ \A p \in Requests \ {r} : req'[p] = req[p]
    BY <2>2, <1>t DEF TypeOK
  <2>4. req'[r] = Idle \/ (req'[r].pc \in {"record", "delete"} /\ req'[r].session = e)
    BY <2>1, <2>3 DEF AfterSave, Busy
  <2>5. e.id \in revoked => Aged(e)
    BY <2>1 DEF AInv, NewOrAged, Fresh
  <2>6. OneRowPerId' /\ OnlyStaleReturn' /\ (revoked \subseteq MintedIds)'
    BY <2>2, <2>5 DEF AInv, OneRowPerId, OnlyStaleReturn, MintedIds, Aged, FindByToken
  <2>7. InOrder'
    BY <2>1, <2>2, <2>3, <2>4 DEF AInv, InOrder, Ordered
  <2>8. NewOrAged'
    <3> SUFFICES ASSUME NEW p \in Requests, Saving(p)'
                 PROVE  /\ Touching(req'[p]) => Aged(req'[p].session)
                        /\ ~ Touching(req'[p]) => Fresh(p)'
      BY DEF NewOrAged, Touching, Aged
    <3>1. p # r /\ req'[p] = req[p] /\ Saving(p)
      BY <2>3, <2>4 DEF Saving
    <3>2. ASSUME ~ Touching(req[p]) PROVE Fresh(p)'
      <4>1. Fresh(p)
        BY <3>1, <3>2 DEF AInv, NewOrAged
      <4>2. e.id # req[p].session.id
        BY <4>1, <3>1, <2>1 DEF Fresh
      <4>3. QED
        BY <4>1, <4>2, <3>1, <2>1, <2>2, <2>3, <2>4 DEF Fresh
    <3>3. QED
      BY <3>1, <3>2 DEF AInv, NewOrAged
  <2>9. QED
    BY <1>t, <2>6, <2>7, <2>8 DEF AInv
<1>8. ASSUME NEW r \in Requests, RecordLogin(r) \/ Logout(r)
      PROVE  AInv'
  <2>1. req[r] # Idle
    BY <1>8, <1>t, NotIdle DEF RecordLogin, Logout
  <2>2. /\ req' = [req EXCEPT ![r] = Idle] /\ minted' = minted
        /\ \/ table' = table /\ revoked' = revoked
           \/ table' = Without(req[r].session.id) /\ revoked' = revoked \cup {req[r].session.id}
    BY <1>8 DEF RecordLogin, Logout, DeleteByToken, Start
  <2>3. QED
    BY <1>t, <2>1, <2>2, GoOn
<1>9. ASSUME NEW r \in Requests, StatementFails(r)
      PROVE  AInv'
  <2>1. req[r] \in Busy /\ req[r] # Idle
    BY <1>9, <1>t, NotIdle DEF StatementFails
  <2>2. PICK q \in {Idle} \cup Busy :
          /\ req' = [req EXCEPT ![r] = q]
          /\ q # Idle => /\ q.session = req[r].session /\ q.op = req[r].op
                         /\ q.pc = "delete"
    <3>1. AfterSave(req[r]) \in {Idle} \cup Busy
      BY <2>1, AfterSaveTyped
    <3>2. (Touching(req[r]) /\ AfterSave(req[r]) # Idle) =>
             /\ AfterSave(req[r]).session = req[r].session
             /\ AfterSave(req[r]).op = req[r].op
             /\ AfterSave(req[r]).pc = "delete"
      BY <2>1 DEF AfterSave, Touching, Busy
    <3>3. QED
      BY <1>9, <3>1, <3>2 DEF StatementFails, Start
  <2>3. QED
    BY <1>9, <1>t, <2>1, <2>2, GoOn DEF StatementFails
<1>10. ASSUME NEW a \in Actors, RevokeActor(a)
       PROVE  AInv'
  <2> DEFINE mine == {s \in table : s.actor = a}
  <2>1. /\ table' = table \ mine /\ revoked' = revoked \cup {s.id : s \in mine}
        /\ req' = req /\ minted' = minted
    BY <1>10 DEF RevokeActor
  <2>2. OneRowPerId' /\ OnlyStaleReturn'
    BY <2>1 DEF AInv, OneRowPerId, OnlyStaleReturn
  <2>3. (revoked \subseteq MintedIds)'
    BY <2>1, <1>t, IdsInUseMinted DEF AInv, MintedIds
  <2>4. InOrder'
    BY <2>1 DEF AInv, InOrder, Ordered
  <2>5. NewOrAged'
    BY <2>1 DEF AInv, NewOrAged, Saving, Fresh, Touching, Aged
  <2>6. QED
    BY <1>t, <2>2, <2>3, <2>4, <2>5 DEF AInv
<1>11. CASE Crash \/ Tick \/ UNCHANGED vars
  <2>1. /\ table' = table /\ revoked' = revoked /\ minted' = minted
        /\ \A q \in Requests : req'[q] = Idle \/ req'[q] = req[q]
    BY <1>11 DEF Crash, Tick, vars
  <2>2. InOrder'
    BY <2>1 DEF AInv, InOrder, Ordered
  <2>3. NewOrAged'
    BY <2>1 DEF AInv, NewOrAged, Saving, Fresh, Touching, Aged
  <2>4. QED
    BY <1>t, <2>1, <2>2, <2>3 DEF AInv, OneRowPerId, OnlyStaleReturn, MintedIds
<1>12. QED
  BY <1>1, <1>2, <1>3, <1>4, <1>5, <1>6, <1>7, <1>8, <1>9, <1>10, <1>11 DEF Next, Step

(* The life a session is given.  A refresh chooses the expiry before the   *)
(* DELETE it awaits and creates the session after it, so that what remains *)
(* of the lifetime it chose is the life of the new session.                *)
LifeOf(s) == s.expiresAt - s.createdAt

LivesAsChosen ==
    \A m \in minted :
        IF m.parent = m.id THEN LifeOf(m) \in Durations
        ELSE 0 < LifeOf(m) /\ LifeOf(m) <= DefaultDuration

ChosenBefore ==
    \A r \in Requests : req[r] \in Rotating => req[r].expiresAt <= now + DefaultDuration

LInv == AInv /\ LivesAsChosen /\ ChosenBefore

LEMMA InitLInv == Init => LInv
BY InitAInv DEF Init, LInv, LivesAsChosen, ChosenBefore, Idle, Rotating

LEMMA StepLives == LInv /\ [Next]_vars => LivesAsChosen'
<1> SUFFICES ASSUME LInv, [Next]_vars PROVE LivesAsChosen'
  OBVIOUS
<1>t. TypeOK /\ CopiesAsMinted /\ RowsAsMinted
  BY DEF LInv, AInv, IInv
<1>1. ASSUME minted' = minted PROVE LivesAsChosen'
  BY <1>1 DEF LInv, LivesAsChosen
<1>2. ASSUME NEW r \in Requests, NEW op, NEW i \in Ids, NEW a, NEW x \in Nat,
             NEW parent, NEW root, Create(r, op, i, a, x, parent, root),
             \/ parent = i /\ x - now \in Durations
             \/ parent # i /\ x - now <= DefaultDuration
      PROVE  LivesAsChosen'
  <2>1. PICK m : /\ m.id = i /\ m.parent = parent /\ m.createdAt = now /\ m.expiresAt = x
                 /\ now < x /\ minted' = minted \cup {m}
    BY <1>2 DEF Create, OriginOf
  <2>2. 0 < LifeOf(m) /\ LifeOf(m) = x - now
    BY <2>1, <1>2, <1>t DEF TypeOK, LifeOf
  <2> QED
    BY <1>2, <2>1, <2>2 DEF LInv, LivesAsChosen
<1>3. ASSUME NEW r \in Requests, NEW a \in Actors, NEW d \in Durations, Login(r, a, d)
      PROVE  LivesAsChosen'
  <2>1. CreateExpirationDate(d) \in Nat /\ CreateExpirationDate(d) - now = d
    BY <1>t, ConstantsAssumption DEF TypeOK, CreateExpirationDate
  <2> QED
    BY <1>2, <1>3, <2>1 DEF Login
<1>4. ASSUME NEW r \in Requests, Rotate(r)
      PROVE  LivesAsChosen'
  <2> DEFINE old == req[r].session
             chosen == req[r].expiresAt
  <2>1. req[r] \in Rotating /\ req[r] # Idle
    BY <1>4, <1>t, RotatingTyped DEF Rotate
  <2>2. chosen \in Nat /\ chosen - now <= DefaultDuration
    BY <2>1, <1>t, ConstantsAssumption DEF LInv, ChosenBefore, Rotating, TypeOK
  <2>3. old.id \in MintedIds
    BY <2>1, <1>t, IdsInUseMinted
  <2>4. CASE \E i \in Ids : Create(r, "refresh", i, old.actor, chosen, old.id, old.root)
    <3>1. PICK i \in Ids : Create(r, "refresh", i, old.actor, chosen, old.id, old.root)
      BY <2>4
    <3>2. old.id # i
      BY <2>3, <3>1 DEF Create
    <3> HIDE DEF old, chosen
    <3> QED
      BY <1>2, <2>2, <3>1, <3>2
  <2> QED
    BY <1>1, <1>4, <2>4 DEF Rotate
<1> QED
  BY <1>1, <1>3, <1>4
  DEF Next, Step, vars, Authenticate, Refresh, SaveSelect, SaveUpdate, SaveInsert,
      RecordLogin, Logout, StatementFails, RevokeActor, Crash, Tick

LEMMA StepChosen == LInv /\ [Next]_vars => ChosenBefore'
<1> SUFFICES ASSUME LInv, [Next]_vars, NEW r \in Requests, req'[r] \in Rotating
             PROVE  req'[r].expiresAt <= now' + DefaultDuration
  BY DEF ChosenBefore
<1>t. TypeOK
  BY DEF LInv, AInv, IInv
<1>0. now' = now \/ now' = now + 1
  BY DEF Next, Step, vars, Login, Authenticate, Refresh, Rotate, SaveSelect, SaveUpdate,
      SaveInsert, RecordLogin, Logout, StatementFails, RevokeActor, Crash, Tick
<1>1. now' \in Nat /\ now \in Nat /\ now <= now' /\ DefaultDuration \in Nat
  BY <1>0, <1>t, ConstantsAssumption DEF TypeOK
<1>2. CASE req'[r] = req[r]
  <2>1. req[r].expiresAt \in Nat /\ req[r].expiresAt <= now + DefaultDuration
    BY <1>2 DEF LInv, ChosenBefore, Rotating
  <2> QED
    BY <1>1, <1>2, <2>1
<1>3. CASE \E i \in issued : Refresh(r, i)
  BY <1>1, <1>3, <1>t DEF Refresh, Start, TypeOK, CreateExpirationDate
<1>4. req'[r] = req[r] \/ req'[r].pc # "rotate" \/ \E i \in issued : Refresh(r, i)
  <2>1. ASSUME NEW p \in Requests, Step(p)
        PROVE  req'[r] = req[r] \/ req'[r].pc # "rotate" \/ \E i \in issued : Refresh(r, i)
    <3>1. CASE p # r
      BY <2>1, <3>1, <1>t
      DEF Step, Login, Create, Authenticate, Refresh, Rotate, SaveSelect, SaveUpdate, SaveInsert,
          RecordLogin, Logout, StatementFails, Start, Goto, TypeOK
    <3>2. CASE p = r
      <4>1. CASE SaveUpdate(p) \/ SaveInsert(p) \/ StatementFails(p)
        <5>1. req[p] \in Busy
          BY <4>1, <1>t, NotIdle DEF SaveUpdate, SaveInsert, StatementFails
        <5>2. AfterSave(req[p]) = Idle \/ AfterSave(req[p]).pc \in {"record", "delete"}
          BY <5>1 DEF AfterSave, Busy, Serving, Rotating
        <5>3. req' = [req EXCEPT ![p] = AfterSave(req[p])] \/ req' = [req EXCEPT ![p] = Idle]
          BY <4>1 DEF SaveUpdate, SaveInsert, StatementFails, Start
        <5>4. req'[p] = AfterSave(req[p]) \/ req'[p] = Idle
          BY <5>3, <1>t DEF TypeOK
        <5> QED
          BY <3>2, <5>2, <5>4 DEF Idle
      <4>2. CASE SaveSelect(p)
        <5>1. req[p] \in Serving
          BY <4>2, <1>t, NotIdle DEF SaveSelect, Pcs
        <5> QED
          BY <3>2, <4>2, <5>1, <1>t DEF SaveSelect, Goto, TypeOK, Serving
      <4>3. CASE \/ \E a \in Actors, d \in Durations : Login(p, a, d)
                 \/ \E op \in {"visit", "logout"}, i \in issued : Authenticate(p, op, i)
                 \/ Rotate(p) \/ RecordLogin(p) \/ Logout(p)
        <5>1. \/ req' = [req EXCEPT ![p] = Idle]
              \/ \E op, s : req' = [req EXCEPT ![p] = [pc |-> "select", op |-> op, session |-> s]]
              \/ \E op, s : req' = [req EXCEPT ![p] = [pc |-> "delete", op |-> op, session |-> s]]
          <6>1. ASSUME NEW op, NEW i, NEW a, NEW x, NEW parent, NEW root,
                       Create(p, op, i, a, x, parent, root)
                PROVE  \E s : req' = [req EXCEPT ![p] =
                                        [pc |-> "select", op |-> op, session |-> s]]
            BY <6>1 DEF Create, Start
          <6>2. CASE \/ \E a \in Actors, d \in Durations : Login(p, a, d)
                     \/ Rotate(p)
            BY <6>1, <6>2 DEF Login, Rotate, Start
          <6>3. CASE \/ \E op \in {"visit", "logout"}, i \in issued : Authenticate(p, op, i)
                     \/ RecordLogin(p) \/ Logout(p)
            BY <6>3 DEF Authenticate, RecordLogin, Logout, Start
          <6> QED
            BY <4>3, <6>2, <6>3
        <5>2. req'[p].pc \in {"idle", "select", "delete"}
          BY <5>1, <1>t DEF TypeOK, Idle
        <5> QED
          BY <3>2, <5>2
      <4> QED
        BY <2>1, <3>2, <4>1, <4>2, <4>3 DEF Step
    <3> QED
      BY <3>1, <3>2
  <2>2. CASE (\E a \in Actors : RevokeActor(a)) \/ Crash \/ Tick \/ UNCHANGED vars
    BY <2>2 DEF RevokeActor, Crash, Tick, vars, Idle
  <2> QED
    BY <2>1, <2>2 DEF Next
<1> QED
  BY <1>2, <1>3, <1>4 DEF Rotating

(* What logout, rotation and reset delete comes back only if it had gone   *)
(* stale before, whatever the interleaving and for every lifetime and      *)
(* interval: the bookkeeping write of authentication is the one cause.     *)
THEOREM OnlyStaleSessionsReturn == Spec => []OnlyStaleReturn
<1>1. AInv => OnlyStaleReturn
  BY DEF AInv
<1>2. QED
  BY <1>1, InitAInv, StepAInv, PTL DEF Spec

(* However often a session is touched, and whichever stale copy is written *)
(* back, the life of its row stays what it was when the session was        *)
(* created, and its last access lies within it (session.entity.ts:         *)
(* isExpired, touch): after a login the lifetime that was chosen; after a  *)
(* refresh, which chooses before the DELETE it awaits                      *)
(* (refresh-session.use-case.ts:82-95), what is left of the default, which *)
(* may be less but never nothing.  Expiry does not slide, and a session    *)
(* that returns does so only for the rest of its own life.                 *)
KeepsItsLife(s) ==
    /\ IF s.parent = s.id THEN LifeOf(s) \in Durations
       ELSE 0 < LifeOf(s) /\ LifeOf(s) <= DefaultDuration
    /\ s.createdAt <= s.lastAccessedAt /\ s.lastAccessedAt < s.expiresAt

THEOREM LivesAreKept == Spec => [](\A s \in table : KeepsItsLife(s))
<1>1. LInv => \A s \in table : KeepsItsLife(s)
  <2> SUFFICES ASSUME LInv, NEW s \in table
               PROVE  KeepsItsLife(s)
    OBVIOUS
  <2>1. OriginOf(s) \in minted
    BY DEF LInv, AInv, IInv, RowsAsMinted
  <2>2. /\ OriginOf(s).id = s.id /\ OriginOf(s).parent = s.parent
        /\ LifeOf(OriginOf(s)) = LifeOf(s)
    BY DEF OriginOf, LifeOf
  <2> QED
    BY <2>1, <2>2 DEF LInv, LivesAsChosen, AInv, InOrder, Ordered, KeepsItsLife
<1>2. LInv /\ [Next]_vars => LInv'
  BY StepAInv, StepLives, StepChosen DEF LInv
<1> QED
  BY <1>1, <1>2, InitLInv, PTL DEF Spec

-----------------------------------------------------------------------------
(* A spent token stays spent.  Whatever a step takes up is in the table or *)
(* in a request already, and what it mints descends from what a request    *)
(* holds.                                                                  *)
LEMMA SpentStep ==
    ASSUME AInv, [Next]_vars, NEW i \in Ids, Spent(i)
    PROVE  Spent(i)' /\ SuccessorsOf(i)' = SuccessorsOf(i)
<1> DEFINE Kept == /\ \A s \in table' : s.id # i
                   /\ \A p \in Requests : ~ Holds(req'[p], i)
                   /\ \A m \in minted' \ minted : m.parent = i => m.id = i
<1>a. /\ i \in revoked /\ i \in MintedIds
      /\ \A s \in table : s.id # i
      /\ \A p \in Requests : ~ Holds(req[p], i)
  BY DEF Spent, AInv
<1>t. TypeOK
  BY DEF AInv, IInv
<1>0. ASSUME NEW r \in Requests, NEW op, NEW j, NEW a, NEW x, NEW parent, NEW root,
             Create(r, op, j, a, x, parent, root), parent = j \/ parent # i
      PROVE  /\ \A p \in Requests : ~ Holds(req'[p], i)
             /\ \A m \in minted' \ minted : m.parent = i => m.id = i
  <2> DEFINE s == [id |-> j, actor |-> a, createdAt |-> now, expiresAt |-> x,
                   lastAccessedAt |-> now, parent |-> parent, root |-> root]
  <2>1. /\ j # i /\ minted' = minted \cup {OriginOf(s)}
        /\ req' = [req EXCEPT ![r] = [pc |-> "select", op |-> op, session |-> s]]
    BY <1>0, <1>a DEF Create, Start
  <2>2. s.id = j /\ OriginOf(s).id = j /\ OriginOf(s).parent = parent
    BY DEF OriginOf
  <2> HIDE DEF s
  <2> QED
    BY <1>0, <1>a, <1>t, <2>1, <2>2 DEF Holds, TypeOK
<1>1. ASSUME NEW r \in Requests, NEW a \in Actors, NEW d \in Durations, Login(r, a, d)
      PROVE  Kept
  BY <1>0, <1>1, <1>a DEF Login
<1>2. ASSUME NEW r \in Requests, NEW op \in {"visit", "logout"}, NEW j \in issued,
             Authenticate(r, op, j) \/ Refresh(r, j)
      PROVE  Kept
  <2>1. PICK s \in table :
           \/ req' = [req EXCEPT ![r] = [pc |-> "select", op |-> op, session |-> Touched(s)]]
           \/ req' = [req EXCEPT ![r] = [pc |-> "delete", op |-> op, session |-> s]]
           \/ req' = [req EXCEPT ![r] = [pc |-> "rotate", op |-> "refresh", session |-> s,
                                         expiresAt |-> CreateExpirationDate(DefaultDuration)]]
    BY <1>2 DEF Authenticate, Refresh, Start, FindByToken
  <2>2. s.id # i /\ Touched(s).id # i
    BY <1>a, <1>t DEF TypeOK, Session, Touched
  <2>3. table' = table /\ minted' = minted
    BY <1>2 DEF Authenticate, Refresh
  <2> QED
    BY <1>a, <1>t, <2>1, <2>2, <2>3 DEF Holds, TypeOK
<1>3. ASSUME NEW r \in Requests, Rotate(r)
      PROVE  Kept
  <2> DEFINE old == req[r].session
             chosen == req[r].expiresAt
  <2>1. old.id # i
    BY <1>3, <1>a, <1>t, NotIdle DEF Rotate, Holds
  <2>2. /\ table' \subseteq table
        /\ \/ \E j \in Ids : Create(r, "refresh", j, old.actor, chosen, old.id, old.root)
           \/ req' = [req EXCEPT ![r] = Idle] /\ minted' = minted
    BY <1>3 DEF Rotate, Start, DeleteByToken, Without
  <2> HIDE DEF old, chosen
  <2>3. CASE \E j \in Ids : Create(r, "refresh", j, old.actor, chosen, old.id, old.root)
    BY <1>0, <1>a, <2>1, <2>2, <2>3
  <2>4. CASE req' = [req EXCEPT ![r] = Idle] /\ minted' = minted
    BY <1>a, <1>t, <2>2, <2>4 DEF Holds, TypeOK
  <2> QED
    BY <2>2, <2>3, <2>4
<1>4. ASSUME NEW r \in Requests,
             SaveSelect(r) \/ SaveUpdate(r) \/ SaveInsert(r) \/ RecordLogin(r)
               \/ Logout(r) \/ StatementFails(r)
      PROVE  Kept
  <2>1. req[r] \in Busy /\ minted' = minted
    BY <1>4, <1>t, NotIdle
    DEF SaveSelect, SaveUpdate, SaveInsert, RecordLogin, Logout, StatementFails
  <2>2. \A p \in Requests \ {r} : req'[p] = req[p]
    BY <1>4, <1>t
    DEF SaveSelect, SaveUpdate, SaveInsert, RecordLogin, Logout, StatementFails,
        Start, Goto, TypeOK
  <2>3. req'[r] = Idle \/ req'[r].pc = "delete" \/
          (req[r] # Idle /\ req[r].pc # "delete" /\ req'[r].session = req[r].session)
    <3>1. AfterSave(req[r]) = Idle \/ AfterSave(req[r]).pc = "delete" \/
            AfterSave(req[r]).session = req[r].session
      BY <2>1 DEF AfterSave, Busy, Serving, Rotating
    <3>2. CASE SaveSelect(r)
      BY <3>2, <1>t, <2>1, NotIdle DEF SaveSelect, Goto, TypeOK, Busy, Serving, Rotating
    <3>3. CASE SaveUpdate(r) \/ SaveInsert(r)
      BY <3>1, <3>3, <1>t, NotIdle DEF SaveUpdate, SaveInsert, Start, TypeOK
    <3>4. CASE RecordLogin(r) \/ Logout(r)
      BY <3>4, <1>t DEF RecordLogin, Logout, Start, TypeOK
    <3>5. CASE StatementFails(r)
      BY <3>1, <3>5, <1>t, NotIdle DEF StatementFails, Start, TypeOK
    <3>6. QED
      BY <1>4, <3>2, <3>3, <3>4, <3>5
  <2>4. \A p \in Requests : ~ Holds(req'[p], i)
    BY <1>a, <2>2, <2>3 DEF Holds
  <2>5. \A s \in table' : s.id # i
    <3>1. CASE SaveInsert(r)
      BY <3>1, <1>a, <1>t, NotIdle DEF SaveInsert, Holds
    <3>2. CASE SaveUpdate(r)
      BY <3>2, <1>a, <1>t DEF SaveUpdate, TypeOK, Session
    <3>3. QED
      BY <1>4, <1>a, <3>1, <3>2
      DEF SaveSelect, RecordLogin, Logout, StatementFails, DeleteByToken, Without
  <2> QED
    BY <2>1, <2>4, <2>5
<1>5. ASSUME (\E a \in Actors : RevokeActor(a)) \/ Crash \/ Tick \/ UNCHANGED vars
      PROVE  Kept
  BY <1>5, <1>a DEF RevokeActor, Crash, Tick, vars, Holds
<1>6. Kept
  BY <1>1, <1>2, <1>3, <1>4, <1>5 DEF Next, Step
<1>7. i \in revoked' /\ minted \subseteq minted'
  BY <1>a
  DEF Next, Step, vars, Login, Create, Authenticate, Refresh, Rotate, SaveSelect, SaveUpdate,
      SaveInsert, RecordLogin, Logout, StatementFails, RevokeActor, Crash, Tick, DeleteByToken
<1>8. Spent(i)'
  BY <1>6, <1>7 DEF Spent, Holds
<1>9. SuccessorsOf(i)' = SuccessorsOf(i)
  BY <1>6, <1>7 DEF SuccessorsOf
<1> QED
  BY <1>8, <1>9

(* From a token that was revoked, that has no row and that no request in   *)
(* flight has read, nothing is ever derived again.                         *)
THEOREM SpentIsFinal == Spec => SpentStaysSpent
<1>1. AInv /\ [Next]_vars =>
         [\A i \in Ids :
             Spent(i) => Spent(i)' /\ SuccessorsOf(i)' = SuccessorsOf(i)]_vars
  BY SpentStep
<1>2. QED
  BY <1>1, InitAInv, StepAInv, PTL DEF Spec, SpentStaysSpent

-----------------------------------------------------------------------------
(***************************************************************************)
(* Sessions implements SessionStore.  What is missing for it is where the  *)
(* copies come from: what a request deletes, rotates or touches has a row, *)
(* or a deletion has ended it since the request read it; and a session     *)
(* that is about to be stored for the first time is as it was created.     *)
(***************************************************************************)
EverStored == revoked \cup {s.id : s \in table}

Creating(r) == Saving(r) /\ ~ Touching(req[r])

CopiesOfRows ==
    \A r \in Requests :
        (req[r] # Idle /\ ~ Creating(r)) => req[r].session.id \in EverStored

NewUnaccessed ==
    \A r \in Requests :
        Creating(r) => req[r].session.lastAccessedAt = req[r].session.createdAt

MInv == AInv /\ CopiesOfRows /\ NewUnaccessed

LEMMA InitMInv == Init => MInv
BY InitAInv DEF Init, MInv, CopiesOfRows, NewUnaccessed, Creating, Saving

(* What has been stored stays stored until it is ended. *)
LEMMA EverStoredGrows ==
    ASSUME TypeOK, [Next]_vars
    PROVE  EverStored \subseteq EverStored'
<1>1. CASE table' = table /\ revoked' = revoked
  BY <1>1 DEF EverStored
<1>2. ASSUME NEW j, DeleteByToken(j) PROVE EverStored \subseteq EverStored'
  BY <1>2 DEF DeleteByToken, Without, EverStored
<1>3. ASSUME NEW r \in Requests, SaveUpdate(r) PROVE EverStored \subseteq EverStored'
  <2> DEFINE e == req[r].session
             upd(s) == IF s.id = e.id
                         THEN [s EXCEPT !.expiresAt = e.expiresAt,
                                        !.lastAccessedAt = e.lastAccessedAt]
                         ELSE s
  <2>1. table' = {upd(s) : s \in table} /\ revoked' = revoked
    BY <1>3 DEF SaveUpdate
  <2>2. \A s \in table : upd(s).id = s.id
    BY DEF TypeOK, Session
  <2> HIDE DEF upd
  <2> QED
    BY <2>1, <2>2 DEF EverStored
<1>4. ASSUME NEW r \in Requests, SaveInsert(r) PROVE EverStored \subseteq EverStored'
  BY <1>4 DEF SaveInsert, EverStored
<1>5. ASSUME NEW a \in Actors, RevokeActor(a) PROVE EverStored \subseteq EverStored'
  BY <1>5 DEF RevokeActor, EverStored
<1> QED
  BY <1>1, <1>2, <1>3, <1>4, <1>5
  DEF Next, Step, vars, Login, Authenticate, Refresh, Rotate, SaveSelect, RecordLogin,
      Logout, StatementFails, Crash, Tick

(* A step of request r, of which it is enough to say what became of r.     *)
LEMMA OneMoves ==
    ASSUME MInv, AInv', [Next]_vars, NEW r \in Requests, NEW q,
           req' = [req EXCEPT ![r] = q],
           (q # Idle /\ ~ Creating(r)') => q.session.id \in EverStored',
           Creating(r)' => q.session.lastAccessedAt = q.session.createdAt
    PROVE  MInv'
<1>t. TypeOK
  BY DEF MInv, AInv, IInv
<1>1. req'[r] = q /\ \A p \in Requests \ {r} : req'[p] = req[p]
  BY <1>t DEF TypeOK
<1>2. \A p \in Requests \ {r} : Creating(p)' <=> Creating(p)
  BY <1>1 DEF Creating, Saving, Touching
<1>3. CopiesOfRows'
  <2>1. ASSUME NEW p \in Requests, req'[p] # Idle, ~ Creating(p)'
        PROVE  req'[p].session.id \in EverStored'
    <3>1. CASE p = r
      BY <1>1, <2>1, <3>1
    <3>2. CASE p # r
      BY <1>1, <1>2, <1>t, <2>1, <3>2, EverStoredGrows DEF MInv, CopiesOfRows
    <3> QED
      BY <3>1, <3>2
  <2> QED
    BY <2>1 DEF CopiesOfRows
<1>4. NewUnaccessed'
  BY <1>1, <1>2 DEF MInv, NewUnaccessed
<1> QED
  BY <1>3, <1>4 DEF MInv

LEMMA StepMInv == MInv /\ [Next]_vars => MInv'
<1> SUFFICES ASSUME MInv, [Next]_vars PROVE MInv'
  OBVIOUS
<1>t. TypeOK /\ AInv' /\ TypeOK'
  BY StepAInv DEF MInv, AInv, IInv
<1>1. ASSUME NEW r \in Requests, NEW op \in {"login", "refresh"}, NEW i \in Ids,
             NEW a \in Actors, NEW x \in Nat, NEW parent \in Ids, NEW root \in Ids,
             Create(r, op, i, a, x, parent, root)
      PROVE  MInv'
  <2> DEFINE s == [id |-> i, actor |-> a, createdAt |-> now, expiresAt |-> x,
                   lastAccessedAt |-> now, parent |-> parent, root |-> root]
  <2>0. s \in Session
    BY <1>t DEF TypeOK, Session
  <2>1. /\ s.lastAccessedAt = s.createdAt
        /\ req' = [req EXCEPT ![r] = [pc |-> "select", op |-> op, session |-> s]]
    BY <1>1 DEF Create, Start
  <2> HIDE DEF s
  <2> DEFINE q == [pc |-> "select", op |-> op, session |-> s]
  <2>2. req'[r] = q /\ Creating(r)'
    BY <2>1, <1>t DEF Creating, Saving, Touching, Idle, TypeOK
  <2>3. q.session = s /\ req' = [req EXCEPT ![r] = q]
    BY <2>1
  <2> HIDE DEF q
  <2> QED
    BY <2>0, <2>1, <2>2, <2>3, <1>t, OneMoves
<1>2. ASSUME NEW r \in Requests, NEW a \in Actors, NEW d \in Durations, Login(r, a, d)
      PROVE  MInv'
  BY <1>1, <1>2, <1>t, ChosenTyped DEF Login
<1>3. ASSUME NEW r \in Requests, NEW op \in {"visit", "logout"}, NEW i \in issued,
             Authenticate(r, op, i) \/ Refresh(r, i)
      PROVE  MInv'
  <2>1. PICK s \in table, q \in Busy :
          /\ req' = [req EXCEPT ![r] = q] /\ q.session.id = s.id
          /\ q.op \in {"visit", "logout"} \/ q.pc = "rotate"
          /\ table' = table
    <3>1. PICK s \in table :
             \/ req' = [req EXCEPT ![r] = [pc |-> "select", op |-> op, session |-> Touched(s)]]
             \/ req' = [req EXCEPT ![r] = [pc |-> "delete", op |-> op, session |-> s]]
             \/ req' = [req EXCEPT ![r] = [pc |-> "rotate", op |-> "refresh", session |-> s,
                                           expiresAt |-> CreateExpirationDate(DefaultDuration)]]
      BY <1>3 DEF Authenticate, Refresh, Start, FindByToken
    <3>2. s \in Session /\ Touched(s) \in Session /\ Touched(s).id = s.id
      BY <1>t DEF TypeOK, Session, Touched
    <3>3. /\ [pc |-> "select", op |-> op, session |-> Touched(s)] \in Busy
          /\ [pc |-> "delete", op |-> op, session |-> s] \in Busy
          /\ [pc |-> "rotate", op |-> "refresh", session |-> s,
               expiresAt |-> CreateExpirationDate(DefaultDuration)] \in Busy
      BY <3>2, <1>t, ChosenTyped, ConstantsAssumption DEF Busy, Serving, Rotating, Pcs, Ops
    <3>4. table' = table
      BY <1>3 DEF Authenticate, Refresh
    <3> QED
      BY <3>1, <3>2, <3>3, <3>4
  <2>2. q.session.id \in EverStored'
    BY <2>1 DEF EverStored
  <2>3. ~ Creating(r)'
    BY <2>1, <1>t DEF Creating, Saving, Touching, TypeOK
  <2> QED
    BY <2>1, <2>2, <2>3, <1>t, OneMoves
<1>4. ASSUME NEW r \in Requests, Rotate(r)
      PROVE  MInv'
  <2> DEFINE old == req[r].session
             chosen == req[r].expiresAt
  <2>1. req[r] \in Rotating
    BY <1>4, <1>t, RotatingTyped DEF Rotate
  <2>2. old.actor \in Actors /\ old.id \in Ids /\ old.root \in Ids /\ chosen \in Nat
    BY <2>1 DEF Rotating, Session
  <2>3. \/ \E i \in Ids : Create(r, "refresh", i, old.actor, chosen, old.id, old.root)
        \/ req' = [req EXCEPT ![r] = Idle]
    BY <1>4 DEF Rotate, Start
  <2> HIDE DEF old, chosen
  <2>4. CASE \E i \in Ids : Create(r, "refresh", i, old.actor, chosen, old.id, old.root)
    BY <1>1, <2>2, <2>4
  <2>5. CASE req' = [req EXCEPT ![r] = Idle]
    <3>1. ~ Creating(r)'
      BY <2>5, <1>t DEF Creating, Saving, TypeOK
    <3> QED
      BY <2>5, <3>1, <1>t, OneMoves
  <2> QED
    BY <2>3, <2>4, <2>5
<1>5. ASSUME NEW r \in Requests, SaveSelect(r)
      PROVE  MInv'
  <2>1. req[r] \in Serving /\ req[r] # Idle /\ Saving(r)
    BY <1>5, <1>t, NotIdle DEF SaveSelect, Saving, Pcs
  <2>2. PICK pc \in {"update", "insert"} : req' = [req EXCEPT ![r].pc = pc]
    BY <1>5 DEF SaveSelect, Goto
  <2> DEFINE q == [req[r] EXCEPT !.pc = pc]
  <2>3. /\ req' = [req EXCEPT ![r] = q] /\ q.session = req[r].session
        /\ q.op = req[r].op /\ q.pc = pc /\ q # Idle
    BY <2>1, <2>2 DEF Serving, Idle
  <2> HIDE DEF q
  <2>4. req'[r] = q
    BY <2>3, <1>t DEF TypeOK
  <2>5. Creating(r)' <=> Creating(r)
    BY <2>1, <2>3, <2>4 DEF Creating, Saving, Touching
  <2>6. table' = table /\ revoked' = revoked
    BY <1>5 DEF SaveSelect
  <2> QED
    BY <1>t, <2>1, <2>3, <2>5, <2>6, OneMoves
    DEF MInv, CopiesOfRows, NewUnaccessed, EverStored
<1>6. ASSUME NEW r \in Requests, SaveUpdate(r) \/ SaveInsert(r)
      PROVE  MInv'
  <2> DEFINE q == AfterSave(req[r])
  <2>1. req[r] \in Busy /\ req[r] # Idle /\ Saving(r)
    BY <1>6, <1>t, NotIdle DEF SaveUpdate, SaveInsert, Saving
  <2>2. /\ req' = [req EXCEPT ![r] = q]
        /\ q = Idle \/ (q.pc \in {"record", "delete"} /\ q.session = req[r].session)
    <3>1. q = Idle \/ (q.pc \in {"record", "delete"} /\ q.session = req[r].session)
      BY <2>1 DEF AfterSave, Busy, Serving, Rotating
    <3> QED
      BY <1>6, <3>1 DEF SaveUpdate, SaveInsert, Start
  <2> HIDE DEF q
  <2>3. ~ Creating(r)'
    BY <2>2, <1>t DEF Creating, Saving, TypeOK
  <2>4. req[r].session.id \in EverStored'
    <3>1. CASE SaveUpdate(r)
      <4>1. Touching(req[r])
        BY <2>1, <3>1 DEF SaveUpdate, MInv, AInv, NewOrAged, Fresh
      <4>2. req[r].session.id \in EverStored
        BY <2>1, <4>1 DEF MInv, CopiesOfRows, Creating
      <4> QED
        BY <4>2, <1>t, EverStoredGrows
    <3>2. CASE SaveInsert(r)
      BY <3>2 DEF SaveInsert, EverStored
    <3> QED
      BY <1>6, <3>1, <3>2
  <2> QED
    BY <1>t, <2>2, <2>3, <2>4, OneMoves
<1>7. ASSUME NEW r \in Requests, RecordLogin(r) \/ Logout(r) \/ StatementFails(r)
      PROVE  MInv'
  <2>1. req[r] \in Busy /\ req[r] # Idle
    BY <1>7, <1>t, NotIdle DEF RecordLogin, Logout, StatementFails
  <2>2. CASE req' = [req EXCEPT ![r] = Idle]
    <3>1. ~ Creating(r)'
      BY <2>2, <1>t DEF Creating, Saving, TypeOK
    <3> QED
      BY <2>2, <3>1, <1>t, OneMoves
  <2>3. CASE StatementFails(r) /\ Touching(req[r]) /\ Start(r, AfterSave(req[r]))
    <3> DEFINE q == AfterSave(req[r])
    <3>1. q = Idle \/ (q.pc = "delete" /\ q.session = req[r].session)
      BY <2>1, <2>3 DEF AfterSave, Touching, Busy
    <3>2. req' = [req EXCEPT ![r] = q]
      BY <2>3 DEF Start
    <3> HIDE DEF q
    <3>3. ~ Creating(r)'
      BY <3>1, <3>2, <1>t DEF Creating, Saving, TypeOK
    <3>4. req[r].session.id \in EverStored
      BY <2>1, <2>3 DEF MInv, CopiesOfRows, Creating
    <3>5. req[r].session.id \in EverStored'
      BY <2>3, <3>4 DEF StatementFails, EverStored
    <3> QED
      BY <1>t, <3>1, <3>2, <3>3, <3>5, OneMoves
  <2> QED
    BY <1>7, <2>2, <2>3 DEF RecordLogin, Logout, StatementFails, Start
<1>8. CASE (\E a \in Actors : RevokeActor(a)) \/ Crash \/ Tick \/ UNCHANGED vars
  <2>1. \A r \in Requests : req'[r] = Idle \/ req'[r] = req[r]
    BY <1>8 DEF RevokeActor, Crash, Tick, vars
  <2>2. \A r \in Requests : req'[r] # Idle => (Creating(r)' <=> Creating(r))
    BY <2>1 DEF Creating, Saving, Touching
  <2>3. ASSUME NEW r \in Requests, req'[r] # Idle, ~ Creating(r)'
        PROVE  req'[r].session.id \in EverStored'
    <3>1. req[r].session.id \in EverStored
      BY <2>1, <2>2, <2>3 DEF MInv, CopiesOfRows
    <3> QED
      BY <2>1, <2>3, <3>1, <1>t, EverStoredGrows
  <2>4. CopiesOfRows'
    BY <2>3 DEF CopiesOfRows
  <2>5. NewUnaccessed'
    BY <2>1, <2>2 DEF MInv, NewUnaccessed, Creating, Saving
  <2> QED
    BY <1>t, <2>4, <2>5 DEF MInv
<1> QED
  BY <1>2, <1>3, <1>4, <1>5, <1>6, <1>7, <1>8 DEF Next, Step

THEOREM CopiesAreOfRows == Spec => []MInv
BY InitMInv, StepMInv, PTL DEF Spec

-----------------------------------------------------------------------------
(* The step of the store that each statement is.                           *)
Past == {m \in minted : m.id \in revoked}

LEMMA SameOrigin == \A s : Store!OriginOf(s) = OriginOf(s)
BY DEF Store!OriginOf, OriginOf

(* A new session is minted, and nothing of the past changes. *)
LEMMA MintingIsNoPast ==
    ASSUME MInv, NEW m, m.id \notin MintedIds, minted' = minted \cup {m},
           NEW i, i \in MintedIds, revoked' \in {revoked, revoked \cup {i}}
    PROVE  Past' = {n \in minted : n.id \in revoked'}
BY DEF MInv, AInv, Past, MintedIds

(* The DELETE of what a request holds ends its row, or finds none.         *)
LEMMA DeleteEnds ==
    ASSUME MInv, NEW i \in EverStored, table' = Without(i), revoked' = revoked \cup {i},
           Past' = {m \in minted : m.id \in revoked'}
    PROVE  [Store!Next]_(Store!vars)
<1>t. RowsAsMinted /\ MintedOnce /\ OneRowPerId
  BY DEF MInv, AInv, IInv
<1>1. CASE \E s \in table : s.id = i
  <2>1. PICK s \in table : s.id = i
    BY <1>1
  <2>2. table' = table \ {s}
    BY <2>1, <1>t DEF Without, OneRowPerId
  <2>3. OriginOf(s) \in minted /\ OriginOf(s).id = i
    BY <2>1, <1>t DEF RowsAsMinted, OriginOf
  <2>4. Past' = Past \cup {OriginOf(s)}
    BY <2>3, <1>t DEF Past, MintedOnce
  <2>5. Store!End({s})
    BY <2>2, <2>4, SameOrigin DEF Store!End, Past
  <2> QED
    BY <2>1, <2>5 DEF Store!Next
<1>2. CASE ~ \E s \in table : s.id = i
  <2>1. table' = table /\ Past' = Past
    BY <1>2 DEF EverStored, Without, Past
  <2> QED
    BY <2>1 DEF Store!vars, Past
<1> QED
  BY <1>1, <1>2

(* The UPDATE of a touch renews the row, or finds none.                    *)
LEMMA UpdateTouches ==
    ASSUME MInv, NEW r \in Requests, SaveUpdate(r)
    PROVE  [Store!Next]_(Store!vars)
<1> DEFINE e == req[r].session
           upd(s) == IF s.id = e.id
                       THEN [s EXCEPT !.expiresAt = e.expiresAt,
                                      !.lastAccessedAt = e.lastAccessedAt]
                       ELSE s
<1>t. TypeOK /\ RowsAsMinted /\ CopiesAsMinted /\ MintedOnce /\ OneRowPerId
  BY DEF MInv, AInv, IInv
<1>1. req[r] \in Busy /\ req[r] # Idle /\ Saving(r)
  BY <1>t, NotIdle DEF SaveUpdate, Saving
<1>2. Aged(e) /\ e \in Session /\ OriginOf(e) \in minted
  BY <1>1, <1>t, NotIdle DEF SaveUpdate, MInv, AInv, NewOrAged, Fresh, CopiesAsMinted
<1>3. table' = {upd(s) : s \in table} /\ Past' = Past
  BY DEF SaveUpdate, Past
<1>4. \A s \in table : s.id # e.id => upd(s) = s
  OBVIOUS
<1>5. CASE \E s \in table : s.id = e.id
  <2>1. PICK s \in table : s.id = e.id
    BY <1>5
  <2>2. s \in Session /\ OriginOf(s) = OriginOf(e)
    BY <2>1, <1>2, <1>t DEF TypeOK, RowsAsMinted, MintedOnce, OriginOf
  <2>3. /\ OriginOf(upd(s)) = OriginOf(s)
        /\ upd(s).lastAccessedAt = e.lastAccessedAt /\ upd(s).createdAt = e.createdAt
    BY <2>1, <2>2, <1>2 DEF Session, OriginOf
  <2> HIDE DEF upd
  <2>4. table' = (table \ {s}) \cup {upd(s)}
    BY <2>1, <1>3, <1>4, <1>t DEF OneRowPerId
  <2>5. Store!Touch(s, upd(s))
    BY <2>3, <2>4, <1>2, <1>3, SameOrigin DEF Store!Touch, Store!Aged, Aged, Past
  <2> QED
    BY <2>1, <2>4, <2>5 DEF Store!Next
<1>6. CASE ~ \E s \in table : s.id = e.id
  <2>1. table' = table
    BY <1>3, <1>4, <1>6
  <2> QED
    BY <2>1, <1>3 DEF Store!vars, Past
<1> QED
  BY <1>5, <1>6

(* The INSERT of a new session creates it; that of a touch is the return   *)
(* of a session that was ended.                                            *)
LEMMA InsertCreatesOrReturns ==
    ASSUME MInv, NEW r \in Requests, SaveInsert(r)
    PROVE  [Store!Next]_(Store!vars)
<1> DEFINE e == req[r].session
<1>t. TypeOK /\ CopiesAsMinted /\ Lineage
  BY DEF MInv, AInv, IInv
<1>1. req[r] \in Busy /\ req[r] # Idle /\ Saving(r) /\ OriginOf(e) \in minted
  BY <1>t, NotIdle DEF SaveInsert, Saving, CopiesAsMinted
<1>2. /\ table' = table \cup {e} /\ Past' = Past
      /\ \A s \in table : s.id # e.id
  BY DEF SaveInsert, KeyFree, FindByToken, Past
<1>3. OriginOf(e).id = e.id /\ OriginOf(e).actor = e.actor
      /\ OriginOf(e).parent = e.parent /\ OriginOf(e).root = e.root
  BY DEF OriginOf
<1>4. ~ Store!IsStored(e.id)
  BY <1>2 DEF Store!IsStored
<1>5. CASE Touching(req[r])
  <2>1. Aged(e)
    BY <1>1, <1>5 DEF MInv, AInv, NewOrAged
  <2>2. e.id \in revoked
    BY <1>1, <1>2, <1>5 DEF MInv, CopiesOfRows, Creating, EverStored
  <2>3. Store!Return(e)
    BY <1>1, <1>2, <1>3, <1>4, <2>1, <2>2, SameOrigin DEF Store!Return, Store!Aged, Aged, Past
  <2> QED
    BY <1>2, <2>3 DEF Store!Next
<1>6. CASE ~ Touching(req[r])
  <2>1. e.id \notin revoked /\ e.lastAccessedAt = e.createdAt
    BY <1>1, <1>6 DEF MInv, AInv, NewOrAged, Fresh, NewUnaccessed, Creating
  <2>2. ~ Store!HasEnded(e.id)
    BY <2>1 DEF Store!HasEnded
  <2>3. Store!Starts(e) \/ Store!Continues(e)
    BY <1>1, <1>3, <1>t DEF Lineage, Store!Starts, Store!Continues
  <2>4. Store!Create(e)
    BY <1>2, <1>4, <2>1, <2>2, <2>3 DEF Store!Create, Past
  <2> QED
    BY <1>2, <2>4 DEF Store!Next
<1> QED
  BY <1>5, <1>6

(* A reset ends all sessions of the actor. *)
LEMMA RevokeEnds ==
    ASSUME MInv, NEW a \in Actors, RevokeActor(a)
    PROVE  Store!Next
<1> DEFINE mine == {s \in table : s.actor = a}
<1>t. RowsAsMinted /\ MintedOnce
  BY DEF MInv, AInv, IInv
<1>1. /\ table' = table \ mine /\ minted' = minted
      /\ revoked' = revoked \cup {s.id : s \in mine}
  BY DEF RevokeActor
<1>2. \A s \in mine : OriginOf(s) \in minted /\ OriginOf(s).id = s.id
  BY <1>t DEF RowsAsMinted, OriginOf
<1>3. Past' = Past \cup {OriginOf(s) : s \in mine}
  BY <1>1, <1>2, <1>t DEF Past, MintedOnce
<1>4. Store!End(mine)
  BY <1>1, <1>3, SameOrigin DEF Store!End, Past
<1> QED
  BY <1>4 DEF Store!Next

LEMMA InitIsStore == Init => Store!Init
BY DEF Init, Store!Init

LEMMA StepIsStore == MInv /\ [Next]_vars => [Store!Next]_(Store!vars)
<1> SUFFICES ASSUME MInv, [Next]_vars PROVE [Store!Next]_(Store!vars)
  OBVIOUS
<1>t. TypeOK /\ AInv
  BY DEF MInv, AInv, IInv
<1>1. ASSUME NEW r \in Requests, NEW a \in Actors, NEW d \in Durations, Login(r, a, d)
      PROVE  UNCHANGED Store!vars
  <2>1. PICK i \in Ids : Create(r, "login", i, a, CreateExpirationDate(d), i, i)
    BY <1>1 DEF Login
  <2>2. PICK m : m.id \notin MintedIds /\ minted' = minted \cup {m}
    BY <2>1 DEF Create, OriginOf
  <2> QED
    BY <1>1, <2>2, <1>t DEF Login, Store!vars, AInv, MintedIds
<1>2. ASSUME NEW r \in Requests, Rotate(r)
      PROVE  [Store!Next]_(Store!vars)
  <2> DEFINE old == req[r].session
             chosen == req[r].expiresAt
  <2>1. req[r] # Idle /\ req[r].pc = "rotate"
    BY <1>2, <1>t, NotIdle DEF Rotate
  <2>2. old.id \in EverStored /\ old.id \in MintedIds
    BY <2>1, IdsInUseMinted DEF MInv, AInv, IInv, CopiesOfRows, Creating, Saving
  <2>3. \/ \E i \in Ids : Create(r, "refresh", i, old.actor, chosen, old.id, old.root)
        \/ minted' = minted
    BY <1>2 DEF Rotate
  <2>4. \/ \E m : m.id \notin MintedIds /\ minted' = minted \cup {m}
        \/ minted' = minted
    BY <2>3 DEF Create, OriginOf
  <2>5. table' = Without(old.id) /\ revoked' = revoked \cup {old.id}
    BY <1>2 DEF Rotate, DeleteByToken
  <2> HIDE DEF old
  <2>6. Past' = {n \in minted : n.id \in revoked'}
    <3>1. CASE minted' = minted
      BY <3>1 DEF Past
    <3>2. CASE \E m : m.id \notin MintedIds /\ minted' = minted \cup {m}
      BY <2>2, <2>5, <3>2, MintingIsNoPast
    <3> QED
      BY <2>4, <3>1, <3>2
  <2> QED
    BY <2>2, <2>5, <2>6, DeleteEnds
<1>3. ASSUME NEW r \in Requests, Logout(r)
      PROVE  [Store!Next]_(Store!vars)
  <2> DEFINE i == req[r].session.id
  <2>1. i \in EverStored
    BY <1>3, <1>t, NotIdle DEF Logout, MInv, CopiesOfRows, Creating, Saving
  <2>2. /\ table' = Without(i) /\ revoked' = revoked \cup {i}
        /\ Past' = {m \in minted : m.id \in revoked'}
    BY <1>3 DEF Logout, DeleteByToken, Past
  <2> HIDE DEF i
  <2> QED
    BY <2>1, <2>2, DeleteEnds
<1>4. ASSUME UNCHANGED <<table, minted, revoked>>
      PROVE  UNCHANGED Store!vars
  BY <1>4 DEF Store!vars
<1> QED
  BY <1>1, <1>2, <1>3, <1>4, UpdateTouches, InsertCreatesOrReturns, RevokeEnds
  DEF Next, Step, vars, Authenticate, Refresh, SaveSelect, RecordLogin, StatementFails,
      Crash, Tick

(* Whatever the two statements of save() and the deletions of other        *)
(* requests do between one another, and whichever of them fail, the table  *)
(* changes as if each were one step of a store (session.repository.ts:     *)
(* 38-61); what a touch brings back is as it was when it was ended.        *)
THEOREM SessionsAreAStore == Spec => OneStepAtATime
BY InitIsStore, StepIsStore, CopiesAreOfRows, PTL DEF Spec, OneStepAtATime, Store!Spec
=============================================================================
