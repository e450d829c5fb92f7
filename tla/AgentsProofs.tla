---------------------------- MODULE AgentsProofs ----------------------------
(***************************************************************************)
(* Theorems about Agents, for every set of users, ids, keys and requests.  *)
(*                                                                         *)
(* A request writes back a copy of the agent it read, so what must hold of *)
(* the rows must hold of the copies, whenever they were taken.             *)
(***************************************************************************)
EXTENDS Agents, TLAPS

\* The key of the agent was made for it, at its own or its owner's request.
Rightful(x) ==
    \E g \in generated : g.key = x.key /\ g.agent = x.id /\ g.by \in {x.owner, x.id}

CopiesRightful == \A r \in Requests : HoldsCopy(r) => Rightful(req[r].agent)

IInv == TypeOK /\ (\A x \in table : Rightful(x)) /\ CopiesRightful /\ LookupIsDeterministic

-----------------------------------------------------------------------------
LEMMA StateTypes ==
    ASSUME TypeOK, NEW r \in Requests
    PROVE  /\ req[r].pc = "read" => req[r] \in Reading
           /\ HoldsCopy(r) => req[r] \in Writing /\ req[r].agent \in Agent
           /\ req[r].pc \in {"created", "rotated", "deactivated"} => req[r] \in Answering
BY DEF TypeOK, HoldsCopy, Idle, Reading, Writing, Answering

(* A fresh key is not one of those made before.                            *)
LEMMA FreshIsNew ==
    ASSUME TypeOK, NEW p \in Prefixes, NEW k \in FreshKeys(p)
    PROVE  k \in Key /\ \A g \in generated : g.key # k
BY DEF TypeOK, FreshKeys, Key

(* A rightful agent stays so when more keys are made.                      *)
LEMMA RightfulGrows ==
    ASSUME NEW x, Rightful(x), generated \subseteq generated'
    PROVE  Rightful(x)'
BY DEF Rightful

-----------------------------------------------------------------------------
(* Steps that leave the table alone and give request r a state without a   *)
(* copy.                                                                   *)
LEMMA WithoutCopyKeepsIInv ==
    ASSUME IInv, NEW r \in Requests, NEW q \in {Idle} \cup Reading \cup Answering,
           Start(r, q), UNCHANGED <<table, generated>>,
           handed' \subseteq Key, refused' \subseteq Ids
    PROVE  IInv'
<1>1. TypeOK'
  BY DEF IInv, TypeOK, Start
<1>2. ASSUME NEW s \in Requests, HoldsCopy(s)'
      PROVE  HoldsCopy(s) /\ req'[s] = req[s]
  BY <1>2 DEF HoldsCopy, Start, IInv, TypeOK, Idle, Reading, Answering
<1>3. CopiesRightful'
  BY <1>2 DEF IInv, CopiesRightful, Rightful
<1>4. LookupIsDeterministic'
  BY DEF IInv, LookupIsDeterministic, FindByApiKeyPrefix, StoredPrefix
<1> QED
  BY <1>1, <1>3, <1>4 DEF IInv, Rightful

(* Steps that put a rightful copy in the memory of request r.              *)
LEMMA CopyKeepsIInv ==
    ASSUME IInv, NEW r \in Requests, NEW q \in Writing, Start(r, q), Rightful(q.agent)',
           UNCHANGED <<table, handed, refused>>,
           generated \subseteq generated',
           generated' \subseteq [key : Key, agent : Ids, by : Actors]
    PROVE  IInv'
<1>1. TypeOK'
  BY DEF IInv, TypeOK, Start
<1>2. ASSUME NEW x \in table'
      PROVE  Rightful(x)'
  BY <1>2, RightfulGrows DEF IInv
<1>3. CopiesRightful'
  <2>1. ASSUME NEW s \in Requests, HoldsCopy(s)'
        PROVE  Rightful(req[s].agent)'
    <3>1. CASE s = r
      <4>1. req'[s] = q
        BY <3>1 DEF Start, IInv, TypeOK
      <4> QED
        BY <4>1 DEF Rightful
    <3>2. CASE s # r
      <4>1. req'[s] = req[s]
        BY <3>2 DEF Start, IInv, TypeOK
      <4>2. HoldsCopy(s)
        BY <2>1, <4>1 DEF HoldsCopy
      <4>3. Rightful(req[s].agent)
        BY <4>2 DEF IInv, CopiesRightful
      <4> QED
        BY <4>1, <4>3 DEF Rightful
    <3> QED
      BY <3>1, <3>2
  <2> QED
    BY <2>1 DEF CopiesRightful
<1>4. LookupIsDeterministic'
  BY DEF IInv, LookupIsDeterministic, FindByApiKeyPrefix, StoredPrefix
<1> QED
  BY <1>1, <1>2, <1>3, <1>4 DEF IInv

LEMMA CreateKeepsIInv ==
    ASSUME IInv, NEW r \in Requests, NEW a \in Actors, NEW p \in Prefixes, Create(r, a, p)
    PROVE  IInv'
<1>1. PICK i \in Ids, k \in FreshKeys(p) :
          /\ Record(k, i, a)
          /\ Start(r, [pc |-> "save", by |-> a,
                       agent |-> [id |-> i, owner |-> a, key |-> k, active |-> TRUE]])
  BY DEF Create
<1>2. k \in Key
  BY FreshIsNew DEF IInv
<1>3. PICK x \in Agent : x = [id |-> i, owner |-> a, key |-> k, active |-> TRUE]
  BY <1>2 DEF Agent
<1>4. PICK q \in Writing : q = [pc |-> "save", by |-> a, agent |-> x]
  BY DEF Writing
<1>5. PICK g \in generated' : g.key = x.key /\ g.agent = x.id /\ g.by = x.owner
  <2>1. [key |-> k, agent |-> i, by |-> a] \in generated'
    BY <1>1 DEF Record
  <2>2. x.key = k /\ x.id = i /\ x.owner = a
    BY <1>3
  <2> QED
    BY <2>1, <2>2
<1>6. Rightful(q.agent)'
  BY <1>4, <1>5 DEF Rightful
<1>7. /\ generated \subseteq generated'
      /\ generated' \subseteq [key : Key, agent : Ids, by : Actors]
  BY <1>1, <1>2 DEF Record, IInv, TypeOK
<1>8. Start(r, q) /\ UNCHANGED <<table, handed, refused>>
  BY <1>1, <1>3, <1>4 DEF Create
<1> QED
  BY <1>6, <1>7, <1>8, CopyKeepsIInv

LEMMA ReadToRotateKeepsIInv ==
    ASSUME IInv, NEW r \in Requests, ReadToRotate(r)
    PROVE  IInv'
<1>1. req[r] \in Reading
  BY StateTypes DEF ReadToRotate, IInv
<1>2. PICK x \in FindById(req[r].id), k \in FreshKeys(Live), a \in Actors :
          /\ a = req[r].by
          /\ MayRotate(x, a)
          /\ Record(k, x.id, a)
          /\ Start(r, [pc |-> "rotate", by |-> a, agent |-> Rotated(x, k)])
  BY <1>1 DEF ReadToRotate, Reading
<1>3. x \in table /\ x \in Agent
  BY <1>2 DEF FindById, IInv, TypeOK
<1>4. k \in Key
  BY <1>2, FreshIsNew, AgentsAssumption DEF IInv
<1>5. PICK y \in Agent :
          y = Rotated(x, k) /\ y.key = k /\ y.id = x.id /\ y.owner = x.owner
  <2>1. /\ Rotated(x, k) \in Agent /\ Rotated(x, k).key = k
        /\ Rotated(x, k).id = x.id /\ Rotated(x, k).owner = x.owner
    BY <1>3, <1>4 DEF Rotated, Agent
  <2> QED
    BY <2>1
<1>6. PICK q \in Writing : q = [pc |-> "rotate", by |-> a, agent |-> y]
  BY DEF Writing
<1>7. PICK g \in generated' : g.key = y.key /\ g.agent = y.id /\ g.by \in {y.owner, y.id}
  <2>1. [key |-> k, agent |-> x.id, by |-> a] \in generated'
    BY <1>2 DEF Record
  <2>2. y.key = k /\ y.id = x.id /\ a \in {y.owner, y.id}
    BY <1>2, <1>5 DEF MayRotate
  <2> QED
    BY <2>1, <2>2
<1>8. Rightful(q.agent)'
  BY <1>6, <1>7 DEF Rightful
<1>9. /\ generated \subseteq generated'
      /\ generated' \subseteq [key : Key, agent : Ids, by : Actors]
  BY <1>2, <1>3, <1>4 DEF Record, IInv, TypeOK, Agent
<1>10. Start(r, q) /\ UNCHANGED <<table, handed, refused>>
  BY <1>2, <1>5, <1>6 DEF ReadToRotate
<1> QED
  BY <1>8, <1>9, <1>10, CopyKeepsIInv

LEMMA ReadToDeactivateKeepsIInv ==
    ASSUME IInv, NEW r \in Requests, ReadToDeactivate(r)
    PROVE  IInv'
<1>1. req[r] \in Reading
  BY StateTypes DEF ReadToDeactivate, IInv
<1>2. PICK x \in FindById(req[r].id), a \in Actors :
          Start(r, [pc |-> "deactivate", by |-> a, agent |-> Deactivated(x)])
  BY <1>1 DEF ReadToDeactivate, Reading
<1>3. x \in Agent /\ Rightful(x)
  BY <1>2 DEF FindById, IInv, TypeOK
<1>4. PICK y \in Agent :
          y = Deactivated(x) /\ y.key = x.key /\ y.id = x.id /\ y.owner = x.owner
  <2>1. /\ Deactivated(x) \in Agent /\ Deactivated(x).key = x.key
        /\ Deactivated(x).id = x.id /\ Deactivated(x).owner = x.owner
    BY <1>3 DEF Deactivated, Agent
  <2> QED
    BY <2>1
<1>5. PICK q \in Writing : q = [pc |-> "deactivate", by |-> a, agent |-> y]
  BY DEF Writing
<1>6. generated' = generated
  BY DEF ReadToDeactivate
<1>7. Rightful(q.agent)'
  BY <1>3, <1>4, <1>5, <1>6 DEF Rightful
<1>8. Start(r, q) /\ UNCHANGED <<table, handed, refused>>
  BY <1>2, <1>4, <1>5 DEF ReadToDeactivate
<1>9. generated' \subseteq [key : Key, agent : Ids, by : Actors]
  BY <1>6 DEF IInv, TypeOK
<1> QED
  BY <1>6, <1>7, <1>8, <1>9, CopyKeepsIInv

(* A save that the unique index lets through finds the table empty: every  *)
(* row has the one stored prefix.                                          *)
LEMMA SaveKeepsIInv ==
    ASSUME IInv, NEW r \in Requests, Save(r)
    PROVE  IInv'
<1>1. PICK x \in Agent : x = req[r].agent /\ Rightful(x)
  BY StateTypes DEF Save, HoldsCopy, IInv, CopiesRightful
<1>2. PICK q \in Answering : q = [pc |-> "created", id |-> x.id, key |-> x.key]
  BY <1>1 DEF Answering, Agent
<1>3. UNCHANGED <<generated, handed>>
  BY DEF Save
<1>4. CASE PrefixFree(StoredPrefix(x))
  <2>1. table' = table \cup {x} /\ Start(r, q) /\ refused' = refused
    BY <1>1, <1>2, <1>4 DEF Save, StoredPrefix
  <2>2. table = {}
    BY <1>4 DEF PrefixFree, FindByApiKeyPrefix, StoredPrefix
  <2>3. TypeOK'
    BY <1>3, <2>1 DEF IInv, TypeOK, Start
  <2>4. ASSUME NEW y \in table'
        PROVE  Rightful(y)'
    BY <1>1, <1>3, <2>1, <2>2, <2>4 DEF Rightful
  <2>5. CopiesRightful'
    <3>1. ASSUME NEW s \in Requests, HoldsCopy(s)'
          PROVE  HoldsCopy(s) /\ req'[s] = req[s]
      BY <2>1, <3>1 DEF HoldsCopy, Start, IInv, TypeOK, Answering
    <3> QED
      BY <1>3, <3>1 DEF IInv, CopiesRightful, Rightful
  <2>6. LookupIsDeterministic'
    BY <2>1, <2>2 DEF LookupIsDeterministic, FindByApiKeyPrefix
  <2> QED
    BY <2>3, <2>4, <2>5, <2>6 DEF IInv
<1>5. CASE ~ PrefixFree(StoredPrefix(x))
  <2>1. /\ table' = table /\ Start(r, Idle) /\ refused' = refused \cup {x.id}
    BY <1>1, <1>5 DEF Save, StoredPrefix
  <2>2. PICK i \in {Idle} : i = Idle
    OBVIOUS
  <2>3. handed' \subseteq Key /\ refused' \subseteq Ids
    BY <1>3, <2>1 DEF IInv, TypeOK, Agent
  <2> QED
    BY <1>3, <2>1, <2>3, WithoutCopyKeepsIInv
<1> QED
  BY <1>4, <1>5

(* A whole-row write puts one rightful copy where its agent was.           *)
LEMMA UpdateKeepsIInv ==
    ASSUME IInv, NEW r \in Requests, Update(r)
    PROVE  IInv'
<1>1. PICK e \in Agent : e = req[r].agent /\ Rightful(e)
  BY StateTypes DEF Update, HoldsCopy, IInv, CopiesRightful
<1>2. PICK q \in Answering : Start(r, q)
  BY <1>1 DEF Update, Answering, Agent
<1>3. UNCHANGED <<generated, handed, refused>>
  BY DEF Update
<1> DEFINE New(x) == IF x.id = e.id
                       THEN [x EXCEPT !.key = e.key, !.active = e.active, !.owner = e.owner]
                       ELSE x
<1>4. table' = {New(x) : x \in table}
  BY <1>1 DEF Update
<1>5. ASSUME NEW x \in Agent
      PROVE  New(x) \in Agent /\ (New(x) = e \/ New(x) = x)
  BY DEF Agent
<1>6. ASSUME NEW y \in table'
      PROVE  y \in Agent /\ (y = e \/ y \in table)
  <2>1. PICK x \in table : y = New(x)
    BY <1>4, <1>6
  <2>2. x \in Agent
    BY DEF IInv, TypeOK
  <2> HIDE DEF New
  <2> QED
    BY <1>5, <2>1, <2>2
<1>7. TypeOK'
  BY <1>2, <1>3, <1>6 DEF IInv, TypeOK, Start
<1>8. ASSUME NEW y \in table'
      PROVE  Rightful(y)'
  <2>1. Rightful(y)
    BY <1>1, <1>6 DEF IInv
  <2> QED
    BY <1>3, <2>1 DEF Rightful
<1>9. CopiesRightful'
  <2>1. ASSUME NEW s \in Requests, HoldsCopy(s)'
        PROVE  HoldsCopy(s) /\ req'[s] = req[s]
    BY <1>2, <2>1 DEF HoldsCopy, Start, IInv, TypeOK, Answering
  <2> QED
    BY <1>3, <2>1 DEF IInv, CopiesRightful, Rightful
<1>10. LookupIsDeterministic'
  <2>1. \A x, y \in table : x = y
    BY AgentsAssumption DEF IInv, LookupIsDeterministic, FindByApiKeyPrefix, StoredPrefix
  <2>2. \A x, y \in table' : x = y
    BY <1>4, <2>1
  <2> QED
    BY <2>2 DEF LookupIsDeterministic, FindByApiKeyPrefix
<1> QED
  BY <1>7, <1>8, <1>9, <1>10 DEF IInv

LEMMA AnswerKeepsIInv ==
    ASSUME IInv, NEW r \in Requests, Answer(r)
    PROVE  IInv'
<1>1. req[r].id \in Ids /\ req[r].key \in Key
  BY StateTypes DEF Answer, IInv, Answering
<1>2. /\ Start(r, Idle) /\ UNCHANGED <<table, generated>>
      /\ handed' \subseteq Key /\ refused' \subseteq Ids
  BY <1>1 DEF Answer, IInv, TypeOK
<1> QED
  BY <1>2, WithoutCopyKeepsIInv

LEMMA ArriveKeepsIInv ==
    ASSUME IInv, NEW r \in Requests, NEW op \in {"rotate", "deactivate"},
           NEW a \in Actors, NEW i \in Ids, Arrive(r, op, a, i)
    PROVE  IInv'
<1>1. PICK q \in Reading : Start(r, q)
  BY DEF Arrive, Reading
<1>2. /\ UNCHANGED <<table, generated>>
      /\ handed' \subseteq Key /\ refused' \subseteq Ids
  BY DEF Arrive, IInv, TypeOK
<1> QED
  BY <1>1, <1>2, WithoutCopyKeepsIInv

LEMMA EndKeepsIInv ==
    ASSUME IInv, NEW r \in Requests, Reject(r) \/ Abort(r)
    PROVE  IInv'
<1>1. /\ Start(r, Idle) /\ UNCHANGED <<table, generated>>
      /\ handed' \subseteq Key /\ refused' \subseteq Ids
  BY DEF Reject, Abort, IInv, TypeOK
<1> QED
  BY <1>1, WithoutCopyKeepsIInv

-----------------------------------------------------------------------------
LEMMA InitIInv == Init => IInv
BY DEF Init, IInv, TypeOK, CopiesRightful, HoldsCopy, Idle, LookupIsDeterministic,
       FindByApiKeyPrefix

LEMMA StepIInv == IInv /\ [Next]_vars => IInv'
<1> SUFFICES ASSUME IInv, [Next]_vars
             PROVE  IInv'
  OBVIOUS
<1>1. ASSUME NEW r \in Requests, NEW a \in Actors, NEW p \in Asked, Create(r, a, p)
      PROVE  IInv'
  BY <1>1, AgentsAssumption, CreateKeepsIInv
<1>2. ASSUME NEW r \in Requests, NEW op \in {"rotate", "deactivate"},
             NEW a \in Actors, NEW i \in Ids, Arrive(r, op, a, i)
      PROVE  IInv'
  BY <1>2, ArriveKeepsIInv
<1>3. CASE UNCHANGED vars
  BY <1>3 DEF vars, IInv, TypeOK, Rightful, CopiesRightful, HoldsCopy,
              LookupIsDeterministic, FindByApiKeyPrefix, StoredPrefix
<1> QED
  BY <1>1, <1>2, <1>3, SaveKeepsIInv, ReadToRotateKeepsIInv, ReadToDeactivateKeepsIInv,
     EndKeepsIInv, UpdateKeepsIInv, AnswerKeepsIInv DEF Next

(* Every reachable state satisfies the inductive invariant.                *)
THEOREM InductiveInvariant == Spec => []IInv
BY InitIInv, StepIInv, PTL DEF Spec

(* Rows, copies and histories are well typed.                              *)
THEOREM TypeCorrect == Spec => []TypeOK
<1>1. IInv => TypeOK
  BY DEF IInv
<1> QED
  BY <1>1, InductiveInvariant, PTL

(* Through any interleaving of reads and whole-row writes, the key of an   *)
(* agent was made for it at its owner's or its own request.                *)
THEOREM KeysAreRightful == Spec => []KeyFromOwnerOrSelf
<1>1. IInv => KeyFromOwnerOrSelf
  BY DEF IInv, KeyFromOwnerOrSelf, Rightful
<1> QED
  BY <1>1, InductiveInvariant, PTL

(* The lookup by prefix never has two agents to choose from.               *)
THEOREM OneAgentPerPrefix == Spec => []LookupIsDeterministic
<1>1. IInv => LookupIsDeterministic
  BY DEF IInv
<1> QED
  BY <1>1, InductiveInvariant, PTL

-----------------------------------------------------------------------------
(* What a step may do to rows and copies: a row written is the copy of     *)
(* some request; a copy taken is a row with its flag cleared or a fresh    *)
(* key, or a new agent.                                                    *)

Fresh(k) == \A g \in generated : g.key # k

RowsCome(y) == y \in table \/ \E r \in Requests : HoldsCopy(r) /\ y = req[r].agent

CopiesCome(c) ==
    \/ \E r \in Requests : HoldsCopy(r) /\ c = req[r].agent
    \/ \E x \in table : c = Deactivated(x)
    \/ \E x \in table, k \in Key : Fresh(k) /\ c = Rotated(x, k)
    \/ Fresh(c.key) /\ \A g \in generated : g.agent # c.id

LEMMA RowsStep ==
    ASSUME IInv, [Next]_vars
    PROVE  /\ \A y \in table' : RowsCome(y)
           /\ \A x \in table : \E y \in table' : y.id = x.id
<1>1. ASSUME NEW r \in Requests, Update(r)
      PROVE  /\ \A y \in table' : RowsCome(y)
             /\ \A x \in table : \E y \in table' : y.id = x.id
  <2>1. PICK e \in Agent : e = req[r].agent
    BY <1>1, StateTypes DEF Update, HoldsCopy, IInv
  <2> DEFINE New(x) == IF x.id = e.id
                         THEN [x EXCEPT !.key = e.key, !.active = e.active, !.owner = e.owner]
                         ELSE x
  <2>2. table' = {New(x) : x \in table}
    BY <1>1, <2>1 DEF Update
  <2>3. ASSUME NEW x \in table
        PROVE  (New(x) = e \/ New(x) = x) /\ New(x).id = x.id
    BY DEF IInv, TypeOK, Agent
  <2>4. HoldsCopy(r)
    BY <1>1 DEF Update, HoldsCopy
  <2> HIDE DEF New
  <2>5. \A y \in table' : RowsCome(y)
    <3>1. TAKE y \in table'
    <3>2. PICK x \in table : y = New(x)
      BY <2>2
    <3> QED
      BY <2>1, <2>3, <2>4, <3>2 DEF RowsCome
  <2>6. \A x \in table : \E y \in table' : y.id = x.id
    BY <2>2, <2>3
  <2> QED
    BY <2>5, <2>6
<1>2. ASSUME NEW r \in Requests, Save(r)
      PROVE  /\ \A y \in table' : RowsCome(y)
             /\ \A x \in table : \E y \in table' : y.id = x.id
  BY <1>2 DEF Save, HoldsCopy, RowsCome
<1>3. CASE UNCHANGED table
  BY <1>3 DEF RowsCome
<1> QED
  BY <1>1, <1>2, <1>3
  DEF Next, vars, Create, Arrive, ReadToRotate, ReadToDeactivate, Reject, Answer, Abort

LEMMA CopiesStep ==
    ASSUME IInv, [Next]_vars, NEW s \in Requests, HoldsCopy(s)'
    PROVE  CopiesCome(req'[s].agent)
<1>1. ASSUME NEW r \in Requests, NEW q, Start(r, q),
             q.pc \notin {"save", "rotate", "deactivate"}
      PROVE  CopiesCome(req'[s].agent)
  <2>1. s # r /\ req'[s] = req[s]
    BY <1>1 DEF Start, HoldsCopy, IInv, TypeOK
  <2> QED
    BY <2>1 DEF HoldsCopy, CopiesCome
<1>2. ASSUME NEW r \in Requests, NEW q, Start(r, q), CopiesCome(q.agent)
      PROVE  CopiesCome(req'[s].agent)
  <2>1. CASE s = r
    BY <1>2, <2>1 DEF Start, IInv, TypeOK
  <2>2. CASE s # r
    <3>1. req'[s] = req[s]
      BY <1>2, <2>2 DEF Start, IInv, TypeOK
    <3> QED
      BY <3>1 DEF HoldsCopy, CopiesCome
  <2> QED
    BY <2>1, <2>2
<1>3. ASSUME NEW r \in Requests, NEW a \in Actors, NEW p \in Asked, Create(r, a, p)
      PROVE  CopiesCome(req'[s].agent)
  <2>1. PICK i \in Ids \ {g.agent : g \in generated}, k \in FreshKeys(p) :
            Start(r, [pc |-> "save", by |-> a,
                      agent |-> [id |-> i, owner |-> a, key |-> k, active |-> TRUE]])
    BY <1>3 DEF Create
  <2> DEFINE c == [id |-> i, owner |-> a, key |-> k, active |-> TRUE]
             q == [pc |-> "save", by |-> a, agent |-> c]
  <2>2. Fresh(k)
    BY FreshIsNew, AgentsAssumption DEF IInv, Fresh
  <2>3. q.agent = c /\ c.key = k /\ c.id = i
    OBVIOUS
  <2>4. CopiesCome(q.agent)
    <3> HIDE DEF c, q
    <3> QED
      BY <2>2, <2>3 DEF CopiesCome
  <2>5. Start(r, q)
    BY <2>1
  <2> HIDE DEF c, q
  <2> QED
    BY <1>2, <2>4, <2>5
<1>4. ASSUME NEW r \in Requests, ReadToRotate(r)
      PROVE  CopiesCome(req'[s].agent)
  <2>1. PICK x \in FindById(req[r].id), k \in FreshKeys(Live) :
            Start(r, [pc |-> "rotate", by |-> req[r].by, agent |-> Rotated(x, k)])
    BY <1>4 DEF ReadToRotate
  <2>2. x \in table /\ k \in Key /\ Fresh(k)
    BY FreshIsNew, AgentsAssumption DEF IInv, Fresh, FindById
  <2> DEFINE q == [pc |-> "rotate", by |-> req[r].by, agent |-> Rotated(x, k)]
  <2>3. CopiesCome(q.agent)
    BY <2>2 DEF CopiesCome
  <2>4. Start(r, q)
    BY <2>1
  <2> HIDE DEF q
  <2> QED
    BY <1>2, <2>3, <2>4
<1>5. ASSUME NEW r \in Requests, ReadToDeactivate(r)
      PROVE  CopiesCome(req'[s].agent)
  <2>1. PICK x \in FindById(req[r].id) :
            Start(r, [pc |-> "deactivate", by |-> req[r].by, agent |-> Deactivated(x)])
    BY <1>5 DEF ReadToDeactivate
  <2>2. x \in table
    BY DEF FindById
  <2> DEFINE q == [pc |-> "deactivate", by |-> req[r].by, agent |-> Deactivated(x)]
  <2>3. CopiesCome(q.agent)
    BY <2>2 DEF CopiesCome
  <2>4. Start(r, q)
    BY <2>1
  <2> HIDE DEF q
  <2> QED
    BY <1>2, <2>3, <2>4
<1>6. CASE UNCHANGED vars
  BY <1>6 DEF vars, HoldsCopy, CopiesCome
<1>7. ASSUME NEW r \in Requests, Save(r)
      PROVE  CopiesCome(req'[s].agent)
  BY <1>1, <1>7 DEF Save, Idle
<1>8. ASSUME NEW r \in Requests, NEW op \in {"rotate", "deactivate"},
             NEW a \in Actors, NEW i \in Ids, Arrive(r, op, a, i)
      PROVE  CopiesCome(req'[s].agent)
  BY <1>1, <1>8 DEF Arrive
<1>9. ASSUME NEW r \in Requests, Update(r)
      PROVE  CopiesCome(req'[s].agent)
  BY <1>1, <1>9 DEF Update
<1>10. ASSUME NEW r \in Requests, Reject(r) \/ Answer(r) \/ Abort(r)
       PROVE  CopiesCome(req'[s].agent)
  BY <1>1, <1>10 DEF Reject, Answer, Abort, Idle
<1> QED
  BY <1>3, <1>4, <1>5, <1>6, <1>7, <1>8, <1>9, <1>10 DEF Next

LEMMA CopyShapes ==
    ASSUME TypeOK, NEW x \in table, NEW k \in Key
    PROVE  /\ Deactivated(x).key = x.key /\ Deactivated(x).id = x.id
           /\ ~ Deactivated(x).active
           /\ Rotated(x, k).key = k /\ Rotated(x, k).id = x.id
           /\ Rotated(x, k).active = x.active
BY DEF TypeOK, Agent, Deactivated, Rotated

(* A key in no row and no copy never comes back, whoever writes whatever   *)
(* stale agent afterwards.                                                 *)
THEOREM DeadKeysAreFinal == Spec => DeadKeyStaysDead
<1>1. ASSUME IInv, [Next]_vars, NEW g \in generated, DeadKey(g.key)
      PROVE  DeadKey(g.key)'
  <2> DEFINE k == g.key
  <2>1. ASSUME NEW y \in table'
        PROVE  y.key # k
    BY <1>1, <2>1, RowsStep DEF RowsCome, DeadKey
  <2>2. ASSUME NEW s \in Requests, HoldsCopy(s)'
        PROVE  req'[s].agent.key # k
    <3>1. CopiesCome(req'[s].agent)
      BY <1>1, <2>2, CopiesStep
    <3> DEFINE c == req'[s].agent
    <3>2. CASE \E r \in Requests : HoldsCopy(r) /\ c = req[r].agent
      BY <1>1, <3>2 DEF DeadKey
    <3>3. CASE \E x \in table : c = Deactivated(x)
      <4>1. PICK x \in table : c = Deactivated(x)
        BY <3>3
      <4>2. c.key = x.key
        BY <1>1, <4>1 DEF IInv, TypeOK, Agent, Deactivated
      <4> QED
        BY <1>1, <4>2 DEF DeadKey
    <3>4. CASE \E x \in table, l \in Key : Fresh(l) /\ c = Rotated(x, l)
      <4>1. PICK x \in table, l \in Key : Fresh(l) /\ c = Rotated(x, l)
        BY <3>4
      <4>2. c.key = l
        BY <1>1, <4>1, CopyShapes DEF IInv
      <4> QED
        BY <4>1, <4>2 DEF Fresh
    <3>5. CASE Fresh(c.key)
      BY <3>5 DEF Fresh
    <3> QED
      BY <3>1, <3>2, <3>3, <3>4, <3>5 DEF CopiesCome
  <2> QED
    BY <2>1, <2>2 DEF DeadKey
<1>2. IInv /\ [Next]_vars => [\A g \in generated : DeadKey(g.key) => DeadKey(g.key)']_vars
  BY <1>1
<1> QED
  BY <1>2, InductiveInvariant, PTL DEF Spec, DeadKeyStaysDead

(* A deactivated agent with no active copy of it in flight is off for      *)
(* good: no rotation switches it on again.                                 *)
THEOREM DeactivationIsFinal == Spec => InactiveStaysInactive
<1>1. ASSUME IInv, [Next]_vars, NEW i \in Ids, TurnedOff(i)
      PROVE  TurnedOff(i)'
  <2>1. PICK z \in table : z.id = i
    BY <1>1 DEF TurnedOff
  <2>2. \E y \in table' : y.id = i
    BY <1>1, <2>1, RowsStep
  <2>3. ASSUME NEW y \in table', y.id = i
        PROVE  ~ y.active
    BY <1>1, <2>3, RowsStep DEF RowsCome, TurnedOff
  <2>4. ASSUME NEW s \in Requests, HoldsCopy(s)', req'[s].agent.id = i
        PROVE  ~ req'[s].agent.active
    <3>1. CopiesCome(req'[s].agent)
      BY <1>1, <2>4, CopiesStep
    <3>2. \E g \in generated : g.agent = i
      BY <1>1, <2>1 DEF IInv, Rightful
    <3> DEFINE c == req'[s].agent
    <3>3. CASE \E r \in Requests : HoldsCopy(r) /\ c = req[r].agent
      BY <1>1, <2>4, <3>3 DEF TurnedOff
    <3>4. CASE \E x \in table : c = Deactivated(x)
      <4>1. PICK x \in table : c = Deactivated(x)
        BY <3>4
      <4> QED
        BY <1>1, <4>1 DEF IInv, TypeOK, Agent, Deactivated
    <3>5. CASE \E x \in table, l \in Key : Fresh(l) /\ c = Rotated(x, l)
      <4>1. PICK x \in table, l \in Key : c = Rotated(x, l)
        BY <3>5
      <4>2. x.id = i /\ c.active = x.active
        BY <1>1, <2>4, <4>1, CopyShapes DEF IInv
      <4> QED
        BY <1>1, <4>2 DEF TurnedOff
    <3>6. CASE \A g \in generated : g.agent # c.id
      BY <2>4, <3>2, <3>6
    <3> QED
      BY <3>1, <3>3, <3>4, <3>5, <3>6 DEF CopiesCome
  <2> QED
    BY <2>2, <2>3, <2>4 DEF TurnedOff
<1>2. IInv /\ [Next]_vars => [\A i \in Ids : TurnedOff(i) => TurnedOff(i)']_vars
  BY <1>1
<1> QED
  BY <1>2, InductiveInvariant, PTL DEF Spec, InactiveStaysInactive
=============================================================================
