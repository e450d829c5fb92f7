--------------------------- MODULE ServiceProofs ---------------------------
(***************************************************************************)
(* Theorems about Service and the requests of Authentication in it, for    *)
(* every set of requests, probes, tokens, keys and malformed credentials,  *)
(* and every size of the pool.                                             *)
(*                                                                         *)
(* Requests share only the database, the pool and the validity of          *)
(* credentials, so the invariant of Authentication is a statement about    *)
(* each request by itself; the pool delays the steps of Authentication and *)
(* adds none.                                                              *)
(*                                                                         *)
(* That a probe in hand of a connection has nobody before it needs to know *)
(* that whoever is recorded as ahead of a probe stands before it in the    *)
(* line, and that nobody waits while a connection is free.                 *)
(***************************************************************************)
EXTENDS Service, FiniteSetTheorems, SequenceTheorems, TLAPS

(* What is true of a request in progress.  What is recorded as proven has  *)
(* been valid since the request arrived, so that nothing a lookup has      *)
(* refused is: once the key is tried the cookie is out, and once that is   *)
(* refused too, so is everything presented.                                *)
Sound(q) ==
    /\ q \in Request
    /\ q.pc = "touch" => q.cookie \in Tokens
    /\ (q.in = "guard" \/ q.pc \in {"401", "503"}) => q.guarded
    /\ q.proven \subseteq {q.cookie, q.bearer} \cap valid
    /\ ~ up => q.outage
    /\ q.pc = "agent" => q.cookie \notin q.proven
    /\ q.pc = "401" => q.proven = {}
    /\ (q.pc = "handler" /\ q.guarded) => q.actor \in {q.cookie, q.bearer} /\ q.actor # None
    /\ q.cookie \in q.proven => q.actor \in {None, q.cookie}
    /\ q.pc = "503" => q.outage \/ q.cookie \in BadCookies

IInv ==
    /\ up \in BOOLEAN
    /\ valid \subseteq Tokens \cup Keys
    /\ DOMAIN req = Requests /\ req = [r \in Requests |-> req[r]]
    /\ \A r \in Requests : req[r] # Idle => Sound(req[r])

-----------------------------------------------------------------------------
(* One request moves on, and nothing else changes.                         *)
LEMMA BecomeKeepsIInv ==
    ASSUME IInv, NEW r \in Requests, NEW q, Become(r, q), q # Idle => Sound(q)
    PROVE  IInv'
<1>1. up' = up /\ valid' = valid /\ req' = [req EXCEPT ![r] = q]
  BY DEF Become
<1>2. ASSUME NEW s \in Requests, req'[s] # Idle
      PROVE  Sound(req'[s])
  BY <1>1, <1>2 DEF IInv
<1>3. ASSUME NEW s \in Requests, req'[s] # Idle
      PROVE  Sound(req[s])'
  BY <1>1, <1>2, <1>3 DEF Sound
<1> QED
  BY <1>1, <1>3 DEF IInv

(* next() after the middleware. *)
LEMMA AfterMiddlewareSound ==
    ASSUME NEW q, Sound(q), q.in = "middleware"
    PROVE  Sound(AfterMiddleware(q))
<1> DEFINE p == [q EXCEPT !.pc = "session", !.in = "guard"]
<1>1. CASE q.guarded
  <2>1. q \in Request
    BY DEF Sound
  <2>2. p \in Request
    BY <2>1 DEF Request, Outcomes
  <2>3. /\ p.pc = "session" /\ p.in = "guard" /\ p.guarded = q.guarded
        /\ p.cookie = q.cookie /\ p.bearer = q.bearer /\ p.actor = q.actor
        /\ p.proven = q.proven /\ p.outage = q.outage
    BY <2>1 DEF Request
  <2> HIDE DEF p
  <2>4. Sound(p)
    BY <1>1, <2>2, <2>3 DEF Sound
  <2> QED
    BY <1>1, <2>4 DEF AfterMiddleware, p
<1>2. CASE ~ q.guarded
  BY <1>2 DEF Sound, AfterMiddleware, Request, Outcomes
<1> QED
  BY <1>1, <1>2

(* A lookup fails for want of a database, or on a cookie it throws on.     *)
LEMMA FailedSound ==
    ASSUME NEW q, Sound(q), ~ up \/ q.cookie \in BadCookies
    PROVE  Sound(Failed(q))
<1>1. CASE q.in = "middleware"
  BY <1>1, AfterMiddlewareSound DEF Failed
<1>2. CASE q.in = "guard"
  BY <1>2 DEF Failed, Sound, Request, Outcomes
<1> QED
  BY <1>1, <1>2 DEF Sound, Request

(* Nothing presented has been valid all along, and the request is refused. *)
LEMMA DeniedSound ==
    ASSUME NEW q, Sound(q), q.proven = {}
    PROVE  Sound(Denied(q))
<1>1. CASE q.in = "middleware"
  BY <1>1, AfterMiddlewareSound DEF Denied
<1>2. CASE q.in = "guard"
  BY <1>2 DEF Denied, Sound, Request, Outcomes
<1> QED
  BY <1>1, <1>2 DEF Sound, Request

(* The request acts as the holder of a credential it presented. *)
LEMMA AuthenticatedSound ==
    ASSUME NEW q, Sound(q), NEW c \in Tokens \cup Keys, c \in {q.cookie, q.bearer},
           q.cookie \in q.proven => c = q.cookie
    PROVE  Sound(Authenticated(q, c))
<1>1. c # None
  BY AuthenticationAssumption
<1> DEFINE p == Authenticated(q, c)
<1>2. q \in Request
  BY DEF Sound
<1>3. p \in Request
  BY <1>2 DEF Authenticated, Request, Outcomes
<1>4. p.pc = "handler" /\ p.actor = c
  BY <1>2 DEF Authenticated, Request
<1>5. /\ p.in = q.in /\ p.guarded = q.guarded /\ p.cookie = q.cookie
      /\ p.bearer = q.bearer /\ p.proven = q.proven /\ p.outage = q.outage
  BY <1>2 DEF Authenticated, Request
<1> HIDE DEF p
<1>6. Sound(p)
  BY <1>1, <1>3, <1>4, <1>5 DEF Sound
<1> QED
  BY <1>6 DEF p

-----------------------------------------------------------------------------
LEMMA ArriveKeepsIInv ==
    ASSUME IInv, NEW r \in Requests, NEW g \in BOOLEAN,
           NEW c \in Tokens \cup BadCookies \cup {None},
           NEW b \in Keys \cup BadKeys \cup {None}, Arrive(r, g, c, b)
    PROVE  IInv'
<1> DEFINE q == [pc |-> "session", in |-> "middleware", guarded |-> g,
                 cookie |-> c, bearer |-> b, actor |-> None,
                 proven |-> {c, b} \cap valid, outage |-> ~ up]
<1>1. q \in Request
  BY DEF Request, IInv
<1>2. Sound(q)
  BY <1>1 DEF Sound
<1>3. Become(r, q)
  BY DEF Arrive, Become
<1> QED
  BY <1>2, <1>3, BecomeKeepsIInv

LEMMA LookUpSessionKeepsIInv ==
    ASSUME IInv, NEW r \in Requests, LookUpSession(r)
    PROVE  IInv'
<1> DEFINE q == req[r]
           next == [q EXCEPT !.pc = "agent"]
<1>1. q.pc = "session" /\ Sound(q)
  BY DEF LookUpSession, IInv, Idle
<1>2. Sound(next) \/ q.cookie \in q.proven
  BY <1>1 DEF Sound, Request, Outcomes
<1>3. CASE q.cookie = None
  <2>1. q.cookie \notin q.proven
    BY <1>1, <1>3, AuthenticationAssumption DEF Sound, Request
  <2>2. Sound(next)
    BY <1>2, <2>1
  <2>3. q.cookie \notin BadCookies
    BY <1>3, AuthenticationAssumption
  <2>4. Become(r, next)
    BY <1>3, <2>3 DEF LookUpSession
  <2> QED
    BY <2>2, <2>4, BecomeKeepsIInv
<1>4. CASE q.cookie # None /\ q.cookie \in BadCookies
  BY <1>1, <1>4, FailedSound, BecomeKeepsIInv DEF LookUpSession
<1>5. CASE q.cookie # None /\ q.cookie \notin BadCookies
  <2> DEFINE found == [q EXCEPT !.pc = "touch"]
  <2>1. q.cookie \in Tokens
    BY <1>1, <1>5 DEF Sound, Request
  <2>2. Sound(found)
    <3>1. q \in Request
      BY <1>1 DEF Sound
    <3>2. found \in Request
      BY <3>1 DEF Request, Outcomes
    <3>3. /\ found.pc = "touch" /\ found.in = q.in /\ found.guarded = q.guarded
          /\ found.cookie = q.cookie /\ found.bearer = q.bearer /\ found.actor = q.actor
          /\ found.proven = q.proven /\ found.outage = q.outage
      BY <3>1 DEF Request
    <3> HIDE DEF found
    <3> QED
      BY <1>1, <2>1, <3>2, <3>3 DEF Sound
  <2>3. q.cookie \notin valid => Sound(next)
    BY <1>1, <1>2 DEF Sound
  <2>4. Sound(LookedUp(q, q.cookie, found, next))
    BY <1>1, <2>2, <2>3, FailedSound DEF LookedUp
  <2>5. Become(r, LookedUp(q, q.cookie, found, next))
    BY <1>5 DEF LookUpSession
  <2> QED
    BY <2>4, <2>5, BecomeKeepsIInv
<1> QED
  BY <1>3, <1>4, <1>5

LEMMA TouchKeepsIInv ==
    ASSUME IInv, NEW r \in Requests, Touch(r)
    PROVE  IInv'
<1>1. Sound(req[r]) /\ req[r].cookie \in Tokens
  BY DEF Touch, IInv, Idle, Sound
<1>2. Sound(Authenticated(req[r], req[r].cookie))
  BY <1>1, AuthenticatedSound
<1> QED
  BY <1>2, BecomeKeepsIInv DEF Touch

LEMMA LookUpAgentKeepsIInv ==
    ASSUME IInv, NEW r \in Requests, LookUpAgent(r)
    PROVE  IInv'
<1> DEFINE q == req[r]
<1>1. q.pc = "agent" /\ Sound(q) /\ q.cookie \notin q.proven
  BY DEF LookUpAgent, IInv, Idle, Sound
<1>2. q.bearer \notin valid => Sound(Denied(q))
  <2>1. q.bearer \notin valid => q.proven = {}
    BY <1>1 DEF Sound
  <2> QED
    BY <1>1, <2>1, DeniedSound
<1>3. CASE q.bearer \in Keys
  <2>1. Sound(Authenticated(q, q.bearer))
    BY <1>1, <1>3, AuthenticatedSound
  <2>2. Sound(LookedUp(q, q.bearer, Authenticated(q, q.bearer), Denied(q)))
    BY <1>1, <1>2, <2>1, FailedSound DEF LookedUp
  <2> QED
    BY <1>3, <2>2, BecomeKeepsIInv DEF LookUpAgent
<1>4. CASE q.bearer \notin Keys
  <2>1. q.bearer \notin valid
    BY <1>1, <1>4, AuthenticationAssumption DEF Sound, Request, IInv
  <2> QED
    BY <1>2, <1>4, <2>1, BecomeKeepsIInv DEF LookUpAgent
<1> QED
  BY <1>3, <1>4

LEMMA FinishKeepsIInv ==
    ASSUME IInv, NEW r \in Requests, Finish(r)
    PROVE  IInv'
BY BecomeKeepsIInv DEF Finish

(* The database goes down or comes back: every request in progress has it  *)
(* on record.                                                              *)
LEMMA OutageKeepsIInv ==
    ASSUME IInv, Outage
    PROVE  IInv'
<1>1. ASSUME NEW s \in Requests, req'[s] # Idle
      PROVE  Sound(req[s])'
  <2>1. req[s] # Idle /\ Sound(req[s]) /\ req'[s] = [req[s] EXCEPT !.outage = TRUE]
    BY <1>1 DEF Outage, IInv
  <2>2. req'[s] \in Request
    BY <2>1 DEF Sound, Request
  <2> QED
    BY <2>1, <2>2 DEF Sound, Request, Outage
<1> QED
  BY <1>1 DEF Outage, IInv

(* A credential ceases to be valid, and with it the proof of it. *)
LEMMA InvalidateKeepsIInv ==
    ASSUME IInv, NEW c \in valid, Invalidate(c)
    PROVE  IInv'
<1>1. ASSUME NEW s \in Requests, req'[s] # Idle
      PROVE  Sound(req[s])'
  <2>1. /\ req[s] # Idle /\ Sound(req[s])
        /\ req'[s] = [req[s] EXCEPT !.proven = req[s].proven \ {c}]
    BY <1>1 DEF Invalidate, IInv
  <2>2. req'[s] \in Request
    BY <2>1 DEF Sound, Request
  <2> QED
    BY <2>1, <2>2 DEF Sound, Request, Invalidate
<1> QED
  BY <1>1 DEF Invalidate, IInv

(* A credential becomes valid: of no request in progress has it been so    *)
(* all along.                                                              *)
LEMMA ValidateKeepsIInv ==
    ASSUME IInv, NEW c \in (Tokens \cup Keys) \ valid, Validate(c)
    PROVE  IInv'
<1>1. ASSUME NEW s \in Requests, req'[s] # Idle
      PROVE  Sound(req[s])'
  BY <1>1 DEF Validate, IInv, Sound
<1> QED
  BY <1>1 DEF Validate, IInv

-----------------------------------------------------------------------------
LEMMA InitIInv == Init => IInv
BY DEF Init, IInv

LEMMA StepIInv == IInv /\ [Next]_vars => IInv'
<1> SUFFICES ASSUME IInv, [Next]_vars
             PROVE  IInv'
  OBVIOUS
<1>1. ASSUME NEW r \in Requests, Step(r)
      PROVE  IInv'
  BY <1>1, LookUpSessionKeepsIInv, TouchKeepsIInv, LookUpAgentKeepsIInv DEF Step
<1>2. CASE UNCHANGED vars
  BY <1>2 DEF vars, IInv, Sound
<1> QED
  BY <1>1, <1>2, ArriveKeepsIInv, FinishKeepsIInv, OutageKeepsIInv, InvalidateKeepsIInv,
     ValidateKeepsIInv DEF Next

-----------------------------------------------------------------------------
(* Lines. *)
Before(s, x, y) == \E i, j \in DOMAIN s : i < j /\ s[i] = x /\ s[j] = y

(* One more at the end. *)
LEMMA Joins ==
    ASSUME NEW S, NEW s \in Seq(S), NEW z \in S
    PROVE  /\ Append(s, z) \in Seq(S) /\ ToSet(Append(s, z)) = ToSet(s) \cup {z}
           /\ (IsInjective(s) /\ z \notin ToSet(s)) => IsInjective(Append(s, z))
           /\ \A x, y : Before(s, x, y) => Before(Append(s, z), x, y)
           /\ \A x \in ToSet(s) : Before(Append(s, z), x, z)
<1> DEFINE t == Append(s, z)
<1>1. /\ t \in Seq(S) /\ Len(t) = Len(s) + 1 /\ Len(s) \in Nat
      /\ DOMAIN s = 1 .. Len(s) /\ DOMAIN t = 1 .. Len(s) + 1
      /\ \A i \in 1 .. Len(s) : t[i] = s[i]
      /\ t[Len(s) + 1] = z
  OBVIOUS
<1> HIDE DEF t
<1>2. ToSet(t) = ToSet(s) \cup {z}
  BY <1>1 DEF ToSet
<1>3. (IsInjective(s) /\ z \notin ToSet(s)) => IsInjective(t)
  BY <1>1 DEF ToSet, IsInjective
<1>4. \A x, y : Before(s, x, y) => Before(t, x, y)
  BY <1>1 DEF Before
<1>5. \A x \in ToSet(s) : Before(t, x, z)
  BY <1>1 DEF Before, ToSet
<1> QED
  BY <1>1, <1>2, <1>3, <1>4, <1>5 DEF t

(* The first is gone. *)
LEMMA Leaves ==
    ASSUME NEW S, NEW s \in Seq(S), s # <<>>
    PROVE  /\ Head(s) \in S /\ Head(s) \in ToSet(s) /\ Tail(s) \in Seq(S)
           /\ IsInjective(s) => /\ IsInjective(Tail(s))
                                /\ ToSet(Tail(s)) = ToSet(s) \ {Head(s)}
           /\ \A x, y : (Before(s, x, y) /\ x # Head(s)) => Before(Tail(s), x, y)
<1> DEFINE h == Head(s)
           t == Tail(s)
<1>1. /\ h \in S /\ t \in Seq(S) /\ Len(s) \in Nat /\ Len(s) > 0
      /\ DOMAIN s = 1 .. Len(s) /\ DOMAIN t = 1 .. Len(s) - 1
      /\ \A i \in 1 .. Len(s) - 1 : t[i] = s[i + 1]
      /\ s[1] = h
  OBVIOUS
<1> HIDE DEF h, t
<1>2. h \in ToSet(s)
  BY <1>1 DEF ToSet
<1>3. IsInjective(s) => IsInjective(t)
  <2> SUFFICES ASSUME IsInjective(s), NEW i \in 1 .. Len(s) - 1, NEW j \in 1 .. Len(s) - 1,
                  t[i] = t[j]
      PROVE  i = j
    BY <1>1 DEF IsInjective
  <2>1. s[i + 1] = s[j + 1] /\ i + 1 \in 1 .. Len(s) /\ j + 1 \in 1 .. Len(s)
    BY <1>1
  <2> QED BY <1>1, <2>1 DEF IsInjective
<1>4. IsInjective(s) => ToSet(t) = ToSet(s) \ {h}
  <2> SUFFICES ASSUME IsInjective(s) PROVE ToSet(t) = ToSet(s) \ {h}
    OBVIOUS
  <2>1. ASSUME NEW x \in ToSet(t) PROVE x \in ToSet(s) \ {h}
    BY <1>1, <2>1 DEF ToSet, IsInjective
  <2>2. ASSUME NEW x \in ToSet(s) \ {h} PROVE x \in ToSet(t)
    <3>1. PICK i \in 1 .. Len(s) : s[i] = x
      BY <1>1 DEF ToSet
    <3>2. i - 1 \in 1 .. Len(s) - 1 /\ t[i - 1] = x
      BY <1>1, <2>2, <3>1
    <3> QED BY <1>1, <3>2 DEF ToSet
  <2> QED BY <2>1, <2>2
<1>5. ASSUME NEW x, NEW y, Before(s, x, y), x # h PROVE Before(t, x, y)
  <2>1. PICK i, j \in 1 .. Len(s) : i < j /\ s[i] = x /\ s[j] = y
    BY <1>1, <1>5 DEF Before
  <2>2. /\ i - 1 \in DOMAIN t /\ j - 1 \in DOMAIN t /\ i - 1 < j - 1
        /\ t[i - 1] = x /\ t[j - 1] = y
    BY <1>1, <1>5, <2>1
  <2> QED BY <2>2 DEF Before
<1> QED
  BY <1>1, <1>2, <1>3, <1>4, <1>5 DEF h, t

-----------------------------------------------------------------------------
(* The pool. *)
PoolInv ==
    /\ queue \in Seq(Callers)
    /\ held \subseteq Callers /\ IsFiniteSet(held)
    /\ lost \subseteq held
    /\ Cardinality(held) <= Size
    /\ Waiting # {} => Cardinality(held) = Size
    /\ Waiting \cap held = {}
    /\ IsInjective(queue)

LineInv ==
    /\ ahead \in [Probes -> SUBSET Callers]
    /\ \A p \in Probes : \A x \in ahead[p] : Before(queue, x, p)

LEMMA EmptyLine ==
    ASSUME PoolInv
    PROVE  queue = <<>> <=> Waiting = {}
<1>1. queue = <<>> => Waiting = {}
  BY DEF Waiting, ToSet
<1>2. queue # <<>> => Waiting # {}
  BY Leaves DEF PoolInv, Waiting
<1> QED BY <1>1, <1>2

LEMMA SubmitPool ==
    ASSUME PoolInv, NEW q \in Callers, q \notin InPool, Submit(q)
    PROVE  /\ PoolInv' /\ InPool' = InPool \cup {q}
           /\ \A x, y : Before(queue, x, y) => Before(queue, x, y)'
           /\ \A x \in Waiting : Before(queue, x, q)'
<1>1. CASE HasFree
  <2>1. held' = held \cup {q} /\ queue' = queue /\ lost' = lost
    BY <1>1 DEF Submit
  <2>2. IsFiniteSet(held') /\ Cardinality(held') = Cardinality(held) + 1 /\ Cardinality(held) \in Nat
    BY <2>1, FS_AddElement, FS_CardinalityType DEF PoolInv, InPool
  <2>3. Waiting = {} /\ Waiting' = {}
    BY <1>1, <2>1, ServiceAssumption DEF PoolInv, HasFree, Waiting
  <2>4. Cardinality(held') <= Size
    BY <1>1, <2>2, ServiceAssumption DEF HasFree
  <2>5. PoolInv'
    BY <2>1, <2>2, <2>3, <2>4 DEF PoolInv
  <2>6. InPool' = InPool \cup {q}
    BY <2>1, <2>3 DEF InPool
  <2> QED BY <2>1, <2>3, <2>5, <2>6
<1>2. CASE ~ HasFree
  <2>1. held' = held /\ queue' = Append(queue, q) /\ lost' = lost
    BY <1>2 DEF Submit
  <2>2. q \notin Waiting /\ q \notin held
    BY DEF InPool
  <2>3. Waiting' = Waiting \cup {q} /\ queue' \in Seq(Callers) /\ IsInjective(queue')
    BY <2>1, <2>2, Joins DEF PoolInv, Waiting
  <2>4. Cardinality(held) = Size
    BY <1>2, FS_CardinalityType, ServiceAssumption DEF PoolInv, HasFree
  <2>5. PoolInv'
    BY <2>1, <2>2, <2>3, <2>4 DEF PoolInv
  <2>6. InPool' = InPool \cup {q}
    BY <2>1, <2>3 DEF InPool
  <2>7. /\ \A x, y : Before(queue, x, y) => Before(queue, x, y)'
        /\ \A x \in Waiting : Before(queue, x, q)'
    BY <2>1, Joins DEF PoolInv, Waiting
  <2> QED BY <2>5, <2>6, <2>7
<1> QED BY <1>1, <1>2

LEMMA ReleasePool ==
    ASSUME PoolInv, LineInv, NEW q \in held \ lost, Release(q)
    PROVE  PoolInv' /\ LineInv' /\ InPool' = InPool \ {q}
<1>0. q \notin Waiting /\ IsFiniteSet(held) /\ Cardinality(held) \in Nat
  BY FS_CardinalityType DEF PoolInv
<1>1. CASE queue = <<>>
  <2>1. held' = held \ {q} /\ queue' = queue /\ ahead' = ahead /\ lost' = lost
    BY <1>1 DEF Release
  <2>2. IsFiniteSet(held') /\ Cardinality(held') = Cardinality(held) - 1
    BY <1>0, <2>1, FS_RemoveElement
  <2>3. Waiting = {} /\ Waiting' = {}
    BY <1>1, <2>1, EmptyLine DEF Waiting
  <2>4. Cardinality(held') <= Size
    BY <1>0, <2>2, ServiceAssumption DEF PoolInv
  <2>5. PoolInv'
    BY <2>1, <2>2, <2>3, <2>4 DEF PoolInv
  <2> QED BY <2>1, <2>3, <2>5 DEF InPool, LineInv
<1>2. CASE queue # <<>>
  <2> DEFINE h == Head(queue)
  <2>1. /\ held' = (held \ {q}) \cup {h} /\ queue' = Tail(queue) /\ lost' = lost
        /\ ahead' = [p \in Probes |-> ahead[p] \ {h}]
    BY <1>2 DEF Release
  <2>2. /\ h \in Callers /\ h \in Waiting /\ queue' \in Seq(Callers) /\ IsInjective(queue')
        /\ Waiting' = Waiting \ {h}
        /\ \A x, y : (Before(queue, x, y) /\ x # h) => Before(queue, x, y)'
    BY <1>2, <2>1, Leaves DEF PoolInv, Waiting
  <2> HIDE DEF h
  <2>3. h \notin held /\ Cardinality(held) = Size
    BY <2>2 DEF PoolInv
  <2>4. IsFiniteSet(held \ {q}) /\ Cardinality(held \ {q}) = Cardinality(held) - 1
    BY <1>0, FS_RemoveElement
  <2>5. IsFiniteSet(held') /\ Cardinality(held') = Cardinality(held)
    <3> DEFINE rest == held \ {q}
    <3>1. IsFiniteSet(rest) /\ h \notin rest
      BY <2>3, <2>4
    <3> HIDE DEF rest
    <3>2. IsFiniteSet(rest \cup {h}) /\ Cardinality(rest \cup {h}) = Cardinality(rest) + 1
      BY <3>1, FS_AddElement
    <3> QED BY <1>0, <2>1, <2>4, <3>2 DEF rest
  <2>6. PoolInv'
    BY <1>0, <2>1, <2>2, <2>3, <2>5, ServiceAssumption DEF PoolInv
  <2>7. LineInv'
    <3>1. ahead' \in [Probes -> SUBSET Callers]
      BY <2>1 DEF LineInv
    <3>2. ASSUME NEW p \in Probes, NEW x \in ahead'[p] PROVE Before(queue, x, p)'
      <4>1. x \in ahead[p] /\ x # h
        BY <2>1, <3>2
      <4> QED BY <2>2, <4>1 DEF LineInv
    <3> QED BY <3>1, <3>2 DEF LineInv
  <2>8. InPool' = InPool \ {q}
    BY <1>0, <2>1, <2>2 DEF InPool
  <2> QED BY <2>6, <2>7, <2>8
<1> QED BY <1>1, <1>2
-----------------------------------------------------------------------------
(* Who is in the pool, and why. *)
CallersInv ==
    /\ probe \in [Probes -> {"idle", "waiting", "ok", "unavailable"}]
    /\ \A r \in Requests \cap InPool : Queries(r)
    /\ \A p \in Probes : probe[p] = "waiting" => p \in InPool

SInv == IInv /\ PoolInv /\ LineInv /\ CallersInv

LEMMA InitSInv == ServiceInit => SInv
<1> SUFFICES ASSUME ServiceInit PROVE SInv
  OBVIOUS
<1>1. IInv
  BY DEF ServiceInit, Init, IInv, Idle
<1>2. InPool = {} /\ Waiting = {}
  BY DEF ServiceInit, InPool, Waiting, ToSet
<1>3. PoolInv
  BY <1>2, FS_EmptySet, ServiceAssumption DEF ServiceInit, PoolInv, IsInjective
<1>4. LineInv /\ CallersInv
  BY <1>2 DEF ServiceInit, LineInv, CallersInv
<1> QED BY <1>1, <1>3, <1>4 DEF SInv

(* The requests take the steps of Authentication, and the rest takes none. *)
LEMMA StepsOfAuthentication == [ServiceNext]_serviceVars => [Next]_vars
<1> SUFFICES ASSUME [ServiceNext]_serviceVars PROVE [Next]_vars
  OBVIOUS
<1>1. CASE Elsewhere
  BY <1>1 DEF Elsewhere, Next
<1>2. ASSUME NEW r \in Requests, Ask(r) \/ Proceed(r) \/ Reply(r)
      PROVE  [Next]_vars
  BY <1>2 DEF Ask, Proceed, Reply, Next, vars
<1>3. ASSUME NEW p \in Probes, Probe(p) \/ TimerFires(p) \/ Answer(p)
      PROVE  UNCHANGED vars
  BY <1>3 DEF Probe, TimerFires, Answer, vars
<1>4. ASSUME NEW q \in Callers, Lose(q) PROVE UNCHANGED vars
  BY <1>4 DEF Lose, vars
<1>5. CASE UNCHANGED serviceVars
  BY <1>5 DEF serviceVars, vars
<1> QED BY <1>1, <1>2, <1>3, <1>4, <1>5 DEF ServiceNext

(* No request but r itself moves. *)
LEMMA OthersRest ==
    ASSUME IInv, NEW r \in Requests, Step(r)
    PROVE  \A s \in Requests \ {r} : Queries(s)' = Queries(s)
<1>1. ASSUME NEW q, Become(r, q)
      PROVE  \A s \in Requests \ {r} : req'[s] = req[s]
  BY <1>1 DEF Become, IInv
<1>2. \A s \in Requests \ {r} : req'[s] = req[s]
  BY <1>1 DEF Step, LookUpSession, Touch, LookUpAgent
<1> QED BY <1>2 DEF Queries

(* What happens elsewhere leaves a request at its query. *)
LEMMA ElsewhereRests ==
    ASSUME IInv, Elsewhere, NEW s \in Requests, Queries(s)
    PROVE  Queries(s)'
<1>1. req[s] # Idle /\ req[s] \in Request /\ req[s].pc \notin Outcomes
  BY DEF Queries, IInv, Sound, Idle, Outcomes
<1>2. ASSUME NEW r \in Requests, NEW g \in BOOLEAN, NEW c \in Tokens \cup BadCookies \cup {None},
             NEW b \in Keys \cup BadKeys \cup {None}, Arrive(r, g, c, b)
      PROVE  req'[s] = req[s]
  BY <1>1, <1>2 DEF Arrive, Idle, IInv
<1>3. ASSUME NEW r \in Requests, Finish(r) PROVE req'[s] = req[s]
  BY <1>1, <1>3 DEF Finish, Become, Outcomes, IInv
<1>4. CASE Outage
  <2>1. req'[s] = [req[s] EXCEPT !.outage = TRUE]
    BY <1>1, <1>4 DEF Outage, Idle
  <2>2. req'[s].pc = req[s].pc /\ req'[s].cookie = req[s].cookie /\ req'[s].bearer = req[s].bearer
    BY <1>1, <2>1 DEF Request
  <2> QED BY <2>2 DEF Queries
<1>5. ASSUME NEW c \in valid, Invalidate(c) PROVE Queries(s)'
  <2>1. req'[s] = [req[s] EXCEPT !.proven = @ \ {c}]
    BY <1>1, <1>5 DEF Invalidate, Idle
  <2>2. req'[s].pc = req[s].pc /\ req'[s].cookie = req[s].cookie /\ req'[s].bearer = req[s].bearer
    BY <1>1, <2>1 DEF Request
  <2> QED BY <2>2 DEF Queries
<1>6. ASSUME NEW c \in (Tokens \cup Keys) \ valid, Validate(c) PROVE req'[s] = req[s]
  BY <1>6 DEF Validate
<1> QED BY <1>2, <1>3, <1>4, <1>5, <1>6 DEF Elsewhere, Queries

-----------------------------------------------------------------------------
LEMMA AskKeepsSInv ==
    ASSUME SInv, NEW r \in Requests, Ask(r)
    PROVE  PoolInv' /\ LineInv' /\ CallersInv'
<1>1. /\ r \in Callers /\ r \notin InPool /\ Submit(r) /\ Queries(r)
      /\ req' = req /\ probe' = probe /\ ahead' = ahead
  BY DEF Ask, Callers
<1>2. /\ PoolInv' /\ InPool' = InPool \cup {r}
      /\ \A x, y : Before(queue, x, y) => Before(queue, x, y)'
  BY <1>1, SubmitPool DEF SInv
<1>3. LineInv'
  BY <1>1, <1>2 DEF SInv, LineInv
<1>4. CallersInv'
  BY <1>1, <1>2 DEF SInv, CallersInv, Queries
<1> QED BY <1>2, <1>3, <1>4

LEMMA ProceedKeepsSInv ==
    ASSUME SInv, NEW r \in Requests, Proceed(r)
    PROVE  PoolInv' /\ LineInv' /\ CallersInv'
<1>1. /\ r \notin InPool /\ Step(r)
      /\ queue' = queue /\ held' = held /\ lost' = lost /\ probe' = probe /\ ahead' = ahead
  BY DEF Proceed
<1>2. PoolInv' /\ LineInv' /\ InPool' = InPool
  BY <1>1 DEF SInv, PoolInv, LineInv, InPool, Waiting, Before
<1>3. \A s \in Requests \ {r} : Queries(s)' = Queries(s)
  BY <1>1, OthersRest DEF SInv
<1>4. CallersInv'
  BY <1>1, <1>2, <1>3 DEF SInv, CallersInv
<1> QED BY <1>2, <1>4

LEMMA ReplyKeepsSInv ==
    ASSUME SInv, NEW r \in Requests, Reply(r)
    PROVE  PoolInv' /\ LineInv' /\ CallersInv'
<1>1. r \in held \ lost /\ Release(r) /\ Step(r) /\ probe' = probe
  BY DEF Reply
<1>2. PoolInv' /\ LineInv' /\ InPool' = InPool \ {r}
  BY <1>1, ReleasePool DEF SInv
<1>3. \A s \in Requests \ {r} : Queries(s)' = Queries(s)
  BY <1>1, OthersRest DEF SInv
<1>4. r \notin Probes
  BY ServiceAssumption
<1>5. CallersInv'
  BY <1>1, <1>2, <1>3, <1>4 DEF SInv, CallersInv
<1> QED BY <1>2, <1>5

LEMMA ProbeKeepsSInv ==
    ASSUME SInv, NEW p \in Probes, Probe(p)
    PROVE  PoolInv' /\ LineInv' /\ CallersInv'
<1>1. /\ p \in Callers /\ p \notin InPool /\ Submit(p) /\ req' = req
      /\ probe' = [probe EXCEPT ![p] = "waiting"] /\ ahead' = [ahead EXCEPT ![p] = Waiting]
  BY DEF Probe, Callers
<1>2. /\ PoolInv' /\ InPool' = InPool \cup {p}
      /\ \A x, y : Before(queue, x, y) => Before(queue, x, y)'
      /\ \A x \in Waiting : Before(queue, x, p)'
  BY <1>1, SubmitPool DEF SInv
<1>3. Waiting \subseteq Callers
  BY DEF SInv, PoolInv, Waiting, ToSet
<1>4. LineInv'
  BY <1>1, <1>2, <1>3 DEF SInv, LineInv
<1>5. \A r \in Requests : r # p
  BY ServiceAssumption
<1>6. CallersInv'
  BY <1>1, <1>2, <1>5 DEF SInv, CallersInv, Queries
<1> QED BY <1>2, <1>4, <1>6

LEMMA AnswerKeepsSInv ==
    ASSUME SInv, NEW p \in Probes, Answer(p)
    PROVE  PoolInv' /\ LineInv' /\ CallersInv'
<1>1. /\ p \in held \ lost /\ Release(p) /\ req' = req
      /\ probe' = [probe EXCEPT ![p] = Settled(p)]
  BY DEF Answer
<1>2. PoolInv' /\ LineInv' /\ InPool' = InPool \ {p}
  BY <1>1, ReleasePool DEF SInv
<1>3. Settled(p) \in {"idle", "ok", "unavailable"}
  BY DEF Settled, SInv, CallersInv
<1>4. CallersInv'
  BY <1>1, <1>2, <1>3 DEF SInv, CallersInv, Queries
<1> QED BY <1>2, <1>4

LEMMA NextSInv == SInv /\ [ServiceNext]_serviceVars => SInv'
<1> SUFFICES ASSUME SInv, [ServiceNext]_serviceVars PROVE SInv'
  OBVIOUS
<1>1. IInv'
  BY StepsOfAuthentication, StepIInv DEF SInv
<1>2. CASE Elsewhere
  <2>1. queue' = queue /\ held' = held /\ lost' = lost /\ probe' = probe /\ ahead' = ahead
    BY <1>2 DEF Elsewhere
  <2>2. PoolInv' /\ LineInv' /\ InPool' = InPool
    BY <2>1 DEF SInv, PoolInv, LineInv, InPool, Waiting, Before
  <2>3. CallersInv'
    BY <1>2, <2>1, <2>2, ElsewhereRests DEF SInv, CallersInv
  <2> QED BY <1>1, <2>2, <2>3 DEF SInv
<1>3. ASSUME NEW r \in Requests, Ask(r) \/ Proceed(r) \/ Reply(r) PROVE SInv'
  BY <1>1, <1>3, AskKeepsSInv, ProceedKeepsSInv, ReplyKeepsSInv DEF SInv
<1>4. ASSUME NEW p \in Probes, Probe(p) \/ Answer(p) PROVE SInv'
  BY <1>1, <1>4, ProbeKeepsSInv, AnswerKeepsSInv DEF SInv
<1>5. ASSUME NEW p \in Probes, TimerFires(p) PROVE SInv'
  BY <1>1, <1>5
     DEF TimerFires, SInv, PoolInv, LineInv, CallersInv, InPool, Waiting, Before, Queries
<1>6. ASSUME NEW q \in Callers, Lose(q) PROVE SInv'
  BY <1>1, <1>6
     DEF Lose, SInv, PoolInv, LineInv, CallersInv, InPool, Waiting, Before, Queries
<1>7. CASE UNCHANGED serviceVars
  <2>1. /\ queue' = queue /\ held' = held /\ lost' = lost /\ probe' = probe /\ ahead' = ahead
        /\ req' = req
    BY <1>7 DEF serviceVars, vars
  <2>2. PoolInv' /\ LineInv' /\ InPool' = InPool
    BY <2>1 DEF SInv, PoolInv, LineInv, InPool, Waiting, Before
  <2> QED BY <1>1, <2>1, <2>2 DEF SInv, CallersInv, Queries
<1> QED BY <1>2, <1>3, <1>4, <1>5, <1>6, <1>7 DEF ServiceNext

LEMMA Invariant == ServiceSpec => []SInv
BY InitSInv, NextSInv, PTL DEF ServiceSpec

-----------------------------------------------------------------------------
(* Requests, line, connections and probes always have their types. *)
THEOREM ServiceTypeCorrect == ServiceSpec => []ServiceTypeOK
<1>1. IInv => TypeOK
  BY DEF IInv, Sound, Idle, Request, Outcomes, TypeOK
<1>2. SInv => ServiceTypeOK
  BY <1>1 DEF SInv, PoolInv, LineInv, CallersInv, ServiceTypeOK
<1> QED BY <1>2, Invariant, PTL

(* "can this instance actually serve" (health.controller.ts:6): ok is said *)
(* only to a probe that still waits, by the database, and after all who    *)
(* stood before it have got a connection.                                  *)
THEOREM OkIsTruthful == ServiceSpec => ReadyIsTruthful
<1>1. ASSUME SInv, [ServiceNext]_serviceVars, NEW p \in Probes, probe'[p] = "ok", probe[p] # "ok"
      PROVE  probe[p] = "waiting" /\ up /\ ahead[p] = {}
  <2>1. Answer(p)
    <3>1. ASSUME probe' = probe PROVE FALSE
      BY <1>1, <3>1
    <3>2. ASSUME NEW o \in Probes, Probe(o) PROVE FALSE
      BY <1>1, <3>2 DEF Probe, SInv, CallersInv
    <3>3. ASSUME NEW o \in Probes, TimerFires(o) PROVE FALSE
      BY <1>1, <3>3 DEF TimerFires, SInv, CallersInv
    <3>4. ASSUME NEW o \in Probes, Answer(o) PROVE Answer(p)
      BY <1>1, <3>4 DEF Answer, SInv, CallersInv
    <3> QED BY <1>1, <3>1, <3>2, <3>3, <3>4
         DEF ServiceNext, Elsewhere, Ask, Proceed, Reply, Lose, serviceVars
  <2>2. probe[p] = "waiting" /\ up /\ p \in held
    BY <1>1, <2>1 DEF Answer, Settled, SInv, CallersInv
  <2>3. p \notin Waiting
    BY <1>1, <2>2 DEF SInv, PoolInv
  <2>4. \A x : ~ Before(queue, x, p)
    BY <2>3 DEF Before, Waiting, ToSet
  <2>5. ahead[p] = {}
    BY <1>1, <2>4 DEF SInv, LineInv
  <2> QED BY <2>2, <2>5
<1>2. SInv /\ [ServiceNext]_serviceVars =>
        [\A p \in Probes :
           (probe'[p] = "ok" /\ probe[p] # "ok") =>
               probe[p] = "waiting" /\ up /\ ahead[p] = {}]_serviceVars
  BY <1>1
<1> QED BY <1>2, Invariant, PTL DEF ServiceSpec, ReadyIsTruthful

-----------------------------------------------------------------------------
(* What requests are answered, however the pool delays and reorders their  *)
(* lookups and whichever of its connections are lost.                      *)

(* No request with a credential that was valid all along is answered 401,  *)
(* whatever failed in between.                                             *)
THEOREM OutageIsNever401 == ServiceSpec => []NoFalse401
<1>1. SInv => NoFalse401
  BY DEF SInv, IInv, NoFalse401, At, Sound, Idle
<1> QED BY <1>1, Invariant, PTL

(* No failure opens a guarded handler to a request without an actor.       *)
THEOREM GuardNeverFailsOpen == ServiceSpec => []GuardedHandlerHasActor
<1>1. SInv => GuardedHandlerHasActor
  BY DEF SInv, IInv, GuardedHandlerHasActor, At, Sound, Idle
<1> QED BY <1>1, Invariant, PTL

(* A request whose session is valid all along never acts as its agent.     *)
THEOREM SessionBeforeKey == ServiceSpec => []SessionGoesFirst
<1>1. SInv => SessionGoesFirst
  BY DEF SInv, IInv, SessionGoesFirst, Sound
<1> QED BY <1>1, Invariant, PTL

(* The middleware never refuses a request to an unguarded route.           *)
THEOREM MiddlewareNeverBlocks == ServiceSpec => []PublicNeverBlocked
<1>1. SInv => PublicNeverBlocked
  BY DEF SInv, IInv, PublicNeverBlocked, At, Sound
<1> QED BY <1>1, Invariant, PTL

(* A 503 to a request whose cookie the lookup does not throw on is owed to *)
(* a failure of the database while the request was served.                 *)
THEOREM EveryUnavailableHasCause == ServiceSpec => []UnavailableHasCause
<1>1. SInv => UnavailableHasCause
  BY DEF SInv, IInv, UnavailableHasCause, At, Sound, Idle
<1> QED BY <1>1, Invariant, PTL
=============================================================================
