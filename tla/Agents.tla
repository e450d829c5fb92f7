------------------------------- MODULE Agents -------------------------------
(***************************************************************************)
(* Agents and their API keys: the agents table, and the requests of        *)
(* AgentController that create an agent, rotate its key or deactivate it.  *)
(*                                                                         *)
(* Rotation and deactivation read the whole agent, change one field in     *)
(* memory and write the whole agent back, each an awaited statement of its *)
(* own; other requests run in between.  A key is 32 random bytes under a   *)
(* prefix; the stored hash stands for the key, so both are one record.     *)
(***************************************************************************)
CONSTANTS
    Users,      \* human actors
    Ids,        \* actor ids for agents
    Secrets,    \* the random parts of keys
    Prefixes,   \* prefixes of keys ("live", "test")
    Live,       \* the prefix "live"
    Asked,      \* prefixes creation is asked for: AgentController asks for Live
    Requests    \* HTTP requests served at once

ASSUME AgentsAssumption ==
    /\ Live \in Prefixes
    /\ Asked \subseteq Prefixes
    /\ Users \cap Ids = {}

VARIABLES
    table,      \* rows of agents joined with actors
    req,        \* what each request is doing
    generated,  \* history: every key made, for which agent, at whose request
    handed,     \* keys that reached a client in a response
    refused     \* history: creations the database refused

vars == <<table, req, generated, handed, refused>>

-----------------------------------------------------------------------------
Actors == Users \cup Ids

Key == [secret : Secrets, prefix : Prefixes]

Agent == [id : Ids, owner : Actors, key : Key, active : BOOLEAN]

Idle == [pc |-> "idle"]
Reading == [pc : {"read"}, op : {"rotate", "deactivate"}, by : Actors, id : Ids]
Writing == [pc : {"save", "rotate", "deactivate"}, by : Actors, agent : Agent]
Answering == [pc : {"created", "rotated", "deactivated"}, id : Ids, key : Key]

Start(r, q) == req' = [req EXCEPT ![r] = q]

\* The api_key_prefix column: save() writes a constant, update() leaves it.
StoredPrefix(x) == Live

FindByApiKeyPrefix(p) == {x \in table : StoredPrefix(x) = p}

\* Mutant: a cache of agents as they were whenever a key was made for them.
FindByIdCached(i) ==
    {[id |-> i, owner |-> g.by, key |-> g.key, active |-> TRUE] :
        g \in {h \in generated : h.agent = i}}

FindById(i) == {x \in table : x.id = i}

(* AuthenticateApiKeyUseCase and RequestAuthenticator.authenticateApiKey:  *)
(* by prefix, then the full hash, then the active flag.                    *)
Accepts(k) == \E x \in FindByApiKeyPrefix(k.prefix) : x.key = k /\ x.active

\* A user has a session (Sessions); an agent presents a key it was given.
Authenticated(a) ==
    \/ a \in Users
    \/ \E g \in generated : g.agent = a /\ g.key \in handed /\ Accepts(g.key)

\* Mutant: any authenticated caller may rotate.
MayRotateAnyone(x, a) == TRUE

MayRotate(x, a) == a \in {x.owner, x.id}

MayDeactivate(x, a) == a = x.owner

FreshKeys(p) == {[secret |-> s, prefix |-> p] : s \in Secrets \ {g.key.secret : g \in generated}}

\* Mutant: rotating the key enables the agent again.
RotatedEnabled(x, k) == [x EXCEPT !.key = k, !.active = TRUE]

\* Agent.rotateApiKey and Agent.deactivate.
Rotated(x, k) == [x EXCEPT !.key = k]

Deactivated(x) == [x EXCEPT !.active = FALSE]

\* Mutant: agent and caller swapped.
RecordSwapped(k, i, a) == generated' = generated \cup {[key |-> k, agent |-> a, by |-> i]}

Record(k, i, a) == generated' = generated \cup {[key |-> k, agent |-> i, by |-> a]}

-----------------------------------------------------------------------------
Init ==
    /\ table = {}
    /\ req = [r \in Requests |-> Idle]
    /\ generated = {}
    /\ handed = {}
    /\ refused = {}

(* CreateAgentUseCase.execute up to the write: a new agent of the caller,  *)
(* active, with a fresh key of the prefix asked for.                       *)
Create(r, a, p) ==
    /\ req[r] = Idle
    /\ Authenticated(a)
    /\ \E i \in Ids \ {g.agent : g \in generated}, k \in FreshKeys(p) :
          /\ Record(k, i, a)
          /\ Start(r, [pc |-> "save", by |-> a,
                       agent |-> [id |-> i, owner |-> a, key |-> k, active |-> TRUE]])
    /\ UNCHANGED <<table, handed, refused>>

\* Mutant: the column without its unique index.
PrefixFreeAlways(p) == TRUE

\* The unique index on api_key_prefix.
PrefixFree(p) == FindByApiKeyPrefix(p) = {}

(* AgentRepositoryDrizzle.save: one transaction, which the unique index    *)
(* may refuse; the use case lets that error through (a 500).               *)
Save(r) ==
    LET x == req[r].agent
    IN  /\ req[r].pc = "save"
        /\ \/ /\ PrefixFree(StoredPrefix(x))
              /\ table' = table \cup {x}
              /\ Start(r, [pc |-> "created", id |-> x.id, key |-> x.key])
              /\ UNCHANGED refused
           \/ /\ ~ PrefixFree(StoredPrefix(x))
              /\ refused' = refused \cup {x.id}
              /\ Start(r, Idle)
              /\ UNCHANGED table
        /\ UNCHANGED <<generated, handed>>

(* A rotate or deactivate request passes the AuthGuard. *)
Arrive(r, op, a, i) ==
    /\ req[r] = Idle
    /\ Authenticated(a)
    /\ Start(r, [pc |-> "read", op |-> op, by |-> a, id |-> i])
    /\ UNCHANGED <<table, generated, handed, refused>>

(* rotateApiKey: read, check, put a fresh key of prefix "live" in the copy. *)
ReadToRotate(r) ==
    LET q == req[r]
    IN  /\ q.pc = "read" /\ q.op = "rotate"
        /\ \E x \in FindById(q.id) :
              /\ MayRotate(x, q.by)
              /\ \E k \in FreshKeys(Live) :
                    /\ Record(k, x.id, q.by)
                    /\ Start(r, [pc |-> "rotate", by |-> q.by,
                                 agent |-> Rotated(x, k)])
        /\ UNCHANGED <<table, handed, refused>>

(* deactivateAgent: read, check, clear the flag in the copy; an agent that *)
(* is already inactive makes deactivate() throw.                           *)
ReadToDeactivate(r) ==
    LET q == req[r]
    IN  /\ q.pc = "read" /\ q.op = "deactivate"
        /\ \E x \in FindById(q.id) :
              /\ MayDeactivate(x, q.by)
              /\ x.active
              /\ Start(r, [pc |-> "deactivate", by |-> q.by,
                           agent |-> Deactivated(x)])
        /\ UNCHANGED <<table, generated, handed, refused>>

(* 404, 403, or the throw of deactivate(). *)
Reject(r) ==
    LET q == req[r]
    IN  /\ q.pc = "read"
        /\ \A x \in FindById(q.id) :
              IF q.op = "rotate" THEN ~ MayRotate(x, q.by)
                                 ELSE ~ (MayDeactivate(x, q.by) /\ x.active)
        /\ Start(r, Idle)
        /\ UNCHANGED <<table, generated, handed, refused>>

(* AgentRepositoryDrizzle.update: one transaction writes key and flag from *)
(* the copy.                                                               *)
Update(r) ==
    LET e == req[r].agent
    IN  /\ req[r].pc \in {"rotate", "deactivate"}
        /\ table' = {IF x.id = e.id
                       THEN [x EXCEPT !.key = e.key, !.active = e.active, !.owner = e.owner]
                       ELSE x : x \in table}
        /\ Start(r, [pc |-> IF req[r].pc = "rotate" THEN "rotated" ELSE "deactivated",
                     id |-> e.id, key |-> e.key])
        /\ UNCHANGED <<generated, handed, refused>>

(* The response: creation and rotation hand out the plain key. *)
Answer(r) ==
    LET q == req[r]
    IN  /\ q.pc \in {"created", "rotated", "deactivated"}
        /\ handed' = IF q.pc = "deactivated" THEN handed ELSE handed \cup {q.key}
        /\ Start(r, Idle)
        /\ UNCHANGED <<table, generated, refused>>

(* A statement fails, the process dies, or the response is lost: whatever  *)
(* was written stays, and the rest of the request does not happen.         *)
Abort(r) ==
    /\ req[r] # Idle
    /\ Start(r, Idle)
    /\ UNCHANGED <<table, generated, handed, refused>>

Next ==
    \E r \in Requests :
        \/ \E a \in Actors, p \in Asked : Create(r, a, p)
        \/ Save(r)
        \/ \E op \in {"rotate", "deactivate"}, a \in Actors, i \in Ids : Arrive(r, op, a, i)
        \/ ReadToRotate(r)
        \/ ReadToDeactivate(r)
        \/ Reject(r)
        \/ Update(r)
        \/ Answer(r)
        \/ Abort(r)

Spec == Init /\ [][Next]_vars

-----------------------------------------------------------------------------
(* Types. *)
TypeOK ==
    /\ table \subseteq Agent
    /\ req \in [Requests -> {Idle} \cup Reading \cup Writing \cup Answering]
    /\ generated \subseteq [key : Key, agent : Ids, by : Actors]
    /\ handed \subseteq Key
    /\ refused \subseteq Ids

(* Whatever the interleaving of reads and whole-row writes, the key of a   *)
(* stored agent was made for that agent, at the request of its owner or of *)
(* the agent itself (agent.controller.ts:148).                             *)
KeyFromOwnerOrSelf ==
    \A x \in table : \E g \in generated :
        g.key = x.key /\ g.agent = x.id /\ g.by \in {x.owner, x.id}

(* The lookup by prefix finds at most one agent, so its LIMIT 1 never      *)
(* picks among several (agent.repository.drizzle.ts:112-120).              *)
LookupIsDeterministic == \A p \in Prefixes : \A x, y \in FindByApiKeyPrefix(p) : x = y

HoldsCopy(r) == req[r].pc \in {"save", "rotate", "deactivate"}

DeadKey(k) ==
    /\ \A x \in table : x.key # k
    /\ \A r \in Requests : HoldsCopy(r) => req[r].agent.key # k

(* A key that is in no row and in no request's copy is dead for good: only *)
(* a request in flight can bring back a key that was rotated away.         *)
DeadKeyStaysDead == [][\A g \in generated : DeadKey(g.key) => DeadKey(g.key)']_vars

TurnedOff(i) ==
    /\ \E x \in table : x.id = i
    /\ \A x \in table : x.id = i => ~ x.active
    /\ \A r \in Requests : (HoldsCopy(r) /\ req[r].agent.id = i) => ~ req[r].agent.active

(* An agent found inactive stays inactive once no request holds an active  *)
(* copy of it: there is no endpoint that activates.                        *)
InactiveStaysInactive == [][\A i \in Ids : TurnedOff(i) => TurnedOff(i)']_vars

(* POST /agents creates a new agent (agent.controller.ts:75, "Create a new *)
(* agent."): the database never refuses one.                               *)
NoCreationRefused == refused = {}
=============================================================================
