------------------------------ MODULE Service ------------------------------
(***************************************************************************)
(* One instance of the service: the requests of Authentication and the     *)
(* readiness probes of HealthController share the pool of connections that *)
(* AppModule makes.  The pool has no timeout of its own: a query waits for *)
(* a connection, and then for its answer, as long as that takes, and an    *)
(* answer may never come.  Only the probe has a timer; when it fires, the  *)
(* probe is answered and its query stays where it is.                      *)
(*                                                                         *)
(* Every repository call that awaits the database is one query; the two    *)
(* statements of a touch, one after the other, are taken together.         *)
(* A probe sends no credentials.  GET /health/live reads and changes       *)
(* nothing here.                                                           *)
(***************************************************************************)
EXTENDS Authentication, Naturals, FiniteSets, SequencesExt

CONSTANTS
    Probes,  \* readiness probes that can be under way at once
    Size,    \* connections of the pool
    MaxLost  \* bound: queries the database may leave without an answer

VARIABLES
    queue,   \* queries waiting for a connection, first come first served
    held,    \* queries that have one
    lost,    \* those of held whose answer will never come
    probe,   \* what each probe has been told
    ahead    \* history: the queries that waited when a probe came and still do

ASSUME ServiceAssumption ==
    /\ Size \in Nat \ {0}
    /\ MaxLost \in Nat
    /\ Requests \cap Probes = {}

pool == <<queue, held, lost>>
serviceVars == <<vars, queue, held, lost, probe, ahead>>

Callers == Requests \cup Probes

ServiceInit ==
    /\ Init
    /\ queue = <<>>
    /\ held = {}
    /\ lost = {}
    /\ probe = [p \in Probes |-> "idle"]
    /\ ahead = [p \in Probes |-> {}]

-----------------------------------------------------------------------------
(* The pool. *)
Waiting == ToSet(queue)
InPool == Waiting \cup held

HasFree == Cardinality(held) < Size

(* pool.query(): a connection if one is free, or else the end of the line. *)
Submit(q) ==
    /\ IF HasFree THEN held' = held \cup {q} /\ UNCHANGED queue
                  ELSE queue' = Append(queue, q) /\ UNCHANGED held
    /\ UNCHANGED lost

(* The connection of q is returned and goes to the next in line. *)
Release(q) ==
    /\ IF queue = <<>>
         THEN held' = held \ {q} /\ UNCHANGED <<queue, ahead>>
         ELSE /\ held' = (held \ {q}) \cup {Head(queue)}
              /\ queue' = Tail(queue)
              /\ ahead' = [p \in Probes |-> ahead[p] \ {Head(queue)}]
    /\ UNCHANGED lost

(* The database or the network leaves a query without an answer. *)
Lose(q) ==
    /\ q \in held \ lost
    /\ Cardinality(lost) < MaxLost
    /\ lost' = lost \cup {q}
    /\ UNCHANGED <<up, valid, req, queue, held, probe, ahead>>

-----------------------------------------------------------------------------
(* Requests. *)

(* The request is at an await of the database. *)
Queries(r) ==
    \/ req[r].pc = "session" /\ req[r].cookie \in Tokens
    \/ req[r].pc = "touch"
    \/ req[r].pc = "agent" /\ req[r].bearer \in Keys

Ask(r) ==
    /\ Queries(r)
    /\ r \notin InPool
    /\ Submit(r)
    /\ UNCHANGED <<up, valid, req, probe, ahead>>

(* The steps that take no query; a session that is not stale is not saved. *)
Proceed(r) ==
    /\ ~ Queries(r) \/ req[r].pc = "touch"
    /\ r \notin InPool
    /\ Step(r)
    /\ UNCHANGED <<queue, held, lost, probe, ahead>>

(* The answer, or the error, of the query of r. *)
Reply(r) ==
    /\ r \in held \ lost
    /\ Release(r)
    /\ Step(r)
    /\ UNCHANGED probe

-----------------------------------------------------------------------------
(* GET /health/ready. *)
Probe(p) ==
    /\ probe[p] # "waiting"
    /\ p \notin InPool
    /\ Submit(p)
    /\ probe' = [probe EXCEPT ![p] = "waiting"]
    /\ ahead' = [ahead EXCEPT ![p] = Waiting]
    /\ UNCHANGED <<up, valid, req>>

\* Mutant: no timer.
TimerFiresNever(p) == FALSE /\ UNCHANGED serviceVars

(* withTimeout: the timer settles the promise first. *)
TimerFires(p) ==
    /\ probe[p] = "waiting"
    /\ probe' = [probe EXCEPT ![p] = "unavailable"]
    /\ UNCHANGED <<up, valid, req, queue, held, lost, ahead>>

\* Mutant: the answer overrules the timer.
SettledAnew(p) == IF up THEN "ok" ELSE "unavailable"

(* What an answer makes of the promise: nothing if the timer settled it.   *)
Settled(p) ==
    IF probe[p] = "waiting" THEN (IF up THEN "ok" ELSE "unavailable") ELSE probe[p]

(* The answer, or the error, of SELECT 1. *)
Answer(p) ==
    /\ p \in held \ lost
    /\ Release(p)
    /\ probe' = [probe EXCEPT ![p] = Settled(p)]
    /\ UNCHANGED <<up, valid, req>>

-----------------------------------------------------------------------------
(* The rest of Authentication does not touch the pool. *)
Elsewhere ==
    /\ \/ \E r \in Requests :
             \/ \E g \in BOOLEAN, c \in Tokens \cup BadCookies \cup {None},
                   b \in Keys \cup BadKeys \cup {None} : Arrive(r, g, c, b)
             \/ Finish(r)
       \/ Outage
       \/ \E c \in valid : Invalidate(c)
       \/ \E c \in (Tokens \cup Keys) \ valid : Validate(c)
    /\ UNCHANGED <<queue, held, lost, probe, ahead>>

ServiceNext ==
    \/ Elsewhere
    \/ \E r \in Requests : Ask(r) \/ Proceed(r) \/ Reply(r)
    \/ \E p \in Probes : Probe(p) \/ TimerFires(p) \/ Answer(p)
    \/ \E q \in Callers : Lose(q)

(* The process goes on, its timers fire, and every query that is not lost  *)
(* is answered.  Nothing is assumed of those that are lost, nor that any   *)
(* request or probe comes.                                                 *)
ServiceFairness ==
    /\ \A r \in Requests : WF_serviceVars(Ask(r) \/ Proceed(r)) /\ WF_serviceVars(Reply(r))
    /\ \A p \in Probes : WF_serviceVars(TimerFires(p)) /\ WF_serviceVars(Answer(p))

ServiceSpec == ServiceInit /\ [][ServiceNext]_serviceVars

FairServiceSpec == ServiceSpec /\ ServiceFairness

-----------------------------------------------------------------------------
(* Types. *)
ServiceTypeOK ==
    /\ TypeOK
    /\ queue \in Seq(Callers)
    /\ held \subseteq Callers
    /\ lost \subseteq held
    /\ probe \in [Probes -> {"idle", "waiting", "ok", "unavailable"}]
    /\ ahead \in [Probes -> SUBSET Callers]

(* GET /health/ready says ok to a probe only while that probe still waits, *)
(* only by an answer of the database, and only when every query that stood *)
(* in line before it has got a connection: "can this instance actually     *)
(* serve" (health.controller.ts:6).  After its timer fired it is told      *)
(* nothing more.                                                           *)
ReadyIsTruthful ==
    [][\A p \in Probes :
          (probe'[p] = "ok" /\ probe[p] # "ok") =>
              probe[p] = "waiting" /\ up /\ ahead[p] = {}]_serviceVars

Starved == lost = held /\ Cardinality(held) = Size

(* A probe is answered, whatever the database does: "returns 503 when it   *)
(* fails" (health.controller.ts:7-8), however it fails.  This is about     *)
(* probes without credentials: AuthMiddleware runs on GET /health/ready as *)
(* on every route (app.module.ts:153), so that a probe that sends a cookie *)
(* or a key first waits for the lookups of a request, which has no timer.  *)
ProbesAnswered == \A p \in Probes : probe[p] = "waiting" ~> probe[p] # "waiting"

(* A request is answered unless its own query is lost, or every connection *)
(* of the pool is: other requests and probes, those with hanging queries   *)
(* included, cannot keep it from a connection.                             *)
Served ==
    \A r \in Requests :
        req[r] # Idle ~>
            (req[r].pc \in Outcomes \cup {"idle"} \/ r \in lost \/ Starved)
=============================================================================
