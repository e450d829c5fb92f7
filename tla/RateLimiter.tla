----------------------------- MODULE RateLimiter -----------------------------
(***************************************************************************)
(* InMemoryRateLimitStore and RateLimitGuard: one map from keys (ip:path)  *)
(* to counters, renewed when a request finds them expired and evicted by a *)
(* timer.  The handlers are synchronous, so each is one action; their      *)
(* order, and that of the timer and the clock, is arbitrary.               *)
(***************************************************************************)
EXTENDS Integers, Sequences

CONSTANTS
    Keys,
    MaxRequests,   \* maxRequests
    Window,        \* windowMs
    Second,        \* clock units to a second
    NoEntry,       \* a key that is not in the map
    MaxTime,       \* bound of the clock
    MaxCount       \* bound of a counter

Entry == [count : Nat, resetAt : Nat]

OpenWindows == [until : Nat, used : Nat]

ASSUME LimiterAssumption ==
    /\ MaxRequests \in Nat \ {0}
    /\ Window \in Nat \ {0}
    /\ Second \in Nat \ {0}
    /\ MaxTime \in Nat
    /\ MaxCount \in Nat
    /\ NoEntry \notin Entry \cup OpenWindows

VARIABLES
    now,
    entries,    \* the map
    answer,     \* the last answer: status and headers
    admitted    \* history: when each key was admitted since it was forgotten

vars == <<now, entries, answer, admitted>>

-----------------------------------------------------------------------------
Init ==
    /\ now = 0
    /\ entries = [k \in Keys |-> NoEntry]
    /\ answer = {}
    /\ admitted = [k \in Keys |-> <<>>]

Tracked(k) == entries[k] # NoEntry

Expired(k) == now >= entries[k].resetAt

\* increment: a new window for an absent or expired entry.
Counted(k) ==
    IF ~ Tracked(k) \/ Expired(k)
      THEN [count |-> 1, resetAt |-> now + Window]
      ELSE [entries[k] EXCEPT !.count = entries[k].count + 1]

\* Mutant: one request too many.
AdmitsOneMore(e) == e.count <= MaxRequests + 1

Admits(e) == e.count <= MaxRequests

\* Mutant: without Math.max.
RemainingRaw(e) == MaxRequests - e.count

Remaining(e) == IF e.count <= MaxRequests THEN MaxRequests - e.count ELSE 0

\* Mutant: rounded down.
RetryAfterFloor(e) == IF e.resetAt - now < Second THEN 1 ELSE (e.resetAt - now) \div Second

\* Retry-After, in seconds, rounded up and at least 1.
RetryAfter(e) == IF e.resetAt <= now THEN 1 ELSE (e.resetAt - now + Second - 1) \div Second

(* RateLimitGuard.canActivate. *)
Request(k) ==
    LET e == Counted(k)
    IN  /\ e.count <= MaxCount
        /\ entries' = [entries EXCEPT ![k] = e]
        /\ answer' = {[key |-> k, admitted |-> Admits(e), remaining |-> Remaining(e),
                       resetAt |-> e.resetAt, retryAt |-> now + Second * RetryAfter(e)]}
        /\ admitted' = IF Admits(e) THEN [admitted EXCEPT ![k] = Append(@, now)] ELSE admitted
        /\ UNCHANGED now

\* Mutants: the comparison turned round, and only keys over the limit.
SweepsFresh(k) == Tracked(k) /\ now <= entries[k].resetAt
SweepsFull(k) == Tracked(k) /\ Expired(k) /\ entries[k].count > MaxRequests

Sweeps(k) == Tracked(k) /\ Expired(k)

(* sweep, on the timer; it changes nothing when nothing has expired. *)
Sweep ==
    /\ \E k \in Keys : Sweeps(k)
    /\ entries' = [k \in Keys |-> IF Sweeps(k) THEN NoEntry ELSE entries[k]]
    /\ UNCHANGED <<now, answer, admitted>>

Forget(K) ==
    /\ entries' = [k \in Keys |-> IF k \in K THEN NoEntry ELSE entries[k]]
    /\ admitted' = [k \in Keys |-> IF k \in K THEN <<>> ELSE admitted[k]]
    /\ UNCHANGED <<now, answer>>

(* delete *)
Delete(k) == Forget({k})

(* clear, and what a restart of the process does to the map. *)
Clear == Forget(Keys)

Tick ==
    /\ now < MaxTime
    /\ now' = now + 1
    /\ UNCHANGED <<entries, answer, admitted>>

Next ==
    \/ \E k \in Keys : Request(k) \/ Delete(k)
    \/ Sweep
    \/ Clear
    \/ Tick

(* setInterval fires again and again while the process runs. *)
Fairness == WF_vars(Sweep)

Spec == Init /\ [][Next]_vars

FairSpec == Spec /\ Fairness

-----------------------------------------------------------------------------
(* Types. *)
TypeOK ==
    /\ now \in Nat
    /\ entries \in [Keys -> Entry \cup {NoEntry}]
    /\ answer \subseteq [key : Keys, admitted : BOOLEAN, remaining : Nat,
                         resetAt : Nat, retryAt : Nat]
    /\ admitted \in [Keys -> Seq(Nat)]

\* The window that an entry stands for.
OpenWindow(k) ==
    IF Tracked(k) /\ ~ Expired(k)
      THEN [until |-> entries[k].resetAt,
            used |-> IF entries[k].count <= MaxRequests THEN entries[k].count ELSE MaxRequests]
      ELSE NoEntry

Promise == INSTANCE FixedWindow WITH
    Closed <- NoEntry,
    window <- [k \in Keys |-> OpenWindow(k)],
    answer <- {[key |-> a.key, admitted |-> a.admitted, remaining |-> a.remaining] : a \in answer}

(* The map, its stale entries, renewal and sweeping amount to one fixed    *)
(* window per key, which is what the code keeps and not the sliding one    *)
(* that its comment names (SlidingWindow): an entry that has expired is as *)
(* good as none, so it never matters to any request when or whether the    *)
(* sweep ran.                                                              *)
FixedWindows == Promise!Spec

(* Whatever the alignment of windows, sweeps and renewals, any 2 x         *)
(* MaxRequests + 1 successive admissions of a key span a whole window: at  *)
(* most twice the limit is admitted in any time shorter than the window.   *)
TwiceAtMost ==
    \A k \in Keys : \A i \in 1 .. Len(admitted[k]) :
        i + 2 * MaxRequests <= Len(admitted[k]) =>
            admitted[k][i + 2 * MaxRequests] - admitted[k][i] >= Window

(* "Tracks request counts per key with a sliding window"                   *)
(* (rate-limit.middleware.ts:37): no more than MaxRequests of a key are    *)
(* admitted in any time shorter than the window.                           *)
SlidingWindow ==
    \A k \in Keys : \A i \in 1 .. Len(admitted[k]) - MaxRequests :
        admitted[k][i + MaxRequests] - admitted[k][i] >= Window

(* A client told to retry after some seconds no longer meets, after that   *)
(* time, the window that refused it.                                       *)
RetryIsEnough ==
    \A a \in answer :
        (~ a.admitted /\ now >= a.retryAt /\ Tracked(a.key)) =>
            Expired(a.key) \/ entries[a.key].resetAt > a.resetAt

(* The store does not grow without bound over the life of the process      *)
(* (rate-limit.middleware.ts:39-41): an expired entry is evicted or        *)
(* renewed, even if its client never comes back.                           *)
ExpiredAreEvicted ==
    \A k \in Keys : (Tracked(k) /\ Expired(k)) ~> ~ (Tracked(k) /\ Expired(k))
=============================================================================
