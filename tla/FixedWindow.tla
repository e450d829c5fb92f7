----------------------------- MODULE FixedWindow -----------------------------
(***************************************************************************)
(* What the rate limiter keeps, with no map, no stale entries and no       *)
(* sweeping: every key has at most one window, open for a fixed time from  *)
(* the request that opened it, and each window admits a fixed number of    *)
(* requests.  This is less than the sliding window of the store's comment  *)
(* (RateLimiter!SlidingWindow), which would bound any span of that length. *)
(* A window closes when its time is up or the limiter is told to forget    *)
(* the key, and then its history goes with it: it is never just dropped.   *)
(***************************************************************************)
EXTENDS Integers, Sequences

CONSTANTS Keys, MaxRequests, Window, Closed

VARIABLES
    now,
    window,   \* per key: Closed, or until when it is open and how much is used
    answer,   \* the last answer: the key, and whether the request was admitted
    admitted  \* when each key was admitted, since the limiter was told to forget it

vars == <<now, window, answer, admitted>>

Windows == [until : Nat, used : Nat]

Init ==
    /\ now = 0
    /\ window = [k \in Keys |-> Closed]
    /\ answer = {}
    /\ admitted = [k \in Keys |-> <<>>]

\* The window a request of key k falls in.
Current(k) == IF window[k] = Closed THEN [until |-> now + Window, used |-> 0] ELSE window[k]

Admit(k) ==
    /\ Current(k).used < MaxRequests
    /\ window' = [window EXCEPT ![k] = [until |-> Current(k).until, used |-> Current(k).used + 1]]
    /\ answer' = {[key |-> k, admitted |-> TRUE, remaining |-> MaxRequests - Current(k).used - 1]}
    /\ admitted' = [admitted EXCEPT ![k] = Append(@, now)]
    /\ UNCHANGED now

Refuse(k) ==
    /\ Current(k).used = MaxRequests
    /\ answer' = {[key |-> k, admitted |-> FALSE, remaining |-> 0]}
    /\ UNCHANGED <<now, window, admitted>>

\* The limiter may be told to forget keys; a restart forgets them all.
Forget(K) ==
    /\ window' = [k \in Keys |-> IF k \in K THEN Closed ELSE window[k]]
    /\ admitted' = [k \in Keys |-> IF k \in K THEN <<>> ELSE admitted[k]]
    /\ UNCHANGED <<now, answer>>

\* Time passes, and windows close on time.
Tick ==
    /\ now' = now + 1
    /\ window' = [k \in Keys |-> IF window[k] # Closed /\ window[k].until <= now'
                                   THEN Closed ELSE window[k]]
    /\ UNCHANGED <<answer, admitted>>

Next ==
    \/ \E k \in Keys : Admit(k) \/ Refuse(k)
    \/ \E K \in SUBSET Keys : Forget(K)
    \/ Tick

Spec == Init /\ [][Next]_vars
=============================================================================
