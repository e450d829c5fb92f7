---------------------------- MODULE SessionStore ----------------------------
(***************************************************************************)
(* What the SessionRepository port promises, and where save() falls short  *)
(* of it: a store whose every change is one step, with no statement in     *)
(* between, no copy in the memory of a request and no failure.  A session  *)
(* is stored once, as it was created, a successor only after the session   *)
(* it replaces has been ended; its bookkeeping is renewed; it is ended, by *)
(* itself or with all of its actor.  A session that ended may come back,   *)
(* but only as it was, and only if it had gone stale.                      *)
(***************************************************************************)
EXTENDS Integers

CONSTANTS Actors, TouchInterval

VARIABLES
    rows,  \* the sessions that are stored
    past   \* what could not change of the sessions that were ended

vars == <<rows, past>>

OriginOf(s) == [id |-> s.id, actor |-> s.actor, createdAt |-> s.createdAt,
                expiresAt |-> s.expiresAt, parent |-> s.parent, root |-> s.root]

IsStored(i) == \E s \in rows : s.id = i
HasEnded(i) == \E o \in past : o.id = i

\* Authenticated again, at least the interval after it was created.
Aged(s) == s.lastAccessedAt >= s.createdAt + TouchInterval

Init == rows = {} /\ past = {}

-----------------------------------------------------------------------------
\* A login starts a line of sessions; a rotation continues that of a
\* session of the same actor which has been ended.
Starts(s) == s.parent = s.id /\ s.root = s.id
Continues(s) ==
    \E o \in past : o.id = s.parent /\ o.actor = s.actor /\ o.root = s.root

Create(s) ==
    /\ ~ IsStored(s.id) /\ ~ HasEnded(s.id)
    /\ s.lastAccessedAt = s.createdAt
    /\ Starts(s) \/ Continues(s)
    /\ rows' = rows \cup {s}
    /\ UNCHANGED past

Touch(s, t) ==
    /\ OriginOf(t) = OriginOf(s)
    /\ Aged(t)
    /\ rows' = (rows \ {s}) \cup {t}
    /\ UNCHANGED past

End(ended) ==
    /\ rows' = rows \ ended
    /\ past' = past \cup {OriginOf(s) : s \in ended}

Return(s) ==
    /\ ~ IsStored(s.id)
    /\ OriginOf(s) \in past
    /\ Aged(s)
    /\ rows' = rows \cup {s}
    /\ UNCHANGED past

Next ==
    \/ \E s \in rows' : Create(s) \/ Return(s)
    \/ \E s \in rows, t \in rows' : Touch(s, t)
    \/ \E s \in rows : End({s})
    \/ \E a \in Actors : End({s \in rows : s.actor = a})

Spec == Init /\ [][Next]_vars
=============================================================================
