------------------------- MODULE PermissionChecker -------------------------
(***************************************************************************)
(* MockPermissionChecker, the permission checker that other modules test   *)
(* against: the checkers that the tests of one process make, use and       *)
(* reset.  Arrays of permissions are shared by reference: every checker    *)
(* starts with the arrays of DEFAULT_ACTOR_PERMISSIONS and of the caller's *)
(* configuration, and grantPermission and revokePermission change arrays   *)
(* in place.                                                               *)
(***************************************************************************)
EXTENDS FiniteSets

CONSTANTS
    Checkers, Actors, Permissions, Scopes,
    None,       \* no permission: {None} is an undefined list
    Default,    \* owner of the arrays of DEFAULT_ACTOR_PERMISSIONS
    Config,     \* owner of what the caller configured checkers with
    Defaults,   \* permissions of each actor, or Undefined
    Configured, \* the same in the caller's configuration
    Inactive    \* the inactive actors of the fixtures

Lists == SUBSET Permissions
Undefined == {None}
ListOrNone == Lists \cup {Undefined}

ASSUME PermissionCheckerAssumption ==
    /\ None \notin Permissions
    /\ Default # Config /\ Default \notin Checkers /\ Config \notin Checkers
    /\ Defaults \in [Actors -> ListOrNone]
    /\ Configured \in [Actors -> ListOrNone]
    /\ Inactive \subseteq Actors

VARIABLES
    array,     \* the array of an owner for an actor
    ref,       \* whose array a checker has for an actor
    scoped,    \* an owner's scoped permissions of an actor, by scope
    scopes,    \* whose scoped permissions a checker has
    deny,      \* denyInactiveActors
    inactive,  \* inactiveActorIds
    used,      \* history: actors named in a call since the construction or reset
    replaced,  \* history: those whose permissions were set, cleared or configured
    touched    \* history: actors granted or revoked permissions not replaced before

vars == <<array, ref, scoped, scopes, deny, inactive, used, replaced, touched>>

Owners == Checkers \cup {Default, Config}

NoScopes == [s \in Scopes |-> Undefined]

-----------------------------------------------------------------------------
(* actorPermissions[actorId] *)
Global(c, a) == array[ref[c][a]][a]

(* canActor with and without a scope. *)
Denied(c, a) == deny[c] /\ a \in inactive[c]

Can(c, a, p) == ~ Denied(c, a) /\ p \in Global(c, a)

CanIn(c, a, p, s) ==
    LET list == scoped[scopes[c]][a][s]
    IN  IF list = Undefined THEN Can(c, a, p) ELSE ~ Denied(c, a) /\ p \in list

-----------------------------------------------------------------------------
(* Whose array { ...DEFAULT_ACTOR_PERMISSIONS, ...actorPermissions } has   *)
(* for an actor; undefined is an empty place of the checker's own.         *)
Start(c, a, configured) ==
    IF configured /\ Configured[a] # Undefined THEN Config
    ELSE IF Defaults[a] # Undefined THEN Default ELSE c

Init ==
    /\ array = [o \in Owners |-> CASE o = Default -> Defaults
                                   [] o = Config -> Configured
                                   [] OTHER -> [a \in Actors |-> Undefined]]
    /\ scoped = [o \in Owners |-> [a \in Actors |-> NoScopes]]
    /\ ref = [c \in Checkers |-> [a \in Actors |-> Start(c, a, FALSE)]]
    /\ scopes = [c \in Checkers |-> c]
    /\ deny = [c \in Checkers |-> TRUE]
    /\ inactive = [c \in Checkers |-> Inactive]
    /\ used = [c \in Checkers |-> {}]
    /\ replaced = [c \in Checkers |-> {}]
    /\ touched = {}

(* The maps of a checker are new, their arrays are not. *)
Fill(c, configured) ==
    /\ array' = [array EXCEPT ![c] = [a \in Actors |-> Undefined]]
    /\ ref' = [ref EXCEPT ![c] = [a \in Actors |-> Start(c, a, configured)]]
    /\ scoped' = [scoped EXCEPT ![c] = [a \in Actors |-> NoScopes]]
    /\ scopes' = [scopes EXCEPT ![c] = IF configured THEN Config ELSE c]
    /\ inactive' = [inactive EXCEPT ![c] = Inactive]
    /\ used' = [used EXCEPT ![c] = {}]
    /\ replaced' = [replaced EXCEPT ![c] =
                      {a \in Actors : configured /\ Configured[a] # Undefined}]
    /\ UNCHANGED touched

(* new MockPermissionChecker(), or with the configuration. *)
New(c, configured, denyInactive) ==
    /\ Fill(c, configured)
    /\ deny' = [deny EXCEPT ![c] = denyInactive]

Reset(c) ==
    /\ Fill(c, FALSE)
    /\ UNCHANGED deny

(* Of every call: history. *)
Names(c, a) == used' = [used EXCEPT ![c] = @ \cup {a}]

(* In place, in the array the checker happens to have. *)
Change(c, a, list) ==
    /\ array' = [array EXCEPT ![ref[c][a]][a] = list]
    /\ touched' = IF a \in replaced[c] THEN touched ELSE touched \cup {a}
    /\ Names(c, a)
    /\ UNCHANGED <<ref, scoped, scopes, deny, inactive, replaced>>

ChangeIn(c, a, s, list) ==
    /\ scoped' = [scoped EXCEPT ![scopes[c]][a][s] = list]
    /\ Names(c, a)
    /\ UNCHANGED <<array, ref, scopes, deny, inactive, replaced, touched>>

\* An undefined list becomes an array.
More(list, p) == (list \ Undefined) \cup {p}

GrantPermission(c, a, p) ==
    Change(c, a, More(Global(c, a), p))

GrantPermissionIn(c, a, p, s) ==
    ChangeIn(c, a, s, More(scoped[scopes[c]][a][s], p))

\* An undefined list stays undefined; an emptied one denies.
Less(list, p) == list \ {p}

RevokePermission(c, a, p) == Change(c, a, Less(Global(c, a), p))

RevokePermissionIn(c, a, p, s) == ChangeIn(c, a, s, Less(scoped[scopes[c]][a][s], p))

\* Mutant: the array is emptied and filled, as by length = 0 and push.
ReplaceInPlace(c, a, list) ==
    /\ array' = [array EXCEPT ![ref[c][a]][a] = list]
    /\ replaced' = [replaced EXCEPT ![c] = @ \cup {a}]
    /\ Names(c, a)
    /\ UNCHANGED <<ref, scopes, deny, inactive, touched>>

(* A new array. *)
Replace(c, a, list) ==
    /\ array' = [array EXCEPT ![c][a] = list]
    /\ ref' = [ref EXCEPT ![c][a] = c]
    /\ replaced' = [replaced EXCEPT ![c] = @ \cup {a}]
    /\ Names(c, a)
    /\ UNCHANGED <<scopes, deny, inactive, touched>>

SetPermissions(c, a, list) ==
    /\ Replace(c, a, list)
    /\ UNCHANGED scoped

ClearPermissions(c, a) ==
    /\ Replace(c, a, {})
    /\ scoped' = [scoped EXCEPT ![scopes[c]][a] = NoScopes]

MarkInactive(c, a) ==
    /\ inactive' = [inactive EXCEPT ![c] = @ \cup {a}]
    /\ Names(c, a)
    /\ UNCHANGED <<array, ref, scoped, scopes, deny, replaced, touched>>

MarkActive(c, a) ==
    /\ inactive' = [inactive EXCEPT ![c] = @ \ {a}]
    /\ Names(c, a)
    /\ UNCHANGED <<array, ref, scoped, scopes, deny, replaced, touched>>

Next ==
    \E c \in Checkers :
        \/ \E configured, denyInactive \in BOOLEAN : New(c, configured, denyInactive)
        \/ Reset(c)
        \/ \E a \in Actors :
              \/ \E p \in Permissions :
                    \/ GrantPermission(c, a, p) \/ RevokePermission(c, a, p)
                    \/ \E s \in Scopes :
                          GrantPermissionIn(c, a, p, s) \/ RevokePermissionIn(c, a, p, s)
              \/ \E list \in Lists : SetPermissions(c, a, list)
              \/ ClearPermissions(c, a) \/ MarkInactive(c, a) \/ MarkActive(c, a)

Spec == Init /\ [][Next]_vars

-----------------------------------------------------------------------------
TypeOK ==
    /\ array \in [Owners -> [Actors -> ListOrNone]]
    /\ ref \in [Checkers -> [Actors -> Owners]]
    /\ scoped \in [Owners -> [Actors -> [Scopes -> ListOrNone]]]
    /\ scopes \in [Checkers -> Owners]
    /\ deny \in [Checkers -> BOOLEAN]
    /\ inactive \in [Checkers -> SUBSET Actors]
    /\ used \in [Checkers -> SUBSET Actors]
    /\ replaced \in [Checkers -> SUBSET Actors]
    /\ touched \subseteq Actors

(* What "Reset the mock to default state" (permission-checker.mock.ts:233) *)
(* is worth: a checker constructed without configuration, or reset,        *)
(* answers by the defaults for every actor it has not been told of since,  *)
(* in every scope, whatever the other checkers did and it did itself       *)
(* before, provided that permissions of that actor were granted or revoked *)
(* only after setPermissions, clearPermissions or a configuration had      *)
(* given the checker at hand an array of its own.                          *)
ResetRestoresUntouched ==
    \A c \in Checkers, a \in Actors \ touched, p \in Permissions, s \in Scopes :
        (scopes[c] # Config /\ a \notin used[c]) =>
            LET default == p \in Defaults[a] /\ ~ (deny[c] /\ a \in Inactive)
            IN  /\ Can(c, a, p) = default
                /\ CanIn(c, a, p, s) = default

(* A call changes the permissions of an actor in two checkers at once only *)
(* if neither has had them replaced, or both were made from one            *)
(* configuration and share its arrays; scoped permissions only in the      *)
(* latter case (permission-checker.mock.ts:91-95, 153-188).                *)
SharedOnlyIfNeverReplaced ==
    [][\A c, d \in Checkers, a \in Actors :
          c # d =>
            /\ (Global(c, a)' # Global(c, a) /\ Global(d, a)' # Global(d, a)) =>
                  \/ a \notin replaced[c] \cup replaced[d]
                  \/ scopes[c] = Config /\ scopes[d] = Config
            /\ (scoped[scopes[c]][a]' # scoped[scopes[c]][a]
                  /\ scoped[scopes[d]][a]' # scoped[scopes[d]][a]) =>
                  scopes[c] = Config /\ scopes[d] = Config]_vars
=============================================================================
