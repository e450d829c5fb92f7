---------------------- MODULE PermissionCheckerProofs ----------------------
(***************************************************************************)
(* Theorems about PermissionChecker, for every number of checkers, actors, *)
(* permissions and scopes, and every set of defaults and configurations.   *)
(*                                                                         *)
(* All of them rest on where an array can come from: a checker has arrays  *)
(* of its own, of the defaults or of the configuration, never those of     *)
(* another checker, and none of the defaults once they were replaced.      *)
(***************************************************************************)
EXTENDS PermissionChecker, TLAPS

Refs(c, a) ==
    /\ ref[c][a] \in {c, Default, Config}
    /\ a \in replaced[c] => ref[c][a] # Default
    /\ ref[c][a] = Config => scopes[c] = Config

\* What a checker has for an actor it has not been told of.
Untold(c, a) ==
    (a \notin used[c] /\ scopes[c] # Config) =>
        /\ ref[c][a] = Start(c, a, FALSE)
        /\ ref[c][a] = c => array[c][a] = Undefined
        /\ scoped[c][a] = NoScopes
        /\ a \in inactive[c] <=> a \in Inactive

IInv ==
    /\ TypeOK
    /\ \A c \in Checkers : scopes[c] \in {c, Config}
    /\ \A c \in Checkers, a \in Actors : Refs(c, a) /\ Untold(c, a)
    /\ \A a \in Actors \ touched : array[Default][a] = Defaults[a]

-----------------------------------------------------------------------------
(* Owners, lists, and one array or scope set to another list. *)
LEMMA OwnersDiffer ==
    /\ Default \in Owners /\ Config \in Owners /\ Default # Config
    /\ \A c \in Checkers : c \in Owners /\ c # Default /\ c # Config
BY PermissionCheckerAssumption DEF Owners

LEMMA ListTypes ==
    /\ Undefined \in ListOrNone /\ \A l \in Lists : l \in ListOrNone
    /\ \A l \in ListOrNone, p \in Permissions :
          More(l, p) \in ListOrNone /\ Less(l, p) \in ListOrNone
<1>1. ASSUME NEW l \in ListOrNone, NEW p \in Permissions
      PROVE  More(l, p) \in Lists
  BY DEF ListOrNone, Lists, Undefined, More
<1>2. ASSUME NEW l \in ListOrNone, NEW p \in Permissions
      PROVE  Less(l, p) \in ListOrNone
  <2>1. CASE l = Undefined
    BY <2>1, PermissionCheckerAssumption DEF Less, ListOrNone, Undefined
  <2>2. CASE l \in Lists
    BY <2>2 DEF Less, ListOrNone, Lists
  <2> QED BY <2>1, <2>2 DEF ListOrNone
<1> QED BY <1>1, <1>2 DEF ListOrNone

LEMMA StartTypes ==
    ASSUME NEW c \in Checkers, NEW a \in Actors, NEW configured \in BOOLEAN
    PROVE  /\ Start(c, a, configured) \in {c, Default, Config}
           /\ Start(c, a, configured) \in Owners
           /\ Start(c, a, configured) = Config <=> configured /\ Configured[a] # Undefined
BY OwnersDiffer DEF Start

LEMMA ArraySet ==
    ASSUME TypeOK, NEW o \in Owners, NEW a \in Actors, NEW l \in ListOrNone,
           array' = [array EXCEPT ![o][a] = l]
    PROVE  /\ array' \in [Owners -> [Actors -> ListOrNone]]
           /\ \A p \in Owners, b \in Actors :
                 array'[p][b] = IF p = o /\ b = a THEN l ELSE array[p][b]
BY DEF TypeOK

LEMMA ScopeSet ==
    ASSUME TypeOK, NEW o \in Owners, NEW a \in Actors, NEW s \in Scopes, NEW l \in ListOrNone,
           scoped' = [scoped EXCEPT ![o][a][s] = l]
    PROVE  /\ scoped' \in [Owners -> [Actors -> [Scopes -> ListOrNone]]]
           /\ \A p \in Owners, b \in Actors :
                 (p # o \/ b # a) => scoped'[p][b] = scoped[p][b]
BY DEF TypeOK

-----------------------------------------------------------------------------
(* A checker is made anew or reset. *)
LEMMA FillKeepsIInv ==
    ASSUME IInv, NEW c \in Checkers, NEW configured \in BOOLEAN, Fill(c, configured),
           deny' \in [Checkers -> BOOLEAN]
    PROVE  IInv'
<1>1. /\ array' = [array EXCEPT ![c] = [a \in Actors |-> Undefined]]
      /\ ref' = [ref EXCEPT ![c] = [a \in Actors |-> Start(c, a, configured)]]
      /\ scoped' = [scoped EXCEPT ![c] = [a \in Actors |-> NoScopes]]
      /\ scopes' = [scopes EXCEPT ![c] = IF configured THEN Config ELSE c]
      /\ inactive' = [inactive EXCEPT ![c] = Inactive]
      /\ used' = [used EXCEPT ![c] = {}]
      /\ replaced' = [replaced EXCEPT ![c] =
                        {a \in Actors : configured /\ Configured[a] # Undefined}]
      /\ touched' = touched
  BY DEF Fill
<1>2. TypeOK
  BY DEF IInv
<1>3. TypeOK'
  <2>1. array' \in [Owners -> [Actors -> ListOrNone]]
    BY <1>1, <1>2, OwnersDiffer, ListTypes DEF TypeOK
  <2>2. scoped' \in [Owners -> [Actors -> [Scopes -> ListOrNone]]]
    BY <1>1, <1>2, OwnersDiffer, ListTypes DEF TypeOK, NoScopes
  <2>3. ref' \in [Checkers -> [Actors -> Owners]]
    BY <1>1, <1>2, StartTypes DEF TypeOK
  <2>4. /\ scopes' \in [Checkers -> Owners] /\ inactive' \in [Checkers -> SUBSET Actors]
        /\ used' \in [Checkers -> SUBSET Actors] /\ replaced' \in [Checkers -> SUBSET Actors]
        /\ touched' \subseteq Actors
    BY <1>1, <1>2, OwnersDiffer, PermissionCheckerAssumption DEF TypeOK
  <2> QED BY <2>1, <2>2, <2>3, <2>4 DEF TypeOK
<1>4. \A d \in Checkers : scopes'[d] \in {d, Config}
  BY <1>1, <1>2 DEF IInv, TypeOK
<1>5. ASSUME NEW d \in Checkers, NEW a \in Actors PROVE Refs(d, a)' /\ Untold(d, a)'
  <2>1. CASE d = c
    <3>1. /\ ref'[c][a] = Start(c, a, configured) /\ array'[c][a] = Undefined
          /\ scoped'[c][a] = NoScopes /\ scopes'[c] = (IF configured THEN Config ELSE c)
          /\ inactive'[c] = Inactive
          /\ a \in replaced'[c] => configured /\ Configured[a] # Undefined
      BY <1>1, <1>2, OwnersDiffer DEF TypeOK
    <3>2. Refs(c, a)'
      BY <3>1, StartTypes, OwnersDiffer DEF Refs
    <3>3. Untold(c, a)'
      BY <3>1, OwnersDiffer DEF Untold
    <3> QED BY <2>1, <3>2, <3>3
  <2>2. CASE d # c
    <3>1. /\ ref'[d] = ref[d] /\ array'[d] = array[d] /\ scoped'[d] = scoped[d]
          /\ scopes'[d] = scopes[d] /\ inactive'[d] = inactive[d]
          /\ used'[d] = used[d] /\ replaced'[d] = replaced[d]
      BY <1>1, <1>2, <2>2, OwnersDiffer DEF TypeOK
    <3>2. Refs(d, a) /\ Untold(d, a)
      BY DEF IInv
    <3>3. Refs(d, a)'
      BY <3>1, <3>2 DEF Refs
    <3>4. Untold(d, a)'
      BY <3>1, <3>2 DEF Untold
    <3> QED BY <3>3, <3>4
  <2> QED BY <2>1, <2>2
<1>6. \A a \in Actors \ touched' : array'[Default][a] = Defaults[a]
  BY <1>1, <1>2, OwnersDiffer DEF IInv, TypeOK
<1> QED BY <1>3, <1>4, <1>5, <1>6 DEF IInv

(* An array is changed in place: the checker has been told of the actor,   *)
(* and an array of the defaults makes it a touched one.                    *)
LEMMA ChangeKeepsIInv ==
    ASSUME IInv, NEW c \in Checkers, NEW a \in Actors, NEW l \in ListOrNone, Change(c, a, l)
    PROVE  IInv'
<1> DEFINE o == ref[c][a]
<1>1. /\ array' = [array EXCEPT ![o][a] = l]
      /\ touched' = (IF a \in replaced[c] THEN touched ELSE touched \cup {a})
      /\ used' = [used EXCEPT ![c] = used[c] \cup {a}]
      /\ UNCHANGED <<ref, scoped, scopes, deny, inactive, replaced>>
  BY DEF Change, Names
<1>2. TypeOK /\ o \in Owners /\ Refs(c, a)
  BY DEF IInv, TypeOK
<1> HIDE DEF o
<1>3. /\ array' \in [Owners -> [Actors -> ListOrNone]]
      /\ \A p \in Owners, b \in Actors :
            array'[p][b] = IF p = o /\ b = a THEN l ELSE array[p][b]
  BY <1>1, <1>2, ArraySet
<1>4. TypeOK'
  BY <1>1, <1>2, <1>3 DEF TypeOK
<1>5. ASSUME NEW d \in Checkers, NEW b \in Actors PROVE Refs(d, b)' /\ Untold(d, b)'
  <2>1. Refs(d, b)'
    BY <1>1 DEF IInv, Refs
  <2>2. CASE d = c /\ b = a
    <3>1. a \in used'[c]
      BY <1>1, <1>2 DEF TypeOK
    <3>2. Untold(c, a)'
      BY <3>1 DEF Untold
    <3> QED BY <2>1, <2>2, <3>2
  <2>3. CASE d # c \/ b # a
    <3>1. array'[d][b] = array[d][b]
      BY <1>2, <1>3, <2>3, OwnersDiffer DEF Refs, o
    <3>2. b \notin used'[d] => b \notin used[d]
      BY <1>1, <1>2 DEF TypeOK
    <3> QED BY <1>1, <2>1, <3>1, <3>2 DEF IInv, Untold
  <2> QED BY <2>1, <2>2, <2>3
<1>6. ASSUME NEW b \in Actors \ touched' PROVE array'[Default][b] = Defaults[b]
  <2>1. o # Default \/ b # a
    BY <1>1, <1>2, <1>6 DEF Refs, o
  <2>2. b \in Actors \ touched
    BY <1>1, <1>6
  <2> QED BY <1>3, <2>1, <2>2, OwnersDiffer DEF IInv
<1> QED BY <1>1, <1>4, <1>5, <1>6 DEF IInv

(* A scoped permission is changed in place. *)
LEMMA ChangeInKeepsIInv ==
    ASSUME IInv, NEW c \in Checkers, NEW a \in Actors, NEW s \in Scopes, NEW l \in ListOrNone,
           ChangeIn(c, a, s, l)
    PROVE  IInv'
<1> DEFINE o == scopes[c]
<1>1. /\ scoped' = [scoped EXCEPT ![o][a][s] = l]
      /\ used' = [used EXCEPT ![c] = used[c] \cup {a}]
      /\ UNCHANGED <<array, ref, scopes, deny, inactive, replaced, touched>>
  BY DEF ChangeIn, Names
<1>2. TypeOK /\ o \in Owners /\ o \in {c, Config}
  BY DEF IInv, TypeOK
<1> HIDE DEF o
<1>3. /\ scoped' \in [Owners -> [Actors -> [Scopes -> ListOrNone]]]
      /\ \A p \in Owners, b \in Actors : (p # o \/ b # a) => scoped'[p][b] = scoped[p][b]
  BY <1>1, <1>2, ScopeSet
<1>4. TypeOK'
  BY <1>1, <1>2, <1>3 DEF TypeOK
<1>5. ASSUME NEW d \in Checkers, NEW b \in Actors PROVE Refs(d, b)' /\ Untold(d, b)'
  <2>1. Refs(d, b)'
    BY <1>1 DEF IInv, Refs
  <2>2. CASE d = c /\ b = a
    <3>1. a \in used'[c]
      BY <1>1, <1>2 DEF TypeOK
    <3>2. Untold(c, a)'
      BY <3>1 DEF Untold
    <3> QED BY <2>1, <2>2, <3>2
  <2>3. CASE d # c \/ b # a
    <3>1. scoped'[d][b] = scoped[d][b]
      BY <1>2, <1>3, <2>3, OwnersDiffer
    <3>2. b \notin used'[d] => b \notin used[d]
      BY <1>1, <1>2 DEF TypeOK
    <3> QED BY <1>1, <2>1, <3>1, <3>2 DEF IInv, Untold
  <2> QED BY <2>1, <2>2, <2>3
<1> QED BY <1>1, <1>4, <1>5 DEF IInv

(* The permissions of an actor are replaced, and scopes of his perhaps     *)
(* with them: the checker has an array of its own and has been told.       *)
LEMMA ReplaceKeepsIInv ==
    ASSUME IInv, NEW c \in Checkers, NEW a \in Actors, NEW l \in Lists, Replace(c, a, l),
           scoped' = scoped \/ scoped' = [scoped EXCEPT ![scopes[c]][a] = NoScopes]
    PROVE  IInv'
<1>1. /\ array' = [array EXCEPT ![c][a] = l]
      /\ ref' = [ref EXCEPT ![c][a] = c]
      /\ replaced' = [replaced EXCEPT ![c] = replaced[c] \cup {a}]
      /\ used' = [used EXCEPT ![c] = used[c] \cup {a}]
      /\ UNCHANGED <<scopes, deny, inactive, touched>>
  BY DEF Replace, Names
<1>2. TypeOK /\ c \in Owners /\ l \in ListOrNone /\ scopes[c] \in {c, Config}
  BY OwnersDiffer, ListTypes DEF IInv
<1>3. /\ array' \in [Owners -> [Actors -> ListOrNone]]
      /\ \A p \in Owners, b \in Actors :
            array'[p][b] = IF p = c /\ b = a THEN l ELSE array[p][b]
  BY <1>1, <1>2, ArraySet
<1>4. /\ ref' \in [Checkers -> [Actors -> Owners]]
      /\ \A d \in Checkers, b \in Actors :
            ref'[d][b] = IF d = c /\ b = a THEN c ELSE ref[d][b]
  BY <1>1, <1>2 DEF TypeOK
<1>5. /\ scoped' \in [Owners -> [Actors -> [Scopes -> ListOrNone]]]
      /\ \A d \in Checkers, b \in Actors :
            (d # c \/ b # a) => scoped'[d][b] = scoped[d][b]
  <2>1. NoScopes \in [Scopes -> ListOrNone]
    BY ListTypes DEF NoScopes
  <2>2. CASE scoped' = scoped
    BY <1>2, <2>2 DEF TypeOK
  <2>3. CASE scoped' = [scoped EXCEPT ![scopes[c]][a] = NoScopes]
    BY <1>2, <2>1, <2>3, OwnersDiffer DEF TypeOK
  <2> QED BY <2>2, <2>3
<1>6. /\ used' \in [Checkers -> SUBSET Actors] /\ replaced' \in [Checkers -> SUBSET Actors]
      /\ a \in used'[c]
      /\ \A d \in Checkers, b \in Actors :
            /\ b \in used[d] => b \in used'[d]
            /\ b \in replaced'[d] => b \in replaced[d] \/ (d = c /\ b = a)
  BY <1>1, <1>2 DEF TypeOK
<1>7. TypeOK'
  BY <1>1, <1>2, <1>3, <1>4, <1>5, <1>6 DEF TypeOK
<1>8. ASSUME NEW d \in Checkers, NEW b \in Actors PROVE Refs(d, b)' /\ Untold(d, b)'
  <2>1. CASE d = c /\ b = a
    <3>1. ref'[c][a] = c
      BY <1>4
    <3>2. Refs(c, a)'
      BY <3>1, OwnersDiffer DEF Refs
    <3>3. Untold(c, a)'
      BY <1>6 DEF Untold
    <3> QED BY <2>1, <3>2, <3>3
  <2>2. CASE d # c \/ b # a
    <3>1. /\ ref'[d][b] = ref[d][b] /\ array'[d][b] = array[d][b]
          /\ scoped'[d][b] = scoped[d][b] /\ scopes' = scopes /\ inactive' = inactive
      BY <1>1, <1>3, <1>4, <1>5, <2>2, OwnersDiffer
    <3>2. Refs(d, b) /\ Untold(d, b)
      BY DEF IInv
    <3>3. Refs(d, b)'
      BY <1>6, <2>2, <3>1, <3>2 DEF Refs
    <3>4. Untold(d, b)'
      BY <1>6, <3>1, <3>2 DEF Untold
    <3> QED BY <3>3, <3>4
  <2> QED BY <2>1, <2>2
<1>9. \A b \in Actors \ touched' : array'[Default][b] = Defaults[b]
  BY <1>1, <1>3, OwnersDiffer DEF IInv
<1> QED BY <1>1, <1>7, <1>8, <1>9 DEF IInv

(* An actor is marked. *)
LEMMA MarkKeepsIInv ==
    ASSUME IInv, NEW c \in Checkers, NEW a \in Actors, MarkInactive(c, a) \/ MarkActive(c, a)
    PROVE  IInv'
<1>1. /\ used' = [used EXCEPT ![c] = used[c] \cup {a}]
      /\ UNCHANGED <<array, ref, scoped, scopes, deny, replaced, touched>>
  BY DEF MarkInactive, MarkActive, Names
<1>2. TypeOK
  BY DEF IInv
<1>3. /\ inactive' \in [Checkers -> SUBSET Actors]
      /\ \A d \in Checkers, b \in Actors :
            (d # c \/ b # a) => (b \in inactive'[d] <=> b \in inactive[d])
  <2>1. CASE MarkInactive(c, a)
    BY <1>2, <2>1 DEF MarkInactive, TypeOK
  <2>2. CASE MarkActive(c, a)
    BY <1>2, <2>2 DEF MarkActive, TypeOK
  <2> QED BY <2>1, <2>2
<1>4. /\ used' \in [Checkers -> SUBSET Actors] /\ a \in used'[c]
      /\ \A d \in Checkers : used[d] \subseteq used'[d]
  BY <1>1, <1>2 DEF TypeOK
<1>5. TypeOK'
  BY <1>1, <1>2, <1>3, <1>4 DEF TypeOK
<1>6. ASSUME NEW d \in Checkers, NEW b \in Actors PROVE Refs(d, b)' /\ Untold(d, b)'
  <2>1. Refs(d, b) /\ Untold(d, b)
    BY DEF IInv
  <2>2. Refs(d, b)'
    BY <1>1, <2>1 DEF Refs
  <2>3. Untold(d, b)'
    BY <1>1, <1>3, <1>4, <2>1 DEF Untold
  <2> QED BY <2>2, <2>3
<1> QED BY <1>1, <1>5, <1>6 DEF IInv

-----------------------------------------------------------------------------
LEMMA InitIInv == Init => IInv
<1> SUFFICES ASSUME Init PROVE IInv
  OBVIOUS
<1>1. array \in [Owners -> [Actors -> ListOrNone]]
  <2>1. ASSUME NEW o \in Owners PROVE array[o] \in [Actors -> ListOrNone]
    BY OwnersDiffer, ListTypes, PermissionCheckerAssumption DEF Init
  <2> QED BY <2>1 DEF Init
<1>2. /\ ref \in [Checkers -> [Actors -> Owners]]
      /\ scoped \in [Owners -> [Actors -> [Scopes -> ListOrNone]]]
      /\ scopes \in [Checkers -> Owners]
  BY StartTypes, OwnersDiffer, ListTypes DEF Init, NoScopes
<1>3. TypeOK
  BY <1>1, <1>2, PermissionCheckerAssumption DEF Init, TypeOK
<1>4. ASSUME NEW c \in Checkers, NEW a \in Actors PROVE Refs(c, a) /\ Untold(c, a)
  <2>1. /\ ref[c][a] = Start(c, a, FALSE) /\ array[c][a] = Undefined /\ scoped[c][a] = NoScopes
        /\ replaced[c] = {} /\ inactive[c] = Inactive
    BY OwnersDiffer DEF Init
  <2> QED BY <2>1, StartTypes DEF Refs, Untold
<1>5. \A a \in Actors : array[Default][a] = Defaults[a]
  BY OwnersDiffer DEF Init
<1> QED BY <1>3, <1>4, <1>5 DEF Init, IInv

LEMMA StepIInv == IInv /\ [Next]_vars => IInv'
<1> SUFFICES ASSUME IInv, [Next]_vars PROVE IInv'
  OBVIOUS
<1>1. ASSUME NEW c \in Checkers, NEW configured \in BOOLEAN, NEW denyInactive \in BOOLEAN,
             New(c, configured, denyInactive)
      PROVE  IInv'
  <2>1. deny' \in [Checkers -> BOOLEAN]
    BY <1>1 DEF New, IInv, TypeOK
  <2> QED BY <1>1, <2>1, FillKeepsIInv DEF New
<1>2. ASSUME NEW c \in Checkers, Reset(c) PROVE IInv'
  <2>1. deny' \in [Checkers -> BOOLEAN]
    BY <1>2 DEF Reset, IInv, TypeOK
  <2> QED BY <1>2, <2>1, FillKeepsIInv DEF Reset
<1>3. ASSUME NEW c \in Checkers, NEW a \in Actors, NEW p \in Permissions,
             GrantPermission(c, a, p) \/ RevokePermission(c, a, p)
      PROVE  IInv'
  <2>1. Global(c, a) \in ListOrNone
    BY DEF Global, IInv, TypeOK
  <2> QED BY <1>3, <2>1, ListTypes, ChangeKeepsIInv DEF GrantPermission, RevokePermission
<1>4. ASSUME NEW c \in Checkers, NEW a \in Actors, NEW p \in Permissions, NEW s \in Scopes,
             GrantPermissionIn(c, a, p, s) \/ RevokePermissionIn(c, a, p, s)
      PROVE  IInv'
  <2>1. scoped[scopes[c]][a][s] \in ListOrNone
    BY DEF IInv, TypeOK
  <2> QED BY <1>4, <2>1, ListTypes, ChangeInKeepsIInv DEF GrantPermissionIn, RevokePermissionIn
<1>5. ASSUME NEW c \in Checkers, NEW a \in Actors, NEW l \in Lists, SetPermissions(c, a, l)
      PROVE  IInv'
  BY <1>5, ReplaceKeepsIInv DEF SetPermissions
<1>6. ASSUME NEW c \in Checkers, NEW a \in Actors, ClearPermissions(c, a) PROVE IInv'
  <2>1. {} \in Lists
    BY DEF Lists
  <2> QED BY <1>6, <2>1, ReplaceKeepsIInv DEF ClearPermissions
<1>7. ASSUME NEW c \in Checkers, NEW a \in Actors, MarkInactive(c, a) \/ MarkActive(c, a)
      PROVE  IInv'
  BY <1>7, MarkKeepsIInv
<1>8. CASE UNCHANGED vars
  BY <1>8 DEF vars, IInv, TypeOK, Refs, Untold
<1> QED BY <1>1, <1>2, <1>3, <1>4, <1>5, <1>6, <1>7, <1>8 DEF Next

THEOREM InductiveInvariant == Spec => []IInv
BY InitIInv, StepIInv, PTL DEF Spec

(* Arrays, references and marks always have their types. *)
THEOREM TypeCorrect == Spec => []TypeOK
<1>1. IInv => TypeOK
  BY DEF IInv
<1> QED BY <1>1, InductiveInvariant, PTL

(* A new or reset checker answers by the defaults for every actor whose    *)
(* permissions nobody has granted or revoked in a shared array             *)
(* (permission-checker.mock.ts:233).                                       *)
THEOREM ResetIsGoodForUntouched == Spec => []ResetRestoresUntouched
<1>1. ASSUME IInv, NEW c \in Checkers, NEW a \in Actors \ touched, NEW p \in Permissions,
             NEW s \in Scopes, scopes[c] # Config, a \notin used[c]
      PROVE  LET default == p \in Defaults[a] /\ ~ (deny[c] /\ a \in Inactive)
             IN  Can(c, a, p) = default /\ CanIn(c, a, p, s) = default
  <2>1. /\ scopes[c] = c /\ ref[c][a] = Start(c, a, FALSE)
        /\ ref[c][a] = c => array[c][a] = Undefined
        /\ scoped[c][a] = NoScopes /\ (a \in inactive[c] <=> a \in Inactive)
        /\ array[Default][a] = Defaults[a]
    BY <1>1 DEF IInv, Untold
  <2>2. Global(c, a) = Defaults[a]
    BY <2>1, OwnersDiffer DEF Global, Start
  <2>3. Can(c, a, p) <=> p \in Defaults[a] /\ ~ (deny[c] /\ a \in Inactive)
    BY <2>1, <2>2 DEF Can, Denied
  <2>4. CanIn(c, a, p, s) <=> Can(c, a, p)
    BY <2>1 DEF CanIn, NoScopes
  <2>5. Can(c, a, p) \in BOOLEAN /\ CanIn(c, a, p, s) \in BOOLEAN
    BY DEF Can, CanIn
  <2> QED BY <2>3, <2>4, <2>5
<1>2. IInv => ResetRestoresUntouched
  BY <1>1 DEF ResetRestoresUntouched
<1> QED BY <1>2, InductiveInvariant, PTL

-----------------------------------------------------------------------------
(* What a checker's lists depend on, and what a call leaves of them.       *)
LEMMA GlobalUnchanged ==
    ASSUME NEW d \in Checkers, NEW a \in Actors, ref'[d][a] = ref[d][a],
           array'[ref[d][a]][a] = array[ref[d][a]][a]
    PROVE  Global(d, a)' = Global(d, a)
BY DEF Global

\* The array and the scoped permissions of actor b stay those of checker d.
Keeps(d, b) ==
    /\ Global(d, b)' = Global(d, b)
    /\ scoped[scopes[d]][b]' = scoped[scopes[d]][b]

LEMMA FillKeepsOthers ==
    ASSUME IInv, NEW c \in Checkers, NEW configured \in BOOLEAN, Fill(c, configured),
           NEW d \in Checkers, d # c, NEW b \in Actors
    PROVE  Keeps(d, b)
<1>1. ref[d][b] # c /\ scopes[d] # c /\ ref[d][b] \in Owners /\ scopes[d] \in Owners
  BY OwnersDiffer DEF IInv, Refs
<1>2. ref'[d] = ref[d] /\ scopes'[d] = scopes[d]
  BY DEF Fill, IInv, TypeOK
<1>3. array'[ref[d][b]] = array[ref[d][b]] /\ scoped'[scopes[d]] = scoped[scopes[d]]
  BY <1>1 DEF Fill, IInv, TypeOK
<1> QED BY <1>2, <1>3, GlobalUnchanged DEF Keeps

LEMMA ReplaceKeepsOthers ==
    ASSUME IInv, NEW c \in Checkers, NEW a \in Actors, NEW l \in Lists, Replace(c, a, l),
           NEW d \in Checkers, d # c, NEW b \in Actors
    PROVE  Global(d, b)' = Global(d, b) /\ scopes'[d] = scopes[d]
<1>1. ref[d][b] # c /\ ref[d][b] \in Owners
  BY OwnersDiffer DEF IInv, Refs
<1>2. ref'[d] = ref[d] /\ scopes'[d] = scopes[d]
  BY DEF Replace, IInv, TypeOK
<1>3. array'[ref[d][b]] = array[ref[d][b]]
  BY <1>1 DEF Replace, IInv, TypeOK
<1> QED BY <1>2, <1>3, GlobalUnchanged

\* Actor b's lists change in both of two checkers only as allowed.
Shares(c, d, b) ==
    /\ (Global(c, b)' # Global(c, b) /\ Global(d, b)' # Global(d, b)) =>
          \/ b \notin replaced[c] \cup replaced[d]
          \/ scopes[c] = Config /\ scopes[d] = Config
    /\ (scoped[scopes[c]][b]' # scoped[scopes[c]][b]
          /\ scoped[scopes[d]][b]' # scoped[scopes[d]][b]) =>
          scopes[c] = Config /\ scopes[d] = Config

\* One of two checkers is not the one that the call was made on.
LEMMA OneKeeps ==
    ASSUME NEW e \in Checkers, NEW b \in Actors,
           \A d \in Checkers : d # e => Keeps(d, b),
           NEW c \in Checkers, NEW d \in Checkers, c # d
    PROVE  Shares(c, d, b)
<1>1. Keeps(c, b) \/ Keeps(d, b)
  OBVIOUS
<1> QED BY <1>1 DEF Keeps, Shares

\* A change in place reaches those who have the same array.
LEMMA ChangeShares ==
    ASSUME IInv, NEW e \in Checkers, NEW a \in Actors, NEW l \in ListOrNone, Change(e, a, l),
           NEW c \in Checkers, NEW d \in Checkers, c # d, NEW b \in Actors
    PROVE  Shares(c, d, b)
<1> DEFINE o == ref[e][a]
<1>1. array' = [array EXCEPT ![o][a] = l] /\ UNCHANGED <<ref, scoped, scopes>>
  BY DEF Change
<1>2. TypeOK /\ o \in Owners
  BY DEF IInv, TypeOK
<1> HIDE DEF o
<1>3. \A p \in Owners, x \in Actors : array'[p][x] = IF p = o /\ x = a THEN l ELSE array[p][x]
  BY <1>1, <1>2, ArraySet
<1>4. ASSUME NEW x \in Checkers, Global(x, b)' # Global(x, b) PROVE ref[x][b] = o
  BY <1>1, <1>2, <1>3, <1>4 DEF Global, TypeOK
<1>5. ASSUME Global(c, b)' # Global(c, b), Global(d, b)' # Global(d, b)
      PROVE  \/ b \notin replaced[c] \cup replaced[d]
             \/ scopes[c] = Config /\ scopes[d] = Config
  <2>1. ref[c][b] = ref[d][b]
    BY <1>4, <1>5
  <2> QED BY <2>1, OwnersDiffer DEF IInv, Refs
<1> QED BY <1>1, <1>5 DEF Shares

LEMMA ChangeInShares ==
    ASSUME IInv, NEW e \in Checkers, NEW a \in Actors, NEW s \in Scopes, NEW l \in ListOrNone,
           ChangeIn(e, a, s, l),
           NEW c \in Checkers, NEW d \in Checkers, c # d, NEW b \in Actors
    PROVE  Shares(c, d, b)
<1> DEFINE o == scopes[e]
<1>1. /\ scoped' = [scoped EXCEPT ![o][a][s] = l]
      /\ UNCHANGED <<array, ref, scopes>>
  BY DEF ChangeIn
<1>2. TypeOK /\ o \in Owners
  BY DEF IInv, TypeOK
<1> HIDE DEF o
<1>3. \A p \in Owners, x \in Actors : (p # o \/ x # a) => scoped'[p][x] = scoped[p][x]
  BY <1>1, <1>2, ScopeSet
<1>4. ASSUME NEW x \in Checkers, scoped[scopes[x]][b]' # scoped[scopes[x]][b]
      PROVE  scopes[x] = o
  BY <1>1, <1>2, <1>3, <1>4 DEF TypeOK
<1>5. scopes[c] = scopes[d] => scopes[c] = Config /\ scopes[d] = Config
  BY OwnersDiffer DEF IInv
<1>6. Global(c, b)' = Global(c, b)
  BY <1>1 DEF Global
<1> QED BY <1>4, <1>5, <1>6 DEF Shares

\* A new array, and at most the scopes of the checker's owner.
LEMMA ReplaceShares ==
    ASSUME IInv, NEW e \in Checkers, NEW a \in Actors, NEW l \in Lists, Replace(e, a, l),
           scoped' = scoped \/ scoped' = [scoped EXCEPT ![scopes[e]][a] = NoScopes],
           NEW c \in Checkers, NEW d \in Checkers, c # d, NEW b \in Actors
    PROVE  Shares(c, d, b)
<1> DEFINE o == scopes[e]
<1>1. Global(c, b)' = Global(c, b) \/ Global(d, b)' = Global(d, b)
  BY ReplaceKeepsOthers
<1>2. scopes' = scopes /\ scopes \in [Checkers -> Owners]
  BY DEF Replace, IInv, TypeOK
<1>3. \A p \in Owners : p # o => scoped'[p] = scoped[p]
  BY DEF IInv, TypeOK
<1> HIDE DEF o
<1>4. ASSUME NEW x \in Checkers, scoped[scopes[x]][b]' # scoped[scopes[x]][b]
      PROVE  scopes[x] = o
  BY <1>2, <1>3, <1>4
<1>5. scopes[c] = scopes[d] => scopes[c] = Config /\ scopes[d] = Config
  BY OwnersDiffer DEF IInv
<1> QED BY <1>1, <1>4, <1>5 DEF Shares

LEMMA StepShares ==
    ASSUME IInv, Next, NEW c \in Checkers, NEW d \in Checkers, c # d, NEW b \in Actors
    PROVE  Shares(c, d, b)
<1>1. ASSUME NEW e \in Checkers, NEW configured \in BOOLEAN, Fill(e, configured)
      PROVE  Shares(c, d, b)
  BY <1>1, FillKeepsOthers, OneKeeps
<1>2. ASSUME NEW e \in Checkers, NEW a \in Actors, NEW p \in Permissions,
             GrantPermission(e, a, p) \/ RevokePermission(e, a, p)
      PROVE  Shares(c, d, b)
  <2>1. Global(e, a) \in ListOrNone
    BY DEF Global, IInv, TypeOK
  <2> QED BY <1>2, <2>1, ListTypes, ChangeShares DEF GrantPermission, RevokePermission
<1>3. ASSUME NEW e \in Checkers, NEW a \in Actors, NEW p \in Permissions, NEW s \in Scopes,
             GrantPermissionIn(e, a, p, s) \/ RevokePermissionIn(e, a, p, s)
      PROVE  Shares(c, d, b)
  <2>1. scoped[scopes[e]][a][s] \in ListOrNone
    BY DEF IInv, TypeOK
  <2> QED BY <1>3, <2>1, ListTypes, ChangeInShares DEF GrantPermissionIn, RevokePermissionIn
<1>4. ASSUME NEW e \in Checkers, NEW a \in Actors, NEW l \in Lists, SetPermissions(e, a, l)
      PROVE  Shares(c, d, b)
  BY <1>4, ReplaceShares DEF SetPermissions
<1>5. ASSUME NEW e \in Checkers, NEW a \in Actors, ClearPermissions(e, a)
      PROVE  Shares(c, d, b)
  <2>1. {} \in Lists
    BY DEF Lists
  <2> QED BY <1>5, <2>1, ReplaceShares DEF ClearPermissions
<1>6. ASSUME NEW e \in Checkers, NEW a \in Actors, MarkInactive(e, a) \/ MarkActive(e, a)
      PROVE  Shares(c, d, b)
  BY <1>6 DEF MarkInactive, MarkActive, Shares, Global
<1> QED BY <1>1, <1>2, <1>3, <1>4, <1>5, <1>6 DEF Next, New, Reset

(* No call changes an actor's permissions in two checkers at once, but for *)
(* the arrays of the defaults that neither has replaced and what both were *)
(* configured with (permission-checker.mock.ts:91-95, 153-188).            *)
THEOREM SharingIsKnown == Spec => SharedOnlyIfNeverReplaced
<1>1. IInv /\ [Next]_vars =>
        [\A c, d \in Checkers, a \in Actors :
          c # d =>
            /\ (Global(c, a)' # Global(c, a) /\ Global(d, a)' # Global(d, a)) =>
                  \/ a \notin replaced[c] \cup replaced[d]
                  \/ scopes[c] = Config /\ scopes[d] = Config
            /\ (scoped[scopes[c]][a]' # scoped[scopes[c]][a]
                  /\ scoped[scopes[d]][a]' # scoped[scopes[d]][a]) =>
                  scopes[c] = Config /\ scopes[d] = Config]_vars
  BY StepShares DEF Shares
<1> QED BY <1>1, InductiveInvariant, PTL DEF Spec, SharedOnlyIfNeverReplaced
=============================================================================
