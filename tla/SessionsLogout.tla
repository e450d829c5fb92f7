--------------------------- MODULE SessionsLogout ---------------------------
(***************************************************************************)
(* Sessions with one more history variable, the sessions whose logout has  *)
(* been carried out, to say of logout alone what the controller says of    *)
(* it.                                                                     *)
(***************************************************************************)
EXTENDS Sessions

VARIABLE loggedOut  \* history: ids LogoutUseCase has deleted

varsL == <<vars, loggedOut>>

InitL == Init /\ loggedOut = {}

LogsOut(r) ==
    /\ Logout(r)
    /\ loggedOut' = loggedOut \cup {req[r].session.id}

NextL ==
    \/ \E r \in Requests : LogsOut(r)
    \/ /\ Next
       /\ \A r \in Requests : ~ Logout(r)
       /\ UNCHANGED loggedOut

SpecL == InitL /\ [][NextL]_varsL

(* "Logout the current session." (auth.controller.ts:184): a session that  *)
(* was logged out has no row again.                                        *)
LoggedOutStaysOut == \A s \in table : s.id \notin loggedOut
=============================================================================
