------------------------------ MODULE EdgeMC ------------------------------
(* A small instance of Edge for TLC. *)
EXTENDS Edge, TLC

CONSTANTS c1, c2, proxy, login, loginSlash, refresh, ours, theirs, alice, Alice, bad, wide, name, spaced, blank, long
CONSTANTS short, pass, sameStart, h1, h2

ThreeAddresses == {c1, c2, proxy}
TwoClients == {c1, c2}
OneProxy == <<proxy>>
NothingOrAnother == {<<>>, <<c2>>}
ThreePaths == {login, loginSlash, refresh}
TwoOrigins == {ours, theirs}
FourSpellings == {alice, Alice, bad, wide}
Lower == alice :> alice @@ Alice :> alice @@ bad :> bad @@ wide :> wide
OneBad == {bad}
OneWide == {wide}
FourNames == {name, spaced, blank, long}
Trim == name :> name @@ spaced :> name @@ blank :> blank @@ long :> long
OneBlank == {blank}
OneLong == {long}
ThreePasswords == {short, pass, sameStart}
OneShort == {short}
First72 == short :> h2 @@ pass :> h1 @@ sameStart :> h1
=============================================================================
