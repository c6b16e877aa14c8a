------------------------------- MODULE MCAccess -------------------------------
(***************************************************************************)
(* Small instances of Accounts, SignIn and JoinLimit. The three share no   *)
(* state in the code, so a behaviour is one of one of them: part says of   *)
(* which, and the state of the others stays as it began.                   *)
(***************************************************************************)
EXTENDS Accounts, SignIn, JoinLimit, TLC

CONSTANTS ann, ben, p1, p2, q1, q2, c1, c2, a1, a2, i1, i2, j1, j2

VARIABLE part

AnnAndBen == {ann, ben}
TwoPasswords == {p1, p2}
TwoRequests == {q1, q2}
TwoClients == {c1, c2}
TwoAttempts == {a1, a2}
TwoAddresses == {i1, i2}
TwoJoins == {j1, j2}
EachFromItsOwn == {<<ann, i1>>, <<ben, i2>>}

AccessSymmetry ==
    {p @@ q : p \in Permutations(Passwords), q \in Permutations(Requests)}

vars == <<accountVars, signInVars, joinVars, part>>

Init ==
    /\ part \in {"accounts", "signing in", "joining"}
    /\ AccountsInit /\ SignInInit /\ JoinInit

OnAccounts ==
    /\ part = "accounts"
    /\ AccountsNext
    /\ UNCHANGED <<part, signInVars, joinVars>>

OnSigningIn ==
    /\ part = "signing in"
    /\ SignInNext
    /\ UNCHANGED <<part, accountVars, joinVars>>

OnJoining ==
    /\ part = "joining"
    /\ JoinNext
    /\ UNCHANGED <<part, accountVars, signInVars>>

Next == OnAccounts \/ OnSigningIn \/ OnJoining

Spec == Init /\ [][Next]_vars

TypeOK == AccountsTypeOK /\ SignInTypeOK /\ JoinTypeOK
===============================================================================
