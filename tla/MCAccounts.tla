------------------------------- MODULE MCAccounts -------------------------------
(***************************************************************************)
(* Limits for the runs of Accounts.tla.                                    *)
(***************************************************************************)
EXTENDS Accounts, TLC

AllKeys == {AccountKey(u) : u \in Users}
              \cup {ClientKey(c) : c \in Clients} \cup {SignupKey(c) : c \in Clients}

(* One login per account, two logins and one sign-up per client and window. *)
Limits == [k \in AllKeys |-> IF k[1] = "client" THEN 2 ELSE 1]

Symmetry == Permutations(Threads) \cup Permutations(Passwords)
=================================================================================
