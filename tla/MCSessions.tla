---------------------------- MODULE MCSessions ----------------------------
(* Instances of Sessions for TLC. *)
EXTENDS Sessions, TLC

\* The handlers treat accounts, addresses, identities and requests alike.
Symmetry == Permutations(Users) \cup Permutations(Emails) \cup Permutations(Identities)
              \cup Permutations(Logins) \cup Permutations(Admins)
=============================================================================
