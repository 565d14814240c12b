----------------------------- MODULE MCBankLink -----------------------------
(***************************************************************************)
(* Instances of BankLink for TLC.  Requests of a kind, users, rows and     *)
(* customers are interchangeable, but for those with the e-mail address of *)
(* a user.                                                                 *)
(***************************************************************************)
EXTENDS BankLink, TLC

Symmetry ==
  Permutations(Rows) \cup Permutations(Users) \cup Permutations(Links) \cup Permutations(Callbacks)
    \cup Permutations(Logins) \cup Permutations(Pushes)
    \cup Permutations(Customers \ Shared)
=============================================================================
