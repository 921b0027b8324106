----------------------------- MODULE MCSession -----------------------------
(***************************************************************************)
(* Session with two interchangeable accounts; no action treats one of them *)
(* specially.                                                              *)
(***************************************************************************)
EXTENDS Session, TLC

Accounts == Permutations(Users)

=============================================================================
