----------------------------- MODULE MCHomeFlow -----------------------------
(***************************************************************************)
(* HomeFlow with seven page identities: five pages on the stack and room   *)
(* for two lingering forms.                                                *)
(***************************************************************************)
EXTENDS HomeFlow
=============================================================================
