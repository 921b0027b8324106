----------------------------- MODULE MCHomeForm -----------------------------
(***************************************************************************)
(* A small country for HomeForm: two provinces, three districts, three     *)
(* subdistricts.  As in the real tables, subdistricts of different         *)
(* districts may share their name or their zipcode.                        *)
(***************************************************************************)
EXTENDS HomeForm, TLC

CONSTANTS p1, p2, d1, d2, d3, s1, s2, s3

MCProvinceOf == (d1 :> p1) @@ (d2 :> p1) @@ (d3 :> p2)
MCAmphurOf   == (s1 :> d1) @@ (s2 :> d2) @@ (s3 :> d3)
MCZipcodeOf  == (s1 :> "10200") @@ (s2 :> "10200") @@ (s3 :> "50200")
MCNameTh     == (p1 :> "P1") @@ (p2 :> "P2")
             @@ (d1 :> "D1") @@ (d2 :> "D2") @@ (d3 :> "D3")
             @@ (s1 :> "Wat Ket") @@ (s2 :> "S2") @@ (s3 :> "Wat Ket")

=============================================================================
