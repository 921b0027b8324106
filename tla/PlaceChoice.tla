---------------------------- MODULE PlaceChoice ----------------------------
(***************************************************************************)
(* What the address picker promises, without its wheels, tables and        *)
(* callbacks: the choice is a path from the root of the administrative     *)
(* tree, lengthened or bent at one level at a time, and there is a         *)
(* postcode exactly at its third level.                                    *)
(***************************************************************************)
EXTENDS Naturals, Sequences

CONSTANTS
    Provinces, Districts, Subdistricts,   \* the three levels
    provinceOf, amphurOf,                 \* the parent of a node
    zipcodeOf,                            \* the postcode of a subdistrict
    NULL                                  \* no postcode

VARIABLES
    path,   \* the nodes chosen, from the province down
    code    \* the postcode

Init == path = <<>> /\ code = NULL

(* Choosing a node forgets everything below it. *)

ChooseProvince(p) ==
    /\ path' = <<p>>
    /\ code' = NULL

ChooseDistrict(d) ==
    /\ Len(path) >= 1
    /\ provinceOf[d] = path[1]
    /\ path' = <<path[1], d>>
    /\ code' = NULL

ChooseSubdistrict(s) ==
    /\ Len(path) >= 2
    /\ amphurOf[s] = path[2]
    /\ path' = <<path[1], path[2], s>>
    /\ code' = zipcodeOf[s]

Next ==
    \/ \E p \in Provinces : ChooseProvince(p)
    \/ \E d \in Districts : ChooseDistrict(d)
    \/ \E s \in Subdistricts : ChooseSubdistrict(s)

Spec == Init /\ [][Next]_<<path, code>>

=============================================================================
