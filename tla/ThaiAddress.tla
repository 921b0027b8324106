---------------------------- MODULE ThaiAddress ----------------------------
(***************************************************************************)
(* The cascading address picker, src/lib/components/ThaiAddress.dart: the  *)
(* user picks a province, then one of its districts, then one of the       *)
(* subdistricts of that district; the subdistrict determines the postcode. *)
(*                                                                         *)
(* One instance of the widget is modelled, from the load of its three      *)
(* JSON tables on.  A row of a table is identified with its id; what the   *)
(* widget reads of a row are the constant functions below.  A wheel's      *)
(* position (an index into a list in the code) is the row it points at.    *)
(***************************************************************************)

CONSTANTS
    Provinces, Districts, Subdistricts,   \* the ids of the three tables
    provinceOf,    \* a district's province_id
    amphurOf,      \* a subdistrict's amphur_id: the district it lies in
    zipcodeOf,     \* a subdistrict's zipcode
    nameTh,        \* the name_th of every row
    NULL,          \* Dart's null
    NotFound       \* indexWhere's answer -1

Types     == {"province", "district", "subdistrict"}   \* of the wheels
Places    == Provinces \cup Districts \cup Subdistricts
Names     == {nameTh[x] : x \in Places}
Postcodes == {zipcodeOf[s] : s \in Subdistricts}

(***************************************************************************)
(* The three tables are total and their ids distinct from the two special  *)
(* values.                                                                 *)
(***************************************************************************)
ASSUME Tables ==
    /\ provinceOf \in [Districts -> Provinces]
    /\ amphurOf \in [Subdistricts -> Districts]
    /\ DOMAIN zipcodeOf = Subdistricts
    /\ DOMAIN nameTh = Places
    /\ NULL \notin Types \cup Places \cup Names \cup Postcodes
    /\ NotFound \notin Places

(***************************************************************************)
(* The tables under src/assets/data have no empty list: there are          *)
(* provinces, every province has a district and every district a           *)
(* subdistrict.                                                            *)
(***************************************************************************)
ASSUME NoEmptyList ==
    /\ Provinces # {}
    /\ \A p \in Provinces : \E d \in Districts : provinceOf[d] = p
    /\ \A d \in Districts : \E s \in Subdistricts : amphurOf[s] = d

VARIABLES
    data,             \* _provinces, _districts, _subdistricts: loaded or not
    picker,           \* the wheel on the screen: its type and selectedItem
    provinceId,       \* _selectedProvinceId
    districtId,       \* _selectedDistrictId
    subdistrictId,    \* _selectedSubdistrictId
    postcode,         \* _postcode
    provinceName,     \* _selectedProvinceName
    districtName,     \* _selectedDistrictName
    subdistrictName   \* _selectedSubdistrictName

ids   == <<provinceId, districtId, subdistrictId, postcode>>
names == <<provinceName, districtName, subdistrictName>>
addressVars == <<data, picker, ids, names>>

NoPicker == [type |-> NULL, item |-> NULL]

AddressTypeOK ==
    /\ data \in {"loading", "loaded", "failed"}
    /\ picker \in {NoPicker} \cup
                  [type : Types, item : Places \cup {NotFound}]
    /\ provinceId \in Provinces \cup {NULL}
    /\ districtId \in Districts \cup {NULL}
    /\ subdistrictId \in Subdistricts \cup {NULL}
    /\ postcode \in Postcodes \cup {NULL}
    /\ provinceName \in Names \cup {NULL}
    /\ districtName \in Names \cup {NULL}
    /\ subdistrictName \in Names \cup {NULL}

-----------------------------------------------------------------------------

(***************************************************************************)
(* _provinces, _districts[p] and _subdistricts[d]: the list behind each    *)
(* wheel.                                                                  *)
(***************************************************************************)
DistrictsOf(p)    == {d \in Districts : provinceOf[d] = p}
SubdistrictsOf(d) == {s \in Subdistricts : amphurOf[s] = d}

List(type) ==
    CASE type = "province"    -> Provinces
      [] type = "district"    -> DistrictsOf(provinceId)
      [] type = "subdistrict" -> SubdistrictsOf(districtId)

SelectedId(type) ==
    CASE type = "province"    -> provinceId
      [] type = "district"    -> districtId
      [] type = "subdistrict" -> subdistrictId

(***************************************************************************)
(* Where a wheel starts: at the row selected before, found with indexWhere *)
(* in the list the wheel shows, or else at row 0.                          *)
(***************************************************************************)
InitialItem(type) ==
    IF SelectedId(type) = NULL THEN CHOOSE x \in List(type) : TRUE
    ELSE IF SelectedId(type) \in List(type) THEN SelectedId(type)
    ELSE NotFound

-----------------------------------------------------------------------------

AddressInit ==
    /\ data = "loading"
    /\ picker = NoPicker
    /\ provinceId = NULL /\ provinceName = NULL
    /\ districtId = NULL /\ districtName = NULL
    /\ subdistrictId = NULL /\ subdistrictName = NULL
    /\ postcode = NULL

(* _loadData assigns the three tables in one setState, or catches. *)
LoadData(outcome) ==
    /\ data = "loading"
    /\ outcome \in {"loaded", "failed"}
    /\ data' = outcome
    /\ UNCHANGED <<picker, ids, names>>

(* A field is on the screen once the field above it has an id. *)
FieldVisible(type) ==
    CASE type = "province"    -> TRUE
      [] type = "district"    -> provinceId # NULL
      [] type = "subdistrict" -> districtId # NULL

(* A tap on a field.  Before the load, _provinces! throws and nothing opens. *)
ShowPicker(type) ==
    /\ picker = NoPicker
    /\ data = "loaded"
    /\ FieldVisible(type)
    /\ picker' = [type |-> type, item |-> InitialItem(type)]
    /\ UNCHANGED <<data, ids, names>>

(* onSelectedItemChanged: the wheel stops at another row of its list. *)
ScrollTo(x) ==
    /\ picker # NoPicker
    /\ x \in List(picker.type)
    /\ picker' = [picker EXCEPT !.item = x]
    /\ UNCHANGED <<data, ids, names>>

(* Done on a wheel at index -1 throws before the sheet is popped. *)
DoneEnabled(type) ==
    /\ picker.type = type
    /\ picker.item # NotFound

(* A slip the properties must notice: the district is not reset. *)
DoneProvinceKeepingDistrict ==
    /\ DoneEnabled("province")
    /\ provinceId' = picker.item
    /\ provinceName' = nameTh[picker.item]
    /\ subdistrictId' = NULL
    /\ postcode' = NULL
    /\ picker' = NoPicker
    /\ UNCHANGED <<data, districtId, districtName, subdistrictName>>

DoneProvince ==
    /\ DoneEnabled("province")
    /\ provinceId' = picker.item
    /\ provinceName' = nameTh[picker.item]
    /\ districtId' = NULL
    /\ subdistrictId' = NULL
    /\ postcode' = NULL
    /\ picker' = NoPicker
    /\ UNCHANGED <<data, districtName, subdistrictName>>

(* A slip the properties must notice: the subdistrict is not reset. *)
DoneDistrictKeepingSubdistrict ==
    /\ DoneEnabled("district")
    /\ districtId' = picker.item
    /\ districtName' = nameTh[picker.item]
    /\ picker' = NoPicker
    /\ UNCHANGED <<data, provinceId, provinceName, subdistrictId,
                   subdistrictName, postcode>>

DoneDistrict ==
    /\ DoneEnabled("district")
    /\ districtId' = picker.item
    /\ districtName' = nameTh[picker.item]
    /\ subdistrictId' = NULL
    /\ postcode' = NULL
    /\ picker' = NoPicker
    /\ UNCHANGED <<data, provinceId, provinceName, subdistrictName>>

DoneSubdistrict ==
    /\ DoneEnabled("subdistrict")
    /\ subdistrictId' = picker.item
    /\ subdistrictName' = nameTh[picker.item]
    /\ postcode' = zipcodeOf[picker.item]
    /\ picker' = NoPicker
    /\ UNCHANGED <<data, provinceId, districtId, provinceName, districtName>>

(* Cancel, or a tap beside the sheet. *)
Cancel ==
    /\ picker # NoPicker
    /\ picker' = NoPicker
    /\ UNCHANGED <<data, ids, names>>

-----------------------------------------------------------------------------

(***************************************************************************)
(* The ids the picker holds always form a chain of the administrative      *)
(* tables: the district lies in the province, the subdistrict in the       *)
(* district, and there is a postcode exactly when there is a subdistrict,  *)
(* whose zipcode it is.  Each id that is set has its own name beside it    *)
(* (a name whose id was reset may linger on the screen).                   *)
(***************************************************************************)
DistrictInProvince ==
    districtId # NULL =>
        /\ provinceId = provinceOf[districtId]
        /\ districtName = nameTh[districtId]

SubdistrictInDistrict ==
    subdistrictId # NULL =>
        /\ districtId = amphurOf[subdistrictId]
        /\ subdistrictName = nameTh[subdistrictId]

PostcodeOfSubdistrict ==
    postcode = IF subdistrictId = NULL THEN NULL ELSE zipcodeOf[subdistrictId]

PickerChain ==
    /\ provinceId # NULL => provinceName = nameTh[provinceId]
    /\ DistrictInProvince
    /\ SubdistrictInDistrict
    /\ PostcodeOfSubdistrict

(***************************************************************************)
(* An open wheel always points at a row of the list Done will index:       *)
(* indexWhere never answers -1, and no reset while a wheel is open moves   *)
(* the list away under it, so no Done throws and leaves its sheet stuck.   *)
(***************************************************************************)
PickerItemValid ==
    picker # NoPicker => picker.item \in List(picker.type)

=============================================================================
