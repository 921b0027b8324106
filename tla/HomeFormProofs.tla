--------------------------- MODULE HomeFormProofs ---------------------------
(***************************************************************************)
(* The form's invariants hold for tables of any size, any text limit and   *)
(* any number of submissions.  They are not inductive by themselves: that  *)
(* the form agrees with the picker whenever a postcode is shown needs that *)
(* it agrees with every id the picker holds, and that the postal code of a *)
(* document matches its subdistrict needs the same of the form's copies,   *)
(* stale or not.                                                           *)
(***************************************************************************)
EXTENDS HomeForm, Sequences, TLAPS

(***************************************************************************)
(* The address picker the form embeds: each of its handlers preserves its  *)
(* type, the chain of ids it holds and the validity of an open wheel.      *)
(***************************************************************************)
AddressInv == AddressTypeOK /\ PickerChain /\ PickerItemValid

(***************************************************************************)
(* The list behind a visible field is never empty and holds rows of the    *)
(* tables only.                                                            *)
(***************************************************************************)
LEMMA ListNotEmpty ==
    ASSUME AddressTypeOK, NEW type \in Types, FieldVisible(type)
    PROVE  /\ List(type) # {}
           /\ List(type) \subseteq Places
<1>1. CASE type = "province"
    BY <1>1, NoEmptyList DEF List, Places
<1>2. CASE type = "district"
    <2>1. provinceId \in Provinces
        BY <1>2 DEF FieldVisible, AddressTypeOK
    <2>2. List(type) = DistrictsOf(provinceId)
        BY <1>2 DEF List
    <2> QED
        BY <2>1, <2>2, NoEmptyList DEF DistrictsOf, Places
<1>3. CASE type = "subdistrict"
    <2>1. districtId \in Districts
        BY <1>3 DEF FieldVisible, AddressTypeOK
    <2>2. List(type) = SubdistrictsOf(districtId)
        BY <1>3 DEF List
    <2> QED
        BY <2>1, <2>2, NoEmptyList DEF SubdistrictsOf, Places
<1> QED
    BY <1>1, <1>2, <1>3 DEF Types

(***************************************************************************)
(* A wheel opens on a row of its list: indexWhere finds the selected id,   *)
(* because the ids form a chain.                                           *)
(***************************************************************************)
LEMMA InitialItemInList ==
    ASSUME AddressTypeOK, PickerChain, NEW type \in Types, FieldVisible(type)
    PROVE  InitialItem(type) \in List(type)
<1>1. SelectedId(type) # NULL => SelectedId(type) \in List(type)
    <2>1. CASE type = "province"
        BY <2>1 DEF SelectedId, List, AddressTypeOK
    <2>2. CASE type = "district"
        BY <2>2, Tables DEF SelectedId, List, AddressTypeOK, PickerChain,
                            DistrictInProvince, DistrictsOf
    <2>3. CASE type = "subdistrict"
        BY <2>3, Tables DEF SelectedId, List, AddressTypeOK, PickerChain,
                            SubdistrictInDistrict, SubdistrictsOf
    <2> QED
        BY <2>1, <2>2, <2>3 DEF Types
<1>2. (CHOOSE x \in List(type) : TRUE) \in List(type)
    BY ListNotEmpty
<1> QED
    BY <1>1, <1>2 DEF InitialItem

(* The picker starts empty. *)
LEMMA AddressInitInv == AddressInit => AddressInv
<1> SUFFICES ASSUME AddressInit PROVE AddressInv
    OBVIOUS
<1>1. AddressTypeOK
    BY DEF AddressInit, AddressTypeOK
<1>2. PickerChain
    BY DEF AddressInit, PickerChain, DistrictInProvince,
           SubdistrictInDistrict, PostcodeOfSubdistrict
<1>3. PickerItemValid
    BY DEF AddressInit, PickerItemValid
<1> QED
    BY <1>1, <1>2, <1>3 DEF AddressInv

(* Steps that leave the ids alone keep the chain. *)
LEMMA SameIdsSameChain ==
    ASSUME PickerChain, UNCHANGED <<ids, names>>
    PROVE  PickerChain'
BY DEF PickerChain, DistrictInProvince, SubdistrictInDistrict,
       PostcodeOfSubdistrict, ids, names

LEMMA SameAddress ==
    ASSUME AddressInv, UNCHANGED addressVars
    PROVE  AddressInv'
<1>1. UNCHANGED <<data, picker, ids, names>>
    BY DEF addressVars
<1>2. PickerChain'
    BY <1>1, SameIdsSameChain DEF AddressInv
<1>3. AddressTypeOK'
    BY <1>1 DEF AddressInv, AddressTypeOK, ids, names
<1>4. PickerItemValid'
    BY <1>1 DEF AddressInv, PickerItemValid, List, DistrictsOf,
                SubdistrictsOf, ids
<1> QED
    BY <1>2, <1>3, <1>4 DEF AddressInv

LEMMA LoadDataInv ==
    ASSUME AddressInv, NEW outcome, LoadData(outcome)
    PROVE  AddressInv'
<1>1. UNCHANGED <<picker, ids, names>> /\ data' \in {"loaded", "failed"}
    BY DEF LoadData
<1>2. PickerChain'
    BY <1>1, SameIdsSameChain DEF AddressInv
<1>3. AddressTypeOK'
    BY <1>1 DEF AddressInv, AddressTypeOK, ids, names
<1>4. PickerItemValid'
    BY <1>1 DEF AddressInv, PickerItemValid, List, DistrictsOf,
                SubdistrictsOf, ids
<1> QED
    BY <1>2, <1>3, <1>4 DEF AddressInv

LEMMA ClosePickerInv ==
    ASSUME AddressInv, picker' = NoPicker, UNCHANGED <<data, ids, names>>
    PROVE  AddressInv'
<1>1. PickerChain'
    BY SameIdsSameChain DEF AddressInv
<1>2. AddressTypeOK'
    BY DEF AddressInv, AddressTypeOK, ids, names
<1>3. PickerItemValid'
    BY DEF PickerItemValid
<1> QED
    BY <1>1, <1>2, <1>3 DEF AddressInv

(* A wheel that moves within its list stays valid. *)
LEMMA MovePickerInv ==
    ASSUME AddressInv, NEW type \in Types, NEW x \in List(type),
           FieldVisible(type), picker' = [type |-> type, item |-> x],
           UNCHANGED <<data, ids, names>>
    PROVE  AddressInv'
<1>1. PickerChain'
    BY SameIdsSameChain DEF AddressInv
<1>2. x \in Places
    BY ListNotEmpty DEF AddressInv
<1>3. AddressTypeOK'
    BY <1>2 DEF AddressInv, AddressTypeOK, ids, names
<1>4. picker'.type = type /\ picker'.item = x
    OBVIOUS
<1>5. List(type)' = List(type)
    BY DEF List, DistrictsOf, SubdistrictsOf, ids
<1>6. PickerItemValid'
    BY <1>4, <1>5 DEF PickerItemValid, List
<1> QED
    BY <1>1, <1>3, <1>6 DEF AddressInv

LEMMA ShowPickerInv ==
    ASSUME AddressInv, NEW type \in Types, ShowPicker(type)
    PROVE  AddressInv'
<1>1. InitialItem(type) \in List(type)
    BY InitialItemInList DEF AddressInv, ShowPicker
<1> QED
    BY <1>1, MovePickerInv DEF ShowPicker

(* An open wheel belongs to a visible field: its list is not empty. *)
LEMMA OpenWheel ==
    ASSUME AddressInv, picker # NoPicker
    PROVE  /\ picker.type \in Types
           /\ picker = [type |-> picker.type, item |-> picker.item]
           /\ picker.item \in List(picker.type)
           /\ FieldVisible(picker.type)
<1>1. /\ picker.type \in Types
      /\ picker = [type |-> picker.type, item |-> picker.item]
      /\ picker.item \in List(picker.type)
    BY DEF AddressInv, AddressTypeOK, PickerItemValid
<1>2. CASE picker.type = "province"
    BY <1>1, <1>2 DEF FieldVisible
<1>3. CASE picker.type = "district"
    BY <1>1, <1>3, Tables DEF FieldVisible, List, DistrictsOf, Places
<1>4. CASE picker.type = "subdistrict"
    BY <1>1, <1>4, Tables DEF FieldVisible, List, SubdistrictsOf, Places
<1> QED
    BY <1>1, <1>2, <1>3, <1>4 DEF Types

LEMMA ScrollToInv ==
    ASSUME AddressInv, NEW x, ScrollTo(x)
    PROVE  AddressInv'
<1>1. picker # NoPicker /\ x \in List(picker.type)
    BY DEF ScrollTo
<1>2. picker' = [type |-> picker.type, item |-> x]
    BY <1>1, OpenWheel DEF ScrollTo
<1> QED
    BY <1>1, <1>2, OpenWheel, MovePickerInv DEF ScrollTo

(* What Done finds under the wheel. *)
LEMMA DoneItem ==
    ASSUME AddressInv, NEW type \in Types, DoneEnabled(type)
    PROVE  picker.item \in List(type)
<1>1. picker # NoPicker
    BY Tables DEF DoneEnabled, NoPicker
<1> QED
    BY <1>1, OpenWheel DEF DoneEnabled

LEMMA DoneProvinceInv ==
    ASSUME AddressInv, DoneProvince
    PROVE  AddressInv'
<1>1. picker.item \in Provinces
    BY DoneItem DEF DoneProvince, List, Types
<1>2. nameTh[picker.item] \in Names
    BY <1>1 DEF Names, Places
<1>3. AddressTypeOK'
    BY <1>1, <1>2 DEF AddressInv, AddressTypeOK, DoneProvince
<1>4. PickerChain'
    BY <1>1 DEF DoneProvince, PickerChain, DistrictInProvince,
                SubdistrictInDistrict, PostcodeOfSubdistrict
<1>5. PickerItemValid'
    BY DEF DoneProvince, PickerItemValid
<1> QED
    BY <1>3, <1>4, <1>5 DEF AddressInv

LEMMA DoneDistrictInv ==
    ASSUME AddressInv, DoneDistrict
    PROVE  AddressInv'
<1>1. picker.item \in Districts /\ provinceOf[picker.item] = provinceId
    BY DoneItem DEF DoneDistrict, List, Types, DistrictsOf
<1>2. nameTh[picker.item] \in Names
    BY <1>1 DEF Names, Places
<1>3. AddressTypeOK'
    BY <1>1, <1>2 DEF AddressInv, AddressTypeOK, DoneDistrict
<1>4. PickerChain'
    BY <1>1 DEF AddressInv, DoneDistrict, PickerChain, DistrictInProvince,
                SubdistrictInDistrict, PostcodeOfSubdistrict
<1>5. PickerItemValid'
    BY DEF DoneDistrict, PickerItemValid
<1> QED
    BY <1>3, <1>4, <1>5 DEF AddressInv

LEMMA DoneSubdistrictInv ==
    ASSUME AddressInv, DoneSubdistrict
    PROVE  AddressInv'
<1>1. picker.item \in Subdistricts /\ amphurOf[picker.item] = districtId
    BY DoneItem DEF DoneSubdistrict, List, Types, SubdistrictsOf
<1>2. nameTh[picker.item] \in Names /\ zipcodeOf[picker.item] \in Postcodes
    BY <1>1 DEF Names, Places, Postcodes
<1>3. AddressTypeOK'
    BY <1>1, <1>2 DEF AddressInv, AddressTypeOK, DoneSubdistrict
<1>4. subdistrictId' # NULL
    BY <1>1, Tables DEF DoneSubdistrict, Places
<1>5. PickerChain'
    BY <1>1, <1>4 DEF AddressInv, DoneSubdistrict, PickerChain,
                DistrictInProvince, SubdistrictInDistrict,
                PostcodeOfSubdistrict
<1>6. PickerItemValid'
    BY DEF DoneSubdistrict, PickerItemValid
<1> QED
    BY <1>3, <1>5, <1>6 DEF AddressInv

-----------------------------------------------------------------------------

(* The copy of each level is up to date while the picker has its id. *)
FormHoldsIds ==
    /\ provinceId # NULL => selectedProvince = nameTh[provinceId]
    /\ districtId # NULL => selectedDistrict = nameTh[districtId]
    /\ subdistrictId # NULL =>
          /\ selectedSubDistrict = nameTh[subdistrictId]
          /\ selectedPostalCode = zipcodeOf[subdistrictId]

(* The last two copies are always of one row. *)
SelectedPair ==
    selectedSubDistrict # NULL =>
        \E s \in Subdistricts : /\ nameTh[s] = selectedSubDistrict
                                /\ zipcodeOf[s] = selectedPostalCode

DocumentsOK == HomesComplete /\ PostalCodeMatches

Inv ==
    /\ TypeOK
    /\ AddressInv
    /\ FormHoldsIds
    /\ SelectedPair
    /\ ButtonFollowsForm
    /\ DocumentsOK

(* The variables of the form proper keep their types when they keep their *)
(* values.                                                                *)
FormTypeOK ==
    /\ page \in {"open", "closed"}
    /\ user \in {User, NULL}
    /\ nameEmpty \in BOOLEAN
    /\ addressLength \in 0 .. MaxLength
    /\ currentLength \in 0 .. MaxLength
    /\ selectedProvince \in Names \cup {NULL}
    /\ selectedDistrict \in Names \cup {NULL}
    /\ selectedSubDistrict \in Names \cup {NULL}
    /\ selectedPostalCode \in Postcodes \cup {NULL}
    /\ isButtonDisabled \in BOOLEAN
    /\ errorMessage \in {"", "noUser"}
    /\ taps \in Nat
    /\ creates \subseteq Home
    /\ homes \subseteq Home

LEMMA TypeSplit == TypeOK <=> AddressTypeOK /\ FormTypeOK
BY DEF TypeOK, FormTypeOK

-----------------------------------------------------------------------------

LEMMA InitInv == Init => Inv
<1> SUFFICES ASSUME Init PROVE Inv
    OBVIOUS
<1>1. AddressInv
    BY AddressInitInv DEF Init
<1>2. FormTypeOK
    <2>1. 0 \in 0 .. MaxLength /\ 0 \in Nat
        BY FormConstants
    <2> QED
        BY <2>1, Zenon DEF Init, FormTypeOK
<1>3. TypeOK
    BY <1>1, <1>2, TypeSplit DEF AddressInv
<1>4. FormHoldsIds /\ SelectedPair
    BY DEF Init, AddressInit, FormHoldsIds, SelectedPair
<1>5. ButtonFollowsForm
    BY DEF Init, ButtonFollowsForm, Incomplete
<1>6. DocumentsOK
    BY DEF Init, DocumentsOK, HomesComplete, PostalCodeMatches
<1> QED
    BY <1>1, <1>3, <1>4, <1>5, <1>6 DEF Inv

(* Any edit that recomputes the flag leaves it right. *)
LEMMA CheckedButton == CheckFormValidity => ButtonFollowsForm'
BY DEF CheckFormValidity, ButtonFollowsForm

(* Documents already sent do not change. *)
LEMMA SameDocuments ==
    ASSUME DocumentsOK, UNCHANGED <<creates, homes>>
    PROVE  DocumentsOK'
BY DEF DocumentsOK, HomesComplete, PostalCodeMatches

(***************************************************************************)
(* A step of the picker that keeps its ids, while the form stands still    *)
(* but for its page and the session.                                       *)
(***************************************************************************)
LEMMA QuietStep ==
    ASSUME Inv, AddressInv', UNCHANGED ids,
           page' \in {"open", "closed"}, user' \in {User, NULL},
           UNCHANGED <<texts, selected, isButtonDisabled, submission>>
    PROVE  Inv'
<1>1. UNCHANGED <<creates, homes>>
    BY DEF submission
<1>2. FormTypeOK'
    BY DEF Inv, TypeOK, FormTypeOK, texts, selected, submission
<1>3. TypeOK'
    BY <1>2, TypeSplit DEF AddressInv, TypeOK, AddressTypeOK, FormTypeOK
<1>4. FormHoldsIds'
    BY DEF Inv, FormHoldsIds, ids, selected
<1>5. SelectedPair'
    BY DEF Inv, SelectedPair, selected
<1>6. ButtonFollowsForm'
    BY DEF Inv, ButtonFollowsForm, Incomplete, texts, selected
<1>7. DocumentsOK'
    BY <1>1, SameDocuments DEF Inv
<1> QED
    BY <1>3, <1>4, <1>5, <1>6, <1>7 DEF Inv

(* The picker's steps that do not call the form back. *)
LEMMA AddressStepInv ==
    ASSUME Inv,
           \/ \E outcome \in {"loaded", "failed"} : Load(outcome)
           \/ \E type \in Types : OpenPicker(type)
           \/ \E x \in Places : Scroll(x)
           \/ CancelPicker
    PROVE  Inv'
<1>0. AddressInv /\ page \in {"open", "closed"} /\ user \in {User, NULL}
    BY DEF Inv, TypeOK
<1>1. ASSUME NEW outcome \in {"loaded", "failed"}, Load(outcome)
      PROVE  Inv'
    <2>1. AddressInv'
        BY <1>0, <1>1, LoadDataInv DEF Load, AddressStep
    <2> QED
        BY <1>0, <1>1, <2>1, QuietStep DEF Load, AddressStep, LoadData
<1>2. ASSUME NEW type \in Types, OpenPicker(type)
      PROVE  Inv'
    <2>1. AddressInv'
        BY <1>0, <1>2, ShowPickerInv DEF OpenPicker, AddressStep
    <2> QED
        BY <1>0, <1>2, <2>1, QuietStep DEF OpenPicker, AddressStep, ShowPicker
<1>3. ASSUME NEW x \in Places, Scroll(x)
      PROVE  Inv'
    <2>1. AddressInv'
        BY <1>0, <1>3, ScrollToInv DEF Scroll, AddressStep
    <2> QED
        BY <1>0, <1>3, <2>1, QuietStep DEF Scroll, AddressStep, ScrollTo
<1>4. ASSUME CancelPicker
      PROVE  Inv'
    <2>1. AddressInv'
        BY <1>0, <1>4, ClosePickerInv DEF CancelPicker, AddressStep, Cancel
    <2> QED
        BY <1>0, <1>4, <2>1, QuietStep DEF CancelPicker, AddressStep, Cancel
<1> QED
    BY <1>1, <1>2, <1>3, <1>4

-----------------------------------------------------------------------------
(* Done on the three wheels. *)

LEMMA ChooseProvinceInv == ASSUME Inv, ChooseProvince PROVE Inv'
<1>1. AddressInv'
    BY DoneProvinceInv DEF Inv, ChooseProvince
<1>2. /\ UNCHANGED <<page, user, texts, selectedDistrict, selectedSubDistrict,
                     selectedPostalCode, submission>>
      /\ selectedProvince' = provinceName'
      /\ CheckFormValidity
    BY DEF ChooseProvince
<1>3. isButtonDisabled' \in BOOLEAN
    BY <1>2 DEF CheckFormValidity, Incomplete
<1>4. provinceName' \in Names \cup {NULL}
    BY <1>1 DEF AddressInv, AddressTypeOK
<1>5. FormTypeOK'
    BY <1>2, <1>3, <1>4 DEF Inv, TypeOK, FormTypeOK, texts, submission
<1>6. TypeOK'
    BY <1>1, <1>5 DEF AddressInv, TypeOK, FormTypeOK
<1>7. FormHoldsIds'
    BY <1>1, <1>2 DEF AddressInv, PickerChain, FormHoldsIds, ChooseProvince,
                      DoneProvince
<1>8. SelectedPair'
    BY <1>2 DEF Inv, SelectedPair
<1>9. DocumentsOK'
    BY <1>2, SameDocuments DEF Inv, submission
<1> QED
    BY <1>1, <1>2, <1>6, <1>7, <1>8, <1>9, CheckedButton DEF Inv

LEMMA ChooseDistrictInv == ASSUME Inv, ChooseDistrict PROVE Inv'
<1>1. AddressInv'
    BY DoneDistrictInv DEF Inv, ChooseDistrict
<1>2. /\ UNCHANGED <<page, user, texts, selectedProvince, selectedSubDistrict,
                     selectedPostalCode, submission>>
      /\ selectedDistrict' = districtName'
      /\ CheckFormValidity
    BY DEF ChooseDistrict
<1>3. isButtonDisabled' \in BOOLEAN
    BY <1>2 DEF CheckFormValidity, Incomplete
<1>4. districtName' \in Names \cup {NULL}
    BY <1>1 DEF AddressInv, AddressTypeOK
<1>5. FormTypeOK'
    BY <1>2, <1>3, <1>4 DEF Inv, TypeOK, FormTypeOK, texts, submission
<1>6. TypeOK'
    BY <1>1, <1>5 DEF AddressInv, TypeOK, FormTypeOK
<1>7. FormHoldsIds'
    BY <1>1, <1>2 DEF Inv, AddressInv, PickerChain, DistrictInProvince,
                      FormHoldsIds, ChooseDistrict, DoneDistrict
<1>8. SelectedPair'
    BY <1>2 DEF Inv, SelectedPair
<1>9. DocumentsOK'
    BY <1>2, SameDocuments DEF Inv, submission
<1> QED
    BY <1>1, <1>2, <1>6, <1>7, <1>8, <1>9, CheckedButton DEF Inv

LEMMA ChooseSubdistrictInv == ASSUME Inv, ChooseSubdistrict PROVE Inv'
<1>1. AddressInv'
    BY DoneSubdistrictInv DEF Inv, ChooseSubdistrict
<1>2. /\ UNCHANGED <<page, user, texts, selectedProvince, selectedDistrict,
                     submission>>
      /\ selectedSubDistrict' = subdistrictName'
      /\ selectedPostalCode' = postcode'
      /\ CheckFormValidity
    BY DEF ChooseSubdistrict
<1>3. isButtonDisabled' \in BOOLEAN
    BY <1>2 DEF CheckFormValidity, Incomplete
<1>4. /\ subdistrictName' \in Names \cup {NULL}
      /\ postcode' \in Postcodes \cup {NULL}
    BY <1>1 DEF AddressInv, AddressTypeOK
<1>5. FormTypeOK'
    BY <1>2, <1>3, <1>4 DEF Inv, TypeOK, FormTypeOK, texts, submission
<1>6. TypeOK'
    BY <1>1, <1>5 DEF AddressInv, TypeOK, FormTypeOK
<1>7. picker.item \in Subdistricts
    BY DoneItem DEF Inv, ChooseSubdistrict, DoneSubdistrict, List, Types,
                    SubdistrictsOf
<1>8. FormHoldsIds'
    BY <1>2 DEF Inv, FormHoldsIds, ChooseSubdistrict, DoneSubdistrict
<1>9. SelectedPair'
    BY <1>2, <1>7 DEF SelectedPair, ChooseSubdistrict, DoneSubdistrict
<1>10. DocumentsOK'
    BY <1>2, SameDocuments DEF Inv, submission
<1> QED
    BY <1>1, <1>2, <1>6, <1>8, <1>9, <1>10, CheckedButton DEF Inv

-----------------------------------------------------------------------------
(* Typing. *)

LEMMA EditNameInv ==
    ASSUME Inv, NEW empty \in BOOLEAN, EditName(empty)
    PROVE  Inv'
<1>1. /\ nameEmpty' = empty
      /\ UNCHANGED <<addressVars, page, user, addressLength, currentLength,
                     selected, submission>>
      /\ CheckFormValidity
    BY DEF EditName
<1>2. isButtonDisabled' \in BOOLEAN
    BY <1>1 DEF CheckFormValidity, Incomplete
<1>3. AddressInv'
    BY <1>1, SameAddress DEF Inv
<1>4. FormTypeOK'
    BY <1>1, <1>2 DEF Inv, TypeOK, FormTypeOK, selected, submission
<1>5. TypeOK'
    BY <1>3, <1>4 DEF AddressInv, TypeOK, FormTypeOK
<1>6. FormHoldsIds' /\ SelectedPair'
    BY <1>1 DEF Inv, FormHoldsIds, SelectedPair, selected, addressVars, ids
<1>7. DocumentsOK'
    BY <1>1, SameDocuments DEF Inv, submission
<1> QED
    BY <1>1, <1>3, <1>5, <1>6, <1>7, CheckedButton DEF Inv

(* The text that stays in the text area is within its limit. *)
LEMMA TruncatedFits ==
    ASSUME NEW n \in Nat
    PROVE  Truncated(n) \in 0 .. MaxLength
BY FormConstants DEF Truncated

LEMMA EditAddressInv ==
    ASSUME Inv, NEW n \in 0 .. MaxTyped, EditAddress(n)
    PROVE  Inv'
<1>1. /\ addressLength' = Truncated(n)
      /\ currentLength' = Truncated(n)
      /\ UNCHANGED <<addressVars, page, user, nameEmpty, selected, submission>>
      /\ CheckFormValidity
    BY DEF EditAddress
<1>2. isButtonDisabled' \in BOOLEAN
    BY <1>1 DEF CheckFormValidity, Incomplete
<1>3. AddressInv'
    BY <1>1, SameAddress DEF Inv
<1>4. Truncated(n) \in 0 .. MaxLength
    BY TruncatedFits, FormConstants
<1>5. FormTypeOK'
    BY <1>1, <1>2, <1>4 DEF Inv, TypeOK, FormTypeOK, selected, submission
<1>6. TypeOK'
    BY <1>3, <1>5 DEF AddressInv, TypeOK, FormTypeOK
<1>7. FormHoldsIds' /\ SelectedPair'
    BY <1>1 DEF Inv, FormHoldsIds, SelectedPair, selected, addressVars, ids
<1>8. DocumentsOK'
    BY <1>1, SameDocuments DEF Inv, submission
<1> QED
    BY <1>1, <1>3, <1>6, <1>7, <1>8, CheckedButton DEF Inv

-----------------------------------------------------------------------------
(* Submitting. *)

(***************************************************************************)
(* The document a tap on the enabled button sends is complete, because the *)
(* flag is not stale, and its postal code is its subdistrict's.            *)
(***************************************************************************)
LEMMA DocumentGood ==
    ASSUME Inv, ~isButtonDisabled, ~nameEmpty, user # NULL
    PROVE  /\ Document \in Home
           /\ ~Document.nameEmpty
           /\ Document.addressLength \in 1 .. MaxLength
           /\ NULL \notin {Document.province, Document.district,
                           Document.subDistrict, Document.postalCode}
           /\ Document.owner # NULL
           /\ \E s \in Subdistricts : /\ nameTh[s] = Document.subDistrict
                                      /\ zipcodeOf[s] = Document.postalCode
<1>1. ~Incomplete
    BY DEF Inv, ButtonFollowsForm
<1>2. /\ addressLength # 0
      /\ selectedProvince # NULL
      /\ selectedDistrict # NULL
      /\ selectedSubDistrict # NULL
      /\ selectedPostalCode # NULL
    BY <1>1 DEF Incomplete
<1>0. addressLength \in 0 .. MaxLength /\ taps \in Nat
    BY Zenon DEF Inv, TypeOK
<1>3. addressLength \in 1 .. MaxLength /\ addressLength \in Nat
    BY <1>0, <1>2, FormConstants
<1>4. taps + 1 \in Nat
    BY <1>0
<1>5. Document \in Home
    BY <1>3, <1>4, Zenon DEF Document, Home, Inv, TypeOK
<1>6. /\ Document.nameEmpty = nameEmpty
      /\ Document.addressLength = addressLength
      /\ Document.province = selectedProvince
      /\ Document.district = selectedDistrict
      /\ Document.subDistrict = selectedSubDistrict
      /\ Document.postalCode = selectedPostalCode
      /\ Document.owner = user
    BY DEF Document
<1>7. \E s \in Subdistricts : /\ nameTh[s] = selectedSubDistrict
                              /\ zipcodeOf[s] = selectedPostalCode
    BY <1>2 DEF Inv, SelectedPair
<1> QED
    BY <1>2, <1>3, <1>5, <1>6, <1>7

LEMMA CreateHomeInv == ASSUME Inv, CreateHome PROVE Inv'
<1>1. /\ UNCHANGED <<addressVars, page, user, texts, selected,
                     isButtonDisabled, homes>>
      /\ ~isButtonDisabled /\ ~nameEmpty
      /\ taps' = taps + 1
      /\ errorMessage' \in {"", "noUser"}
    BY DEF CreateHome
<1>2. AddressInv'
    BY <1>1, SameAddress DEF Inv
<1>3. FormHoldsIds' /\ SelectedPair'
    BY <1>1 DEF Inv, FormHoldsIds, SelectedPair, selected, addressVars, ids
<1>4. ButtonFollowsForm'
    BY <1>1 DEF Inv, ButtonFollowsForm, Incomplete, texts, selected
<1>5. creates' \subseteq Home /\ DocumentsOK'
    <2>1. CASE UNCHANGED creates
        BY <1>1, <2>1, SameDocuments DEF Inv, TypeOK
    <2>2. CASE user # NULL /\ creates' = creates \cup {Document}
        <3>1. creates' \subseteq Home
            BY <1>1, <2>2, DocumentGood DEF Inv, TypeOK
        <3>2. HomesComplete'
            BY <1>1, <2>2, DocumentGood DEF Inv, DocumentsOK, HomesComplete
        <3>3. PostalCodeMatches'
            BY <1>1, <2>2, DocumentGood
               DEF Inv, DocumentsOK, PostalCodeMatches
        <3> QED
            BY <3>1, <3>2, <3>3 DEF DocumentsOK
    <2> QED
        BY <2>1, <2>2 DEF CreateHome
<1>6. taps + 1 \in Nat
    <2>1. taps \in Nat
        BY Zenon DEF Inv, TypeOK
    <2> QED
        BY <2>1
<1>7. FormTypeOK'
    BY <1>1, <1>5, <1>6 DEF Inv, TypeOK, FormTypeOK, texts, selected
<1>8. TypeOK'
    BY <1>2, <1>7 DEF AddressInv, TypeOK, FormTypeOK
<1> QED
    BY <1>2, <1>3, <1>4, <1>5, <1>8 DEF Inv

LEMMA CreateReturnsInv ==
    ASSUME Inv, NEW c \in creates, NEW ok \in BOOLEAN, CreateReturns(c, ok)
    PROVE  Inv'
<1>1. /\ UNCHANGED <<data, ids, names, user, texts, selected,
                     isButtonDisabled, errorMessage, taps>>
      /\ picker' = NoPicker /\ page' = "closed"
    BY DEF CreateReturns
<1>2. creates' \cup homes' \subseteq creates \cup homes
    BY DEF CreateReturns
<1>3. AddressInv'
    BY <1>1, ClosePickerInv DEF Inv
<1>4. FormHoldsIds' /\ SelectedPair'
    BY <1>1 DEF Inv, FormHoldsIds, SelectedPair, selected, ids
<1>5. ButtonFollowsForm'
    BY <1>1 DEF Inv, ButtonFollowsForm, Incomplete, texts, selected
<1>6. DocumentsOK'
    BY <1>2 DEF Inv, DocumentsOK, HomesComplete, PostalCodeMatches
<1>7. creates' \subseteq Home /\ homes' \subseteq Home
    BY <1>2 DEF Inv, TypeOK
<1>8. FormTypeOK'
    BY <1>1, <1>7 DEF Inv, TypeOK, FormTypeOK, texts, selected
<1>9. TypeOK'
    BY <1>3, <1>8 DEF AddressInv, TypeOK, FormTypeOK
<1> QED
    BY <1>3, <1>4, <1>5, <1>6, <1>9 DEF Inv

(* Leaving the page, and the end of the session, change nothing else. *)
LEMMA LeaveInv == ASSUME Inv, Back \/ SessionEnds PROVE Inv'
<1>1. /\ UNCHANGED <<addressVars, texts, selected, isButtonDisabled,
                     submission>>
      /\ page' \in {"open", "closed"} /\ user' \in {User, NULL}
    BY DEF Back, SessionEnds, Inv, TypeOK
<1>2. AddressInv'
    BY <1>1, SameAddress DEF Inv
<1> QED
    BY <1>1, <1>2, QuietStep DEF addressVars

LEMMA StutterInv == ASSUME Inv, UNCHANGED vars PROVE Inv'
<1>1. /\ UNCHANGED <<addressVars, texts, selected, isButtonDisabled,
                     submission>>
      /\ page' \in {"open", "closed"} /\ user' \in {User, NULL}
    BY DEF vars, Inv, TypeOK
<1>2. AddressInv'
    BY <1>1, SameAddress DEF Inv
<1> QED
    BY <1>1, <1>2, QuietStep DEF addressVars

-----------------------------------------------------------------------------

(* The invariant holds throughout every behaviour of the form. *)
THEOREM Invariance == Spec => []Inv
<1>1. Init => Inv
    BY InitInv
<1>2. Inv /\ [Next]_vars => Inv'
    <2> SUFFICES ASSUME Inv, [Next]_vars PROVE Inv'
        OBVIOUS
    <2>1. CASE UNCHANGED vars
        BY <2>1, StutterInv
    <2>2. CASE Next
        BY <2>2, AddressStepInv, ChooseProvinceInv, ChooseDistrictInv,
           ChooseSubdistrictInv, EditNameInv, EditAddressInv, CreateHomeInv,
           CreateReturnsInv, LeaveInv DEF Next
    <2> QED
        BY <2>1, <2>2
<1> QED
    BY <1>1, <1>2, PTL DEF Spec

(* Type correctness, the limit of the text area included. *)
THEOREM TypeCorrect == Spec => []TypeOK
<1>1. Inv => TypeOK
    BY DEF Inv
<1> QED
    BY <1>1, Invariance, PTL

(***************************************************************************)
(* The picker's ids form a chain of the tables, and an open wheel points   *)
(* at a row of its list, in every state of the form.                       *)
(***************************************************************************)
THEOREM PickerCorrect == Spec => [](PickerChain /\ PickerItemValid)
<1>1. Inv => PickerChain /\ PickerItemValid
    BY DEF Inv, AddressInv
<1> QED
    BY <1>1, Invariance, PTL

(* The submit button is enabled exactly when the form is filled. *)
THEOREM ButtonCorrect == Spec => []ButtonFollowsForm
<1>1. Inv => ButtonFollowsForm
    BY DEF Inv
<1> QED
    BY <1>1, Invariance, PTL

(***************************************************************************)
(* While a postcode is shown the form holds the place the picker shows: a  *)
(* home submitted then names one real place.                               *)
(***************************************************************************)
THEOREM FormFollows == Spec => []FormFollowsPicker
<1>1. Inv => FormFollowsPicker
    <2> SUFFICES ASSUME Inv, postcode # NULL
                 PROVE  /\ selectedPostalCode = postcode
                        /\ selectedSubDistrict = nameTh[subdistrictId]
                        /\ selectedDistrict = nameTh[amphurOf[subdistrictId]]
                        /\ selectedProvince =
                             nameTh[provinceOf[amphurOf[subdistrictId]]]
        BY DEF FormFollowsPicker
    <2>1. subdistrictId \in Subdistricts /\ postcode = zipcodeOf[subdistrictId]
        BY DEF Inv, AddressInv, AddressTypeOK, PickerChain,
               PostcodeOfSubdistrict
    <2>2. districtId = amphurOf[subdistrictId] /\ districtId \in Districts
        BY <2>1, Tables DEF Inv, AddressInv, PickerChain,
                            SubdistrictInDistrict, Places
    <2>3. provinceId = provinceOf[districtId] /\ provinceId \in Provinces
        BY <2>2, Tables DEF Inv, AddressInv, PickerChain,
                            DistrictInProvince, Places
    <2>4. /\ subdistrictId # NULL /\ districtId # NULL /\ provinceId # NULL
        BY <2>1, <2>2, <2>3, Tables DEF Places
    <2> QED
        BY <2>1, <2>2, <2>3, <2>4 DEF Inv, FormHoldsIds
<1> QED
    BY <1>1, Invariance, PTL

(***************************************************************************)
(* Every home sent or stored is complete and its postal code belongs to    *)
(* its subdistrict.                                                        *)
(***************************************************************************)
THEOREM DocumentsCorrect == Spec => [](HomesComplete /\ PostalCodeMatches)
<1>1. Inv => HomesComplete /\ PostalCodeMatches
    BY DEF Inv, DocumentsOK
<1> QED
    BY <1>1, Invariance, PTL

(* The postal code alone: it is that of the subdistrict of its document, *)
(* although both may be left over from an earlier province.              *)
THEOREM PostalCodesCorrect == Spec => []PostalCodeMatches
BY DocumentsCorrect, PTL

(* An open wheel points at a row of its list: Done never indexes with -1. *)
THEOREM WheelsCorrect == Spec => []PickerItemValid
BY PickerCorrect, PTL

-----------------------------------------------------------------------------
(* The picker implements PlaceChoice. *)

(* What the path is at each level of the choice. *)
LEMMA PathIs ==
    /\ provinceId = NULL => Path = <<>>
    /\ provinceId # NULL /\ districtId = NULL => Path = <<provinceId>>
    /\ provinceId # NULL /\ districtId # NULL /\ subdistrictId = NULL
          => Path = <<provinceId, districtId>>
    /\ provinceId # NULL /\ districtId # NULL /\ subdistrictId # NULL
          => Path = <<provinceId, districtId, subdistrictId>>
BY DEF Path

LEMMA PathIsNext ==
    /\ provinceId' # NULL /\ districtId' = NULL => Path' = <<provinceId'>>
    /\ provinceId' # NULL /\ districtId' # NULL /\ subdistrictId' = NULL
          => Path' = <<provinceId', districtId'>>
    /\ provinceId' # NULL /\ districtId' # NULL /\ subdistrictId' # NULL
          => Path' = <<provinceId', districtId', subdistrictId'>>
BY DEF Path

(* Steps that keep the ids keep the choice. *)
LEMMA SameIdsSameChoice ==
    ASSUME UNCHANGED ids
    PROVE  UNCHANGED <<Path, postcode>>
BY DEF Path, ids

LEMMA ProvinceChosen ==
    ASSUME Inv, ChooseProvince
    PROVE  \E p \in Provinces : Choice!ChooseProvince(p)
<1>1. picker.item \in Provinces
    BY DoneItem DEF Inv, ChooseProvince, DoneProvince, List, Types
<1>2. picker.item # NULL
    BY <1>1, Tables DEF Places
<1>3. Path' = <<picker.item>> /\ postcode' = NULL
    BY <1>2, PathIsNext DEF ChooseProvince, DoneProvince
<1> QED
    BY <1>1, <1>3 DEF Choice!ChooseProvince

LEMMA DistrictChosen ==
    ASSUME Inv, ChooseDistrict
    PROVE  \E d \in Districts : Choice!ChooseDistrict(d)
<1>1. picker.item \in Districts /\ provinceOf[picker.item] = provinceId
    BY DoneItem DEF Inv, ChooseDistrict, DoneDistrict, List, Types,
                    DistrictsOf
<1>2. picker.item # NULL /\ provinceId # NULL
    BY <1>1, Tables DEF Places
<1>3. Len(Path) >= 1 /\ Path[1] = provinceId
    BY <1>2, PathIs
<1>4. Path' = <<provinceId, picker.item>> /\ postcode' = NULL
    BY <1>2, PathIsNext DEF ChooseDistrict, DoneDistrict
<1> QED
    BY <1>1, <1>3, <1>4 DEF Choice!ChooseDistrict

LEMMA SubdistrictChosen ==
    ASSUME Inv, ChooseSubdistrict
    PROVE  \E s \in Subdistricts : Choice!ChooseSubdistrict(s)
<1>1. picker.item \in Subdistricts /\ amphurOf[picker.item] = districtId
    BY DoneItem DEF Inv, ChooseSubdistrict, DoneSubdistrict, List, Types,
                    SubdistrictsOf
<1>2. picker.item # NULL /\ districtId \in Districts /\ districtId # NULL
    BY <1>1, Tables DEF Places
<1>3. provinceId # NULL
    BY <1>2, Tables DEF Inv, AddressInv, PickerChain, DistrictInProvince,
                        Places
<1>4. /\ Len(Path) >= 2
      /\ Path[1] = provinceId /\ Path[2] = districtId
    BY <1>2, <1>3, PathIs
<1>5. /\ Path' = <<provinceId, districtId, picker.item>>
      /\ postcode' = zipcodeOf[picker.item]
    BY <1>2, <1>3, PathIsNext DEF ChooseSubdistrict, DoneSubdistrict
<1> QED
    BY <1>1, <1>4, <1>5 DEF Choice!ChooseSubdistrict

LEMMA ChoiceStep ==
    ASSUME Inv, [Next]_vars
    PROVE  [Choice!Next]_<<Path, postcode>>
<1>1. CASE ChooseProvince
    BY <1>1, ProvinceChosen DEF Choice!Next
<1>2. CASE ChooseDistrict
    BY <1>2, DistrictChosen DEF Choice!Next
<1>3. CASE ChooseSubdistrict
    BY <1>3, SubdistrictChosen DEF Choice!Next
<1>4. CASE UNCHANGED ids
    BY <1>4, SameIdsSameChoice
<1>5. (Next /\ ~ChooseProvince /\ ~ChooseDistrict /\ ~ChooseSubdistrict)
        => UNCHANGED ids
    BY DEF Next, Load, OpenPicker, Scroll, CancelPicker, AddressStep,
           LoadData, ShowPicker, ScrollTo, Cancel, EditName, EditAddress,
           CreateHome, CreateReturns, Back, SessionEnds, addressVars
<1>6. UNCHANGED vars => UNCHANGED ids
    BY DEF vars, addressVars
<1> QED
    BY <1>1, <1>2, <1>3, <1>4, <1>5, <1>6

(***************************************************************************)
(* The picker within the form implements the choice of a path in the       *)
(* administrative tree: whatever the form does beside it.                  *)
(***************************************************************************)
THEOREM PickerImplementsChoice == Spec => ChoosesPlaces
<1>1. Init => Choice!Init
    BY PathIs DEF Init, AddressInit, Choice!Init
<1>2. Inv /\ [Next]_vars => [Choice!Next]_<<Path, postcode>>
    BY ChoiceStep
<1> QED
    BY <1>1, <1>2, Invariance, PTL DEF Spec, ChoosesPlaces, Choice!Spec

=============================================================================
