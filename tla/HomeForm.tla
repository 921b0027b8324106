------------------------------ MODULE HomeForm ------------------------------
(***************************************************************************)
(* The form that creates a home, src/lib/pages/home/formCreate.dart, with  *)
(* the two widgets it is built from: the address picker (ThaiAddress) and  *)
(* the bounded text area (src/lib/components/TextArea.dart).               *)
(*                                                                         *)
(* The picker keeps ids; the form keeps its own copies of the names the    *)
(* picker's callbacks hand it, and submits the copies.  One form page is   *)
(* modelled from its initState to its removal, and the writes it started   *)
(* beyond that.  A text is modelled by what the form asks of it: whether   *)
(* the name is empty, and how long the address is.  Where the app goes     *)
(* after a submission is the subject of HomeFlow.                          *)
(***************************************************************************)
EXTENDS ThaiAddress, Naturals

CONSTANTS
    User,        \* the uid signed in when the page opens
    MaxLength,   \* TextArea's maxLength (250 in formCreate.dart)
    MaxTyped,    \* bound: the longest text one edit can leave in the field
    MaxTaps      \* bound: how often the submit button is pressed

ASSUME FormConstants ==
    /\ MaxLength \in Nat \ {0}
    /\ MaxTyped \in Nat
    /\ MaxTaps \in Nat
    /\ User # NULL

VARIABLES
    page,                \* the form's route: "open", or "closed" for good
    user,                \* FirebaseAuth's current user
    nameEmpty,           \* _nameController.text.isEmpty
    addressLength,       \* _addressController.text.length
    currentLength,       \* TextArea's _currentLength, the counter shown
    selectedProvince,    \* the form's copies of the picker's names ...
    selectedDistrict,
    selectedSubDistrict,
    selectedPostalCode,  \* ... and of its postcode
    isButtonDisabled,
    errorMessage,
    taps,                \* submissions so far; numbers the documents
    creates,             \* documents handed to Firestore, not yet answered
    homes                \* the "homes" collection: documents written

selected   == <<selectedProvince, selectedDistrict,
                selectedSubDistrict, selectedPostalCode>>
texts      == <<nameEmpty, addressLength, currentLength>>
submission == <<taps, creates, homes, errorMessage>>
vars == <<addressVars, page, user, texts, selected, isButtonDisabled,
          submission>>

Home == [id : Nat, nameEmpty : BOOLEAN, addressLength : Nat,
         province : Names \cup {NULL}, district : Names \cup {NULL},
         subDistrict : Names \cup {NULL},
         postalCode : Postcodes \cup {NULL}, owner : {User, NULL}]

(***************************************************************************)
(* Every variable stays in its type; in particular no text area ever holds *)
(* more than maxLength characters.                                         *)
(***************************************************************************)
TypeOK ==
    /\ AddressTypeOK
    /\ page \in {"open", "closed"}
    /\ user \in {User, NULL}
    /\ nameEmpty \in BOOLEAN
    /\ addressLength \in 0 .. MaxLength
    /\ currentLength \in 0 .. MaxLength
    /\ selectedProvince \in Names \cup {NULL}
    /\ selectedDistrict \in Names \cup {NULL}
    /\ selectedSubDistrict \in Names \cup {NULL}
    /\ selectedPostalCode \in Postcodes \cup {NULL}
    /\ isButtonDisabled \in BOOLEAN
    /\ errorMessage \in {"", "noUser"}
    /\ taps \in Nat
    /\ creates \subseteq Home
    /\ homes \subseteq Home

-----------------------------------------------------------------------------

(* A slip the properties must notice: the address is not required. *)
IncompleteButForAddress ==
    \/ nameEmpty
    \/ NULL \in {selectedProvince, selectedDistrict,
                 selectedSubDistrict, selectedPostalCode}

(* The six conditions of _checkFormValidity. *)
Incomplete ==
    \/ nameEmpty
    \/ addressLength = 0
    \/ selectedProvince = NULL
    \/ selectedDistrict = NULL
    \/ selectedSubDistrict = NULL
    \/ selectedPostalCode = NULL

(* _checkFormValidity, run by every listener and callback of the form. *)
CheckFormValidity == isButtonDisabled' = Incomplete'

(* The form answers to the user: on screen and no wheel over it. *)
Interactive == page = "open" /\ picker = NoPicker

Init ==
    /\ AddressInit
    /\ page = "open"
    /\ user = User
    /\ nameEmpty = TRUE
    /\ addressLength = 0 /\ currentLength = 0
    /\ selectedProvince = NULL /\ selectedDistrict = NULL
    /\ selectedSubDistrict = NULL /\ selectedPostalCode = NULL
    /\ isButtonDisabled = TRUE
    /\ errorMessage = ""
    /\ taps = 0
    /\ creates = {}
    /\ homes = {}

-----------------------------------------------------------------------------
(* The picker's steps that do not call the form back. *)

AddressStep(step) ==
    /\ page = "open"
    /\ step
    /\ UNCHANGED <<page, user, texts, selected, isButtonDisabled, submission>>

Load(outcome)    == AddressStep(LoadData(outcome))
OpenPicker(type) == Interactive /\ AddressStep(ShowPicker(type))
Scroll(x)        == AddressStep(ScrollTo(x))
CancelPicker     == AddressStep(Cancel)

(* Done on each wheel, with the callbacks the form passed to the picker. *)

ChooseProvince ==
    /\ page = "open"
    /\ DoneProvince
    /\ selectedProvince' = provinceName'
    /\ UNCHANGED <<page, user, texts, selectedDistrict, selectedSubDistrict,
                   selectedPostalCode, submission>>
    /\ CheckFormValidity

(* A slip the properties must notice: onDistrictSelected is not passed. *)
ChooseDistrictUnheard ==
    /\ page = "open"
    /\ DoneDistrict
    /\ UNCHANGED <<page, user, texts, selected, isButtonDisabled, submission>>

ChooseDistrict ==
    /\ page = "open"
    /\ DoneDistrict
    /\ selectedDistrict' = districtName'
    /\ UNCHANGED <<page, user, texts, selectedProvince, selectedSubDistrict,
                   selectedPostalCode, submission>>
    /\ CheckFormValidity

(* A slip the properties must notice: the postcode is only taken once. *)
ChooseSubdistrictOnce ==
    /\ page = "open"
    /\ DoneSubdistrict
    /\ selectedSubDistrict' = subdistrictName'
    /\ selectedPostalCode' = IF selectedPostalCode = NULL THEN postcode'
                             ELSE selectedPostalCode
    /\ UNCHANGED <<page, user, texts, selectedProvince, selectedDistrict,
                   submission>>
    /\ CheckFormValidity

(* onSubDistrictSelected, then onPostcodeSelected. *)
ChooseSubdistrict ==
    /\ page = "open"
    /\ DoneSubdistrict
    /\ selectedSubDistrict' = subdistrictName'
    /\ selectedPostalCode' = postcode'
    /\ UNCHANGED <<page, user, texts, selectedProvince, selectedDistrict,
                   submission>>
    /\ CheckFormValidity

-----------------------------------------------------------------------------
(* Typing. *)

(* A slip the properties must notice: the name field has no listener. *)
EditNameUnheard(empty) ==
    /\ Interactive
    /\ nameEmpty' = empty
    /\ UNCHANGED <<addressVars, page, user, addressLength, currentLength,
                   selected, isButtonDisabled, submission>>

EditName(empty) ==
    /\ Interactive
    /\ nameEmpty' = empty
    /\ UNCHANGED <<addressVars, page, user, addressLength, currentLength,
                   selected, submission>>
    /\ CheckFormValidity

(* A slip the properties must notice: a long text is not cut. *)
Uncut(n) == n

(***************************************************************************)
(* TextArea._updateLength: a text longer than maxLength is cut, and the    *)
(* assignment of the shorter text runs every listener again, so counter    *)
(* and button are computed from the text that stays.                       *)
(***************************************************************************)
Truncated(n) == IF n > MaxLength THEN MaxLength ELSE n

EditAddress(n) ==
    /\ Interactive
    /\ n \in 0 .. MaxTyped
    /\ addressLength' = Truncated(n)
    /\ currentLength' = addressLength'
    /\ UNCHANGED <<addressVars, page, user, nameEmpty, selected, submission>>
    /\ CheckFormValidity

-----------------------------------------------------------------------------
(* Submitting. *)

Document ==
    [id          |-> taps + 1,
     nameEmpty   |-> nameEmpty,
     addressLength |-> addressLength,
     province    |-> selectedProvince,
     district    |-> selectedDistrict,
     subDistrict |-> selectedSubDistrict,
     postalCode  |-> selectedPostalCode,
     owner       |-> user]

(***************************************************************************)
(* _createHome up to its await.  The button is not disabled meanwhile: it  *)
(* can be pressed again while earlier documents are on their way.          *)
(***************************************************************************)
CreateHome ==
    /\ Interactive
    /\ ~isButtonDisabled
    /\ ~nameEmpty                       \* the name field's validator
    /\ taps < MaxTaps
    /\ taps' = taps + 1
    /\ \/ /\ user = NULL
          /\ errorMessage' = "noUser"
          /\ UNCHANGED creates
       \/ /\ user # NULL
          /\ errorMessage' = ""
          /\ creates' = creates \cup {Document}
    /\ UNCHANGED <<addressVars, page, user, texts, selected,
                   isButtonDisabled, homes>>

(***************************************************************************)
(* FireBaseController.create returns: the document was written, or adding  *)
(* it threw and the exception was printed and dropped.  _createHome goes   *)
(* on the same way after both: popUntil removes the form, and any wheel    *)
(* over it.  If the form has gone before, the rest of _createHome throws   *)
(* without effect.                                                         *)
(***************************************************************************)
CreateReturns(c, ok) ==
    /\ c \in creates
    /\ creates' = creates \ {c}
    /\ homes' = IF ok THEN homes \cup {c} ELSE homes
    /\ page' = "closed"
    /\ picker' = NoPicker
    /\ UNCHANGED <<data, ids, names, user, texts, selected,
                   isButtonDisabled, errorMessage, taps>>

(* The back button of the form, or of the system. *)
Back ==
    /\ Interactive
    /\ page' = "closed"
    /\ UNCHANGED <<addressVars, user, texts, selected, isButtonDisabled,
                   submission>>

(* The session ends under the open form (token revoked, account removed). *)
SessionEnds ==
    /\ user # NULL
    /\ page = "open"
    /\ user' = NULL
    /\ UNCHANGED <<addressVars, page, texts, selected, isButtonDisabled,
                   submission>>

-----------------------------------------------------------------------------

Next ==
    \/ \E outcome \in {"loaded", "failed"} : Load(outcome)
    \/ \E type \in Types : OpenPicker(type)
    \/ \E x \in Places : Scroll(x)
    \/ CancelPicker
    \/ ChooseProvince
    \/ ChooseDistrict
    \/ ChooseSubdistrict
    \/ \E empty \in BOOLEAN : EditName(empty)
    \/ \E n \in 0 .. MaxTyped : EditAddress(n)
    \/ CreateHome
    \/ \E c \in creates, ok \in BOOLEAN : CreateReturns(c, ok)
    \/ Back
    \/ SessionEnds

Spec == Init /\ [][Next]_vars

-----------------------------------------------------------------------------

(***************************************************************************)
(* The submit button is enabled exactly when all six fields are filled:    *)
(* isButtonDisabled, recomputed by hand in every listener and callback, is *)
(* never stale.                                                            *)
(***************************************************************************)
ButtonFollowsForm == isButtonDisabled <=> Incomplete

(***************************************************************************)
(* Whenever the picker shows a postcode, the four copies in the form are   *)
(* exactly the names and the postcode of the picker's chain.  (While it    *)
(* shows none the copies may be stale: see SubmittedAddressIsAPlace.)      *)
(***************************************************************************)
FormFollowsPicker ==
    postcode # NULL =>
        /\ selectedPostalCode = postcode
        /\ selectedSubDistrict = nameTh[subdistrictId]
        /\ selectedDistrict = nameTh[amphurOf[subdistrictId]]
        /\ selectedProvince = nameTh[provinceOf[amphurOf[subdistrictId]]]

(***************************************************************************)
(* No incomplete home is ever sent: every document has a name, an address  *)
(* of 1 to maxLength characters, all four parts of the place, and the uid  *)
(* of a signed-in owner, whatever was edited while it was on its way.      *)
(***************************************************************************)
HomesComplete ==
    \A h \in creates \cup homes :
        /\ ~h.nameEmpty
        /\ h.addressLength \in 1 .. MaxLength
        /\ NULL \notin {h.province, h.district, h.subDistrict, h.postalCode}
        /\ h.owner # NULL

(***************************************************************************)
(* The subdistrict and the postal code of a document always belong to one  *)
(* row of the subdistrict table, even when they are left over from an      *)
(* earlier choice of district: the two callbacks are one step.             *)
(***************************************************************************)
PostalCodeMatches ==
    \A h \in creates \cup homes :
        \E s \in Subdistricts : /\ nameTh[s] = h.subDistrict
                                /\ zipcodeOf[s] = h.postalCode

(***************************************************************************)
(* The picker implements PlaceChoice: its seven assignments behind three   *)
(* Done buttons, whichever wheels were opened, scrolled and cancelled in   *)
(* between, amount to choosing a path of the administrative tree one level *)
(* at a time, with a postcode exactly at its end.  No submission, closed   *)
(* page or late answer changes the choice.                                 *)
(***************************************************************************)
Path ==
    CASE provinceId = NULL -> <<>>
      [] provinceId # NULL /\ districtId = NULL -> <<provinceId>>
      [] provinceId # NULL /\ districtId # NULL /\ subdistrictId = NULL
           -> <<provinceId, districtId>>
      [] OTHER -> <<provinceId, districtId, subdistrictId>>

Choice == INSTANCE PlaceChoice WITH path <- Path, code <- postcode

ChoosesPlaces == Choice!Spec

(***************************************************************************)
(* What "Reset district", "Reset subdistrict" and "Reset postcode" in the  *)
(* picker's Done handler (ThaiAddress.dart:145-147) say of the address:    *)
(* after another province is chosen nothing of the old place is left, so a *)
(* home that is sent names one place.  It does not hold: the form's copies *)
(* are not reset with the picker's ids.                                    *)
(***************************************************************************)
SubmittedAddressIsAPlace ==
    \A h \in creates \cup homes :
        \E s \in Subdistricts :
            /\ h.subDistrict = nameTh[s]
            /\ h.postalCode = zipcodeOf[s]
            /\ h.district = nameTh[amphurOf[s]]
            /\ h.province = nameTh[provinceOf[amphurOf[s]]]

=============================================================================
