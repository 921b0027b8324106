-------------------------- MODULE AirQualityProofs --------------------------
(***************************************************************************)
(* The air quality card is honest and colours every reading by the table,  *)
(* for any readings and any fineness of their fractions.                   *)
(***************************************************************************)
EXTENDS AirQuality, FiniteSetTheorems, TLAPS

(* While _getAir is under way the card is as initState left it. *)
CardWaits ==
    step # "done" => aqi = NULL /\ ~weather /\ subAddress = Loading

(* The location call ends together with the step that awaits it. *)
CallUnderWay == step = "location" => where \in Awaits

(* The air quality is asked for after the address was returned. *)
AddressKnown == step = "air" => dataAddress \in Addresses

(* When _getAir is over, the card shows an answer or says why not. *)
CardTells ==
    step = "done" => /\ subAddress # Loading
                     /\ (aqi = NULL /\ ~weather) <=> (subAddress \in Notices)

Inv ==
    /\ TypeOK
    /\ CardWaits
    /\ CallUnderWay
    /\ AddressKnown
    /\ CardTells

-----------------------------------------------------------------------------
(* The location call keeps its types; steps that ask on await the next. *)

LEMMA LocationSteps ==
    ASSUME LocationTypeOK
    PROVE  /\ Asking => LocationTypeOK' /\ where' \in Awaits
           /\ Failing => LocationTypeOK'
           /\ PositionAnswers => LocationTypeOK'
           /\ SettingsChange => LocationTypeOK' /\ where' \in Awaits
<1>1. Asking => LocationTypeOK' /\ where' \in Awaits
    BY DEF Asking, ServiceAnswers, CheckAnswers, RequestAnswers, system,
           LocationTypeOK, Awaits, Permissions
<1>2. Failing => LocationTypeOK'
    BY DEF Failing, ServiceAnswers, CheckAnswers, RequestAnswers,
           CallThrows, system, LocationTypeOK, Awaits, Permissions
<1>3. PositionAnswers => LocationTypeOK'
    BY DEF PositionAnswers, system, LocationTypeOK
<1>4. SettingsChange => LocationTypeOK' /\ where' \in Awaits
    BY DEF SettingsChange, LocationTypeOK
<1> QED
    BY <1>1, <1>2, <1>3, <1>4

LEMMA SameLocation ==
    ASSUME LocationTypeOK, UNCHANGED locationVars
    PROVE  LocationTypeOK'
BY DEF LocationTypeOK, locationVars

-----------------------------------------------------------------------------

LEMMA InitInv == Init => Inv
BY DEF Init, LocationInit, Inv, TypeOK, LocationTypeOK, Notices, Loading,
       CardWaits, CallUnderWay, Awaits, AddressKnown, CardTells

(* A branch that shows a notice ends the call honestly. *)
LEMMA NoticeInv ==
    ASSUME Inv, LocationTypeOK', NEW notice \in {UnableData, Error},
           ShowNotice(notice), UNCHANGED <<mounted, dataAddress>>
    PROVE  Inv'
BY DEF Inv, TypeOK, ShowNotice, CardWaits, CallUnderWay, AddressKnown,
       CardTells, Notices, UnableData, Error, Loading

LEMMA LocateInv == ASSUME Inv, Locate PROVE Inv'
<1>1. /\ LocationTypeOK'
      /\ \/ UNCHANGED step /\ where' \in Awaits
         \/ step' = "address"
    BY LocationSteps DEF Inv, TypeOK, Locate
<1>2. step = "location" /\ UNCHANGED <<mounted, dataAddress, card>>
    BY DEF Locate
<1> QED
    BY <1>1, <1>2 DEF Inv, TypeOK, CardWaits, CallUnderWay, AddressKnown,
                      CardTells, card

LEMMA NextInv == ASSUME Inv, [Next]_vars PROVE Inv'
<1>0. LocationTypeOK
    BY DEF Inv, TypeOK
<1>1. CASE Locate
    BY <1>1, LocateInv
<1>2. CASE LocationFails
    BY <1>0, <1>2, LocationSteps, NoticeInv DEF LocationFails
<1>3. ASSUME NEW text \in Addresses, GetAddressReturns(text)
      PROVE  Inv'
    BY <1>0, <1>3, SameLocation
       DEF GetAddressReturns, Inv, TypeOK, CardWaits, CallUnderWay,
           AddressKnown, CardTells, card
<1>4. ASSUME NEW r \in Readings \cup {NULL}, ReadingArrives(r)
      PROVE  Inv'
    <2>1. dataAddress \in Addresses /\ dataAddress \notin Notices
        BY <1>4 DEF ReadingArrives, Inv, AddressKnown, Addresses, Notices,
                    Loading, UnableData, Error
    <2> QED
        BY <1>0, <1>4, <2>1, SameLocation
           DEF ReadingArrives, Inv, TypeOK, CardWaits, CallUnderWay,
               AddressKnown, CardTells, Notices
<1>5. CASE ReadingRefused
    BY <1>0, <1>5, SameLocation, NoticeInv DEF ReadingRefused
<1>6. CASE RequestThrows
    BY <1>0, <1>6, SameLocation, NoticeInv DEF RequestThrows
<1>7. CASE Dispose
    BY <1>0, <1>7, SameLocation
       DEF Dispose, Inv, TypeOK, CardWaits, CallUnderWay, AddressKnown,
           CardTells, card, locationVars
<1>8. CASE UNCHANGED vars
    BY <1>0, <1>8, SameLocation
       DEF vars, Inv, TypeOK, CardWaits, CallUnderWay, AddressKnown,
           CardTells, card, locationVars
<1> QED
    BY <1>1, <1>2, <1>3, <1>4, <1>5, <1>6, <1>7, <1>8 DEF Next

(* The inductive invariant holds in every reachable state. *)
THEOREM Invariance == Spec => []Inv
<1> QED
    BY InitInv, NextInv, PTL DEF Spec

(* The card and the location call keep their types. *)
THEOREM TypeCorrect == Spec => []TypeOK
<1>1. Inv => TypeOK
    BY DEF Inv
<1> QED
    BY <1>1, Invariance, PTL

(***************************************************************************)
(* No failure of an await and no change of the system's settings makes the *)
(* card show an address without an answer of the service beside it, or say *)
(* that it is loading when nothing is.                                     *)
(***************************************************************************)
THEOREM CardIsHonest == Spec => []CardHonest
<1>1. Inv => CardHonest
    BY DEF Inv, TypeOK, CardHonest, UnderWay, CardWaits, CallUnderWay,
           CardTells, Notices
<1> QED
    BY <1>1, Invariance, PTL

-----------------------------------------------------------------------------
(* The bands. *)

(* The limits a reading exceeds are the first ones. *)
LEMMA Exceeded ==
    ASSUME NEW r \in Int, NEW k \in 0 .. 5,
           \A i \in 1 .. 5 : r > Limits[i] * Unit <=> i <= k
    PROVE  ColourOf(r) = Colours[k + 1]
<1>1. {i \in 1 .. 5 : r > Limits[i] * Unit} = 1 .. k
    <2>1. {i \in 1 .. 5 : r > Limits[i] * Unit} = {i \in 1 .. 5 : i <= k}
        OBVIOUS
    <2>2. {i \in 1 .. 5 : i <= k} = 1 .. k
        OBVIOUS
    <2> QED
        BY <2>1, <2>2
<1>2. Cardinality(1 .. k) = k
    <2>1. 1 \in Int /\ k \in Int
        OBVIOUS
    <2>2. Cardinality(1 .. k) = IF 1 > k THEN 0 ELSE k - 1 + 1
        BY <2>1, FS_Interval, Zenon
    <2> QED
        BY <2>2
<1>3. 1 + k = k + 1
    OBVIOUS
<1> QED
    BY <1>1, <1>2, <1>3, Zenon DEF ColourOf

(***************************************************************************)
(* The six conditions of getAQIDetails agree with the table on every       *)
(* reading that is not negative.                                           *)
(***************************************************************************)
LEMMA BandsAgree ==
    ASSUME NEW r \in Int, r >= 0
    PROVE  AQIDetails(r) = ColourOf(r)
<1>0. Unit \in Nat /\ Unit > 0
    BY AirConstants
<1>1. /\ Limits[1] = 50 /\ Limits[2] = 100 /\ Limits[3] = 150
      /\ Limits[4] = 200 /\ Limits[5] = 300
    BY DEF Limits
<1>2. /\ Colours[1] = "green" /\ Colours[2] = "yellow"
      /\ Colours[3] = "orange" /\ Colours[4] = "red"
      /\ Colours[5] = "purple" /\ Colours[6] = "maroon"
    BY DEF Colours
<1>3. CASE r <= 50 * Unit
    <2>1. \A i \in 1 .. 5 : r > Limits[i] * Unit <=> i <= 0
        BY <1>0, <1>1, <1>3
    <2>2. ColourOf(r) = Colours[0 + 1]
        BY <2>1, Exceeded
    <2>3. AQIDetails(r) = "green"
        BY <1>0, <1>3 DEF AQIDetails
    <2> QED
        BY <1>2, <2>2, <2>3
<1>4. CASE r > 50 * Unit /\ r <= 100 * Unit
    <2>1. \A i \in 1 .. 5 : r > Limits[i] * Unit <=> i <= 1
        BY <1>0, <1>1, <1>4
    <2>2. ColourOf(r) = Colours[1 + 1]
        BY <2>1, Exceeded
    <2>3. AQIDetails(r) = "yellow"
        BY <1>0, <1>4 DEF AQIDetails
    <2> QED
        BY <1>2, <2>2, <2>3
<1>5. CASE r > 100 * Unit /\ r <= 150 * Unit
    <2>1. \A i \in 1 .. 5 : r > Limits[i] * Unit <=> i <= 2
        BY <1>0, <1>1, <1>5
    <2>2. ColourOf(r) = Colours[2 + 1]
        BY <2>1, Exceeded
    <2>3. AQIDetails(r) = "orange"
        BY <1>0, <1>5 DEF AQIDetails
    <2> QED
        BY <1>2, <2>2, <2>3
<1>6. CASE r > 150 * Unit /\ r <= 200 * Unit
    <2>1. \A i \in 1 .. 5 : r > Limits[i] * Unit <=> i <= 3
        BY <1>0, <1>1, <1>6
    <2>2. ColourOf(r) = Colours[3 + 1]
        BY <2>1, Exceeded
    <2>3. AQIDetails(r) = "red"
        BY <1>0, <1>6 DEF AQIDetails
    <2> QED
        BY <1>2, <2>2, <2>3
<1>7. CASE r > 200 * Unit /\ r <= 300 * Unit
    <2>1. \A i \in 1 .. 5 : r > Limits[i] * Unit <=> i <= 4
        BY <1>0, <1>1, <1>7
    <2>2. ColourOf(r) = Colours[4 + 1]
        BY <2>1, Exceeded
    <2>3. AQIDetails(r) = "purple"
        BY <1>0, <1>7 DEF AQIDetails
    <2> QED
        BY <1>2, <2>2, <2>3
<1>8. CASE r > 300 * Unit
    <2>1. \A i \in 1 .. 5 : r > Limits[i] * Unit <=> i <= 5
        BY <1>0, <1>1, <1>8
    <2>2. ColourOf(r) = Colours[5 + 1]
        BY <2>1, Exceeded
    <2>3. AQIDetails(r) = "maroon"
        BY <1>0, <1>8 DEF AQIDetails
    <2> QED
        BY <1>2, <2>2, <2>3
<1> QED
    BY <1>0, <1>3, <1>4, <1>5, <1>6, <1>7, <1>8

(***************************************************************************)
(* The card is always coloured by the table, for readings of any fraction: *)
(* no gap and no overlap between two bands.                                *)
(***************************************************************************)
THEOREM ColourCorrect == Spec => []ColourOfReading
<1>1. Inv => ColourOfReading
    <2> SUFFICES ASSUME Inv, aqi # NULL, aqi >= 0
                 PROVE  Colour = ColourOf(aqi)
        BY DEF ColourOfReading
    <2>1. aqi \in Int
        BY AirConstants DEF Inv, TypeOK
    <2>2. Colour = AQIDetails(aqi)
        BY DEF Colour
    <2> QED
        BY <2>1, <2>2, BandsAgree
<1> QED
    BY <1>1, Invariance, PTL

=============================================================================
