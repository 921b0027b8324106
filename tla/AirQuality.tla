----------------------------- MODULE AirQuality -----------------------------
(***************************************************************************)
(* The air quality card of the home page, src/lib/components/AirThai.dart: *)
(* initState asks for the position of the device, then for its address,    *)
(* then for the air quality there; any of the three may fail.  While no    *)
(* reading is known the card shows 0 in green.                             *)
(*                                                                         *)
(* An AQI is a num, so readings are counted in parts of 1/Unit.            *)
(*                                                                         *)
(* External: the address and the air quality service.  Its answer may lack *)
(* the reading: a missing key reads as null.                               *)
(***************************************************************************)
EXTENDS Location, Integers, FiniteSets

CONSTANTS
    Unit,       \* parts a whole AQI is divided into
    Readings,   \* what the service may answer, in those parts
    NULL        \* Dart's null

ASSUME AirConstants ==
    /\ Unit \in Nat \ {0}
    /\ Readings \subseteq Int
    /\ NULL \notin Readings

(* Texts of the card's first line: notices, and those getAddress returns. *)
Loading    == "aqiLoadingAddress"
UnableData == "aqiLoadingAddressUnableData"
Error      == "aqiLoadingAddressError"
Notices    == {Loading, UnableData, Error}
Addresses  == {"address", "Unable to fetch address"}

VARIABLES
    mounted,      \* the card is on a page that exists
    step,         \* the await _getAir is at, or "done"
    dataAddress,  \* what getAddress returned
    subAddress,   \* the card's state: its first line ...
    aqi,          \* ... the reading ...
    weather       \* ... temp and imagePath: known or not

card == <<subAddress, aqi, weather>>
vars == <<locationVars, mounted, step, dataAddress, card>>

(* All variables stay in their types. *)
TypeOK ==
    /\ LocationTypeOK
    /\ mounted \in BOOLEAN
    /\ step \in {"location", "address", "air", "done"}
    /\ dataAddress \in Addresses \cup {NULL}
    /\ subAddress \in Notices \cup Addresses
    /\ aqi \in Readings \cup {NULL}
    /\ weather \in BOOLEAN

-----------------------------------------------------------------------------

(* A slip the properties must notice: bands that start at whole numbers. *)
WholeAQIDetails(r) ==
    CASE r >= 0 /\ r <= 50 * Unit          -> "green"
      [] r >= 51 * Unit /\ r <= 100 * Unit  -> "yellow"
      [] r >= 101 * Unit /\ r <= 150 * Unit -> "orange"
      [] r >= 151 * Unit /\ r <= 200 * Unit -> "red"
      [] r >= 201 * Unit /\ r <= 300 * Unit -> "purple"
      [] OTHER                              -> "maroon"

(* getAQIDetails: the colour of a reading. *)
AQIDetails(r) ==
    CASE r >= 0 /\ r <= 50 * Unit          -> "green"
      [] r > 50 * Unit /\ r <= 100 * Unit  -> "yellow"
      [] r > 100 * Unit /\ r <= 150 * Unit -> "orange"
      [] r > 150 * Unit /\ r <= 200 * Unit -> "red"
      [] r > 200 * Unit /\ r <= 300 * Unit -> "purple"
      [] OTHER                             -> "maroon"

(* build: the colour of the card. *)
Colour == AQIDetails(IF aqi = NULL THEN 0 ELSE aqi)

(* The first frame, its post-frame callback included. *)
Init ==
    /\ LocationInit
    /\ mounted = TRUE
    /\ step = "location"
    /\ dataAddress = NULL
    /\ subAddress = Loading
    /\ aqi = NULL
    /\ weather = FALSE

(* The two branches of _getAir that show no reading. *)
ShowNotice(notice) ==
    /\ step' = "done"
    /\ subAddress' = notice
    /\ aqi' = NULL
    /\ weather' = FALSE

(* A slip the properties must notice: the address is not asked for. *)
LocateOnly ==
    /\ mounted
    /\ step = "location"
    /\ \/ (Asking \/ SettingsChange) /\ UNCHANGED step
       \/ PositionAnswers /\ step' = "air"
    /\ UNCHANGED <<mounted, dataAddress, card>>

(* getLocationDevice on its way, and its position. *)
Locate ==
    /\ mounted
    /\ step = "location"
    /\ \/ (Asking \/ SettingsChange) /\ UNCHANGED step
       \/ PositionAnswers /\ step' = "address"
    /\ UNCHANGED <<mounted, dataAddress, card>>

(* A slip the properties must notice: its exception is not caught. *)
LocationFailsUncaught ==
    /\ mounted
    /\ step = "location"
    /\ Failing
    /\ step' = "done"
    /\ UNCHANGED <<mounted, dataAddress, card>>

(* getLocationDevice throws. *)
LocationFails ==
    /\ mounted
    /\ step = "location"
    /\ Failing
    /\ ShowNotice(Error)
    /\ UNCHANGED <<mounted, dataAddress>>

(* getAddress returns an address, or a text that says there is none. *)
GetAddressReturns(text) ==
    /\ mounted
    /\ step = "address"
    /\ step' = "air"
    /\ dataAddress' = text
    /\ UNCHANGED <<locationVars, mounted, card>>

(* The service answers with status 200: the weather and a reading, or null *)
(* where the answer has none.                                              *)
ReadingArrives(r) ==
    /\ mounted
    /\ step = "air"
    /\ step' = "done"
    /\ subAddress' = dataAddress
    /\ aqi' = r
    /\ weather' = TRUE
    /\ UNCHANGED <<locationVars, mounted, dataAddress>>

(* The service answers with another status than 200. *)
ReadingRefused ==
    /\ mounted
    /\ step = "air"
    /\ ShowNotice(UnableData)
    /\ UNCHANGED <<locationVars, mounted, dataAddress>>

(* A request of the last two, or the decoding of an answer, throws. *)
RequestThrows ==
    /\ mounted
    /\ step \in {"address", "air"}
    /\ ShowNotice(Error)
    /\ UNCHANGED <<locationVars, mounted, dataAddress>>

(* The page of the card is left: what returns later throws in setState. *)
Dispose ==
    /\ mounted
    /\ mounted' = FALSE
    /\ UNCHANGED <<locationVars, step, dataAddress, card>>

-----------------------------------------------------------------------------

Next ==
    \/ Locate
    \/ LocationFails
    \/ \E text \in Addresses : GetAddressReturns(text)
    \/ \E r \in Readings \cup {NULL} : ReadingArrives(r)
    \/ ReadingRefused
    \/ RequestThrows
    \/ Dispose

Spec == Init /\ [][Next]_vars

-----------------------------------------------------------------------------

(***************************************************************************)
(* The colour of the card is that of the air quality table, defined here   *)
(* by counting the limits a reading exceeds: the six conditions of         *)
(* getAQIDetails leave no gap between two bands, fractions included, and   *)
(* overlap nowhere.                                                        *)
(***************************************************************************)
Limits  == <<50, 100, 150, 200, 300>>
Colours == <<"green", "yellow", "orange", "red", "purple", "maroon">>

ColourOf(r) ==
    Colours[1 + Cardinality({i \in 1 .. 5 : r > Limits[i] * Unit})]

ColourOfReading == aqi # NULL /\ aqi >= 0 => Colour = ColourOf(aqi)

(***************************************************************************)
(* The card does not mislead.  An address stands on it only beside an      *)
(* answer of the service, and a notice only without one: the green 0 of a  *)
(* card that measured nothing stands beside an address only when the       *)
(* service answered 200 without a reading (AirThai.dart:64 does not look). *)
(* And whichever of the awaits fails, however the system's settings change *)
(* between them, the notice says "loading" only while something is under   *)
(* way.                                                                    *)
(***************************************************************************)
UnderWay ==
    \/ step \in {"address", "air"}
    \/ step = "location" /\ where \in Awaits

CardHonest ==
    mounted => /\ (aqi = NULL /\ ~weather) <=> (subAddress \in Notices)
               /\ (subAddress = Loading) <=> UnderWay

=============================================================================
