------------------------------ MODULE Location ------------------------------
(***************************************************************************)
(* Asking the device for its position: getLocationDevice in                *)
(* src/lib/utils/global.dart and its copy _getCurrentLocation in           *)
(* src/lib/components/Map.dart.  One call is modelled, with an await       *)
(* between every two of its steps.                                         *)
(*                                                                         *)
(* External: the geolocator plugin and the system behind it.  Location     *)
(* services and the permission belong to the system: its settings may      *)
(* change them between any two steps, and getCurrentPosition uses what     *)
(* holds when it runs, not what was checked.                               *)
(***************************************************************************)

VARIABLES
    where,       \* the await the call is at, or how it ended
    service,     \* location services are enabled
    permission   \* the app's LocationPermission

locationVars == <<where, service, permission>>
system       == <<service, permission>>

(* "granted" stands for every value the code does not compare with. *)
Permissions == {"denied", "deniedForever", "granted"}
Awaits      == {"service", "check", "request", "locate"}

LocationTypeOK ==
    /\ where \in Awaits \cup {"fix", "error"}
    /\ service \in BOOLEAN
    /\ permission \in Permissions

-----------------------------------------------------------------------------

LocationInit ==
    /\ where = "service"
    /\ service \in BOOLEAN
    /\ permission \in Permissions

(* isLocationServiceEnabled answers. *)
ServiceAnswers ==
    /\ where = "service"
    /\ where' = IF service THEN "check" ELSE "error"
    /\ UNCHANGED system

(* checkPermission answers. *)
CheckAnswers ==
    /\ where = "check"
    /\ where' = CASE permission = "denied"        -> "request"
                  [] permission = "deniedForever" -> "error"
                  [] permission = "granted"       -> "locate"
    /\ UNCHANGED system

(***************************************************************************)
(* requestPermission answers p.  The user is asked only while the          *)
(* permission is "denied"; otherwise the answer is what holds already.     *)
(***************************************************************************)
RequestAnswers(p) ==
    /\ where = "request"
    /\ permission # "denied" => p = permission
    /\ permission' = p
    /\ where' = IF p = "granted" THEN "locate" ELSE "error"
    /\ UNCHANGED service

(* getCurrentPosition answers. *)
PositionAnswers ==
    /\ where = "locate"
    /\ service /\ permission = "granted"
    /\ where' = "fix"
    /\ UNCHANGED system

(* Whichever of the four the call awaits throws. *)
CallThrows ==
    /\ where \in Awaits
    /\ where' = "error"
    /\ UNCHANGED system

(* The steps that end in neither a position nor an error. *)
Asking ==
    \/ ServiceAnswers /\ service
    \/ CheckAnswers /\ permission # "deniedForever"
    \/ RequestAnswers("granted")

(* The steps that end the call without a position. *)
Failing ==
    \/ ServiceAnswers /\ ~service
    \/ CheckAnswers /\ permission = "deniedForever"
    \/ \E p \in Permissions \ {"granted"} : RequestAnswers(p)
    \/ CallThrows

(* The system's settings change while the call is under way. *)
SettingsChange ==
    /\ where \in Awaits
    /\ \/ /\ service' = ~service
          /\ UNCHANGED permission
       \/ /\ permission' \in Permissions \ {permission}
          /\ UNCHANGED service
    /\ UNCHANGED where

=============================================================================
