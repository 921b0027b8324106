----------------------------- MODULE MapPicker -----------------------------
(***************************************************************************)
(* The map on which the place of a new home is picked: MapComponent in     *)
(* src/lib/components/Map.dart and its page, src/lib/pages/home/           *)
(* create.dart.  A pin is fixed at the middle of the map and the user      *)
(* moves the map beneath it.  When the camera comes to rest the component  *)
(* reads the coordinates at a point of the screen, makes them its position *)
(* and looks up their address, with two requests one after the other;      *)
(* meanwhile the position of the device, asked for by initState, may       *)
(* arrive and move position and camera.                                    *)
(*                                                                         *)
(* A place stands for coordinates; the address of a place is written as    *)
(* the place.  Closing the page ends everything that matters: what returns *)
(* later throws in setState.                                               *)
(*                                                                         *)
(* External: the map.  It starts at the initial camera position, reports   *)
(* idle once after it was created and once after every move, and answers   *)
(* getLatLng calls in order, each with the place that is at the point when *)
(* the call is served.  Lookups are answered in any order.                 *)
(***************************************************************************)
EXTENDS Location, Naturals, SequencesExt

CONSTANTS
    Places,    \* coordinates
    Default,   \* initialCameraPosition's LatLng(13.7282785, 100.5413736)
    AtPoint,   \* the place read at the point when the camera is at a place
    NULL,      \* Dart's null
    MaxMoves   \* bound: how often the user moves the map

(* What the label shows when it is not an address. *)
Loading == "mapGetCurrentLocation"
Refused == "Failed to fetch address"
Error   == "mapGetCurrentLocationError"
Unable  == "Unable to fetch address"
Notices == {Loading, Refused, Error, Unable, ""}

ASSUME MapConstants ==
    /\ Default \in Places
    /\ AtPoint \in [Places -> Places]
    /\ NULL \notin Places \cup Notices
    /\ Places \cap Notices = {}
    /\ MaxMoves \in Nat

VARIABLES
    page,        \* the map page: "open", "covered" by the form, "closed"
    position,    \* currentPosition
    address,     \* address: that of a place, or a notice
    subAddress,  \* subAddress, likewise
    created,     \* mapController was assigned
    animate,     \* the post-frame callback of _getCurrentLocation is pending
    camera,      \* the place the map's camera is at
    moved,       \* the camera moved and idle was not reported yet
    moves,       \* moves of the user so far
    calls,       \* getLatLng calls on their way to the map
    answers,     \* their answers on the way back
    lookups,     \* runs of _onPositionChanged under way, oldest first
    status,      \* history: what became of the lookup of this position
    handed       \* what Done last handed to the form

mapVars == <<created, animate, camera, moved, moves, calls, answers>>
label   == <<address, subAddress>>
vars    == <<locationVars, page, position, label, mapVars, lookups, status,
             handed>>

(* A lookup awaits getAddress while sub is NULL, then the geocoder. *)
Lookup == [place : Places, sub : Places \cup {NULL, Unable}]

(***************************************************************************)
(* "none": no position was looked up.  "asked": the lookup of the position *)
(* is under way.  "shown", "kept", "failed": it found an address, found    *)
(* nothing and left the label alone, or failed.  "overtaken": an earlier   *)
(* lookup ended after it and changed the label.  "fix": the position is    *)
(* the device's, for which the code starts no lookup.                      *)
(***************************************************************************)
Statuses == {"none", "asked", "shown", "kept", "failed", "overtaken", "fix"}

(* All variables stay in their types. *)
TypeOK ==
    /\ LocationTypeOK
    /\ page \in {"open", "covered", "closed"}
    /\ position \in Places \cup {NULL}
    /\ address \in Places \cup {Loading, Refused, Error}
    /\ subAddress \in Places \cup {Unable, ""}
    /\ created \in BOOLEAN /\ animate \in BOOLEAN /\ moved \in BOOLEAN
    /\ camera \in Places
    /\ moves \in 0 .. MaxMoves
    /\ calls \in Nat
    /\ answers \in Seq(Places)
    /\ lookups \in Seq(Lookup)
    /\ status \in Statuses
    /\ handed \in {NULL} \cup [position : Places, status : Statuses,
                               address : Places \cup {Loading, Refused, Error}]

-----------------------------------------------------------------------------

(* The first frame, its post-frame callback included. *)
Init ==
    /\ LocationInit
    /\ page = "open"
    /\ position = NULL
    /\ address = Loading /\ subAddress = ""
    /\ created = FALSE /\ animate = FALSE
    /\ camera = Default
    /\ moved = TRUE
    /\ moves = 0
    /\ calls = 0 /\ answers = <<>>
    /\ lookups = <<>>
    /\ status = "none"
    /\ handed = NULL

Alive == page # "closed"

(* _getCurrentLocation on its way; an error ends it, and nobody catches it. *)
Locate ==
    /\ Alive
    /\ Asking \/ Failing \/ SettingsChange
    /\ UNCHANGED <<page, position, label, mapVars, lookups, status, handed>>

(* A slip the properties must notice: the camera is not moved. *)
LocatedWithoutCamera(p) ==
    /\ Alive
    /\ PositionAnswers
    /\ position' = p
    /\ status' = IF p = position THEN status ELSE "fix"
    /\ UNCHANGED <<page, label, mapVars, lookups, handed>>

(* The position of the device arrives. *)
Located(p) ==
    /\ Alive
    /\ PositionAnswers
    /\ position' = p
    /\ animate' = TRUE
    /\ status' = IF p = position THEN status ELSE "fix"
    /\ UNCHANGED <<page, label, created, camera, moved, moves, calls, answers,
                   lookups, handed>>

(***************************************************************************)
(* The callback after the next frame.  Before onMapCreated mapController   *)
(* is an uninitialised late variable: reading it throws, and the camera    *)
(* stays where it is.                                                      *)
(***************************************************************************)
AnimateCamera ==
    /\ Alive
    /\ animate
    /\ animate' = FALSE
    /\ IF created
       THEN camera' = position /\ moved' = TRUE
       ELSE UNCHANGED <<camera, moved>>
    /\ UNCHANGED <<locationVars, page, position, label, created, moves, calls,
                   answers, lookups, status, handed>>

OnMapCreated ==
    /\ Alive
    /\ ~created
    /\ created' = TRUE
    /\ UNCHANGED <<locationVars, page, position, label, animate, camera,
                   moved, moves, calls, answers, lookups, status, handed>>

(* The user moves the map. *)
MoveMap(c) ==
    /\ page = "open"
    /\ created
    /\ moves < MaxMoves
    /\ camera' = c
    /\ moved' = TRUE
    /\ moves' = moves + 1
    /\ UNCHANGED <<locationVars, page, position, label, created, animate,
                   calls, answers, lookups, status, handed>>

(* _onCameraIdle up to the answer of getLatLng. *)
OnCameraIdle ==
    /\ Alive
    /\ created
    /\ moved
    /\ moved' = FALSE
    /\ calls' = calls + 1
    /\ UNCHANGED <<locationVars, page, position, label, created, animate,
                   camera, moves, answers, lookups, status, handed>>

(* The map serves a getLatLng call. *)
GetLatLng ==
    /\ Alive
    /\ calls > 0
    /\ calls' = calls - 1
    /\ answers' = Append(answers, AtPoint[camera])
    /\ UNCHANGED <<locationVars, page, position, label, created, animate,
                   camera, moved, moves, lookups, status, handed>>

-----------------------------------------------------------------------------

(* _onPositionChanged up to its first await. *)
OnPositionChanged(p) ==
    IF p = position
    THEN UNCHANGED <<lookups, status>>
    ELSE /\ lookups' = Append(lookups, [place |-> p, sub |-> NULL])
         /\ status' = "asked"

(* A slip the properties must notice: the position is assigned before it  *)
(* is compared, so that no change is ever seen.                           *)
PointReadAssigning ==
    /\ Alive
    /\ answers # <<>>
    /\ answers' = Tail(answers)
    /\ position' = Head(answers)
    /\ UNCHANGED <<locationVars, page, label, created, animate, camera, moved,
                   moves, calls, lookups, status, handed>>

(* A slip the properties must notice: only the first position is taken. *)
PointReadOnce ==
    /\ Alive
    /\ answers # <<>>
    /\ answers' = Tail(answers)
    /\ IF position = NULL
       THEN position' = Head(answers) /\ OnPositionChanged(Head(answers))
       ELSE UNCHANGED <<position, lookups, status>>
    /\ UNCHANGED <<locationVars, page, label, created, animate, camera, moved,
                   moves, calls, handed>>

(***************************************************************************)
(* getLatLng's answer: a position that differs is looked up, and then      *)
(* assigned once more.                                                     *)
(***************************************************************************)
PointRead ==
    /\ Alive
    /\ answers # <<>>
    /\ answers' = Tail(answers)
    /\ OnPositionChanged(Head(answers))
    /\ position' = Head(answers)
    /\ UNCHANGED <<locationVars, page, label, created, animate, camera, moved,
                   moves, calls, handed>>

(* getAddress returns for a lookup: an address, or that there is none. *)
GetAddressReturns(i, ok) ==
    /\ Alive
    /\ lookups[i].sub = NULL
    /\ lookups' = [lookups EXCEPT ![i].sub =
                       IF ok THEN lookups[i].place ELSE Unable]
    /\ UNCHANGED <<locationVars, page, position, label, mapVars, status,
                   handed>>

(* A lookup ends with a result; it is the latest one or an earlier one. *)
Ends(i, result) ==
    /\ lookups' = RemoveAt(lookups, i)
    /\ status' = CASE status = "asked" /\ i = Len(lookups) -> result
                   [] status = "asked" /\ i # Len(lookups) -> "asked"
                   [] status \in {"shown", "kept", "failed"}
                        -> IF result = "kept" THEN status ELSE "overtaken"
                   [] OTHER -> status

Fails(i, notice) ==
    /\ Ends(i, "failed")
    /\ address' = notice
    /\ subAddress' = ""

(* The geocoder answers: with an address, with none, or with an error. *)
GeocodeReturns(i, outcome) ==
    /\ Alive
    /\ lookups[i].sub # NULL
    /\ CASE outcome = "found"   -> /\ Ends(i, "shown")
                                   /\ address' = lookups[i].place
                                   /\ subAddress' = lookups[i].sub
         [] outcome = "empty"   -> Ends(i, "kept") /\ UNCHANGED label
         [] outcome = "refused" -> Fails(i, Refused)
    /\ UNCHANGED <<locationVars, page, position, mapVars, handed>>

(* A request of a lookup, or the reading of its answer, throws. *)
LookupThrows(i) ==
    /\ Alive
    /\ Fails(i, Error)
    /\ UNCHANGED <<locationVars, page, position, mapVars, handed>>

(* A slip the properties must notice: the position is not tested. *)
DoneUntested ==
    /\ page = "open"
    /\ page' = "covered"
    /\ handed' = [position |-> position, address |-> address,
                  status |-> status]
    /\ UNCHANGED <<locationVars, position, label, mapVars, lookups, status>>

(* Done: the form opens over the map; without a position only a message. *)
Done ==
    /\ page = "open"
    /\ position # NULL
    /\ page' = "covered"
    /\ handed' = [position |-> position, address |-> address,
                  status |-> status]
    /\ UNCHANGED <<locationVars, position, label, mapVars, lookups, status>>

(* The form above is left again. *)
Return ==
    /\ page = "covered"
    /\ page' = "open"
    /\ UNCHANGED <<locationVars, position, label, mapVars, lookups, status,
                   handed>>

(* The page is left, or removed together with the form. *)
Close ==
    /\ Alive
    /\ page' = "closed"
    /\ UNCHANGED <<locationVars, position, label, mapVars, lookups, status,
                   handed>>

-----------------------------------------------------------------------------

Next ==
    \/ Locate
    \/ \E p \in Places : Located(p)
    \/ AnimateCamera
    \/ OnMapCreated
    \/ \E c \in Places : MoveMap(c)
    \/ OnCameraIdle
    \/ GetLatLng
    \/ PointRead
    \/ \E i \in 1 .. Len(lookups), ok \in BOOLEAN : GetAddressReturns(i, ok)
    \/ \E i \in 1 .. Len(lookups), o \in {"found", "empty", "refused"} :
           GeocodeReturns(i, o)
    \/ \E i \in 1 .. Len(lookups) : LookupThrows(i)
    \/ Done
    \/ Return
    \/ Close

(* The engine draws frames and the map serves its calls; requests need not *)
(* be answered, and the user need not do anything.                         *)
Fairness ==
    /\ WF_vars(OnMapCreated)
    /\ WF_vars(AnimateCamera)
    /\ WF_vars(OnCameraIdle)
    /\ WF_vars(GetLatLng)
    /\ WF_vars(PointRead)

Spec == Init /\ [][Next]_vars /\ Fairness

-----------------------------------------------------------------------------

(***************************************************************************)
(* The only ways for the label to show another place than the position's:  *)
(* its lookup is still under way or found nothing, an earlier lookup ended *)
(* later, or the position is the device's and was never looked up.  In all *)
(* other cases the address on the screen, and the one handed to the form   *)
(* with the position, is the position's or says that there is none.        *)
(***************************************************************************)
Agree(p, a, s) ==
    /\ s = "none"   => p = NULL /\ a = Loading
    /\ s = "shown"  => a = p
    /\ s = "failed" => a \in {Refused, Error}

AddressFollows ==
    /\ Agree(position, address, status)
    /\ handed # NULL => Agree(handed.position, handed.address, handed.status)

(***************************************************************************)
(* When the map is at rest and every call is answered, the position is the *)
(* one at the point of the screen, in whichever order the map, the         *)
(* position of the device, the frame that uses it and the moves of the     *)
(* user came; a device position that comes before the map is created is    *)
(* lost and replaced, never left beside a camera that is elsewhere.        *)
(***************************************************************************)
AtRest == created /\ ~moved /\ ~animate /\ calls = 0 /\ answers = <<>>

PositionAtPoint == AtRest => position = AtPoint[camera]

(***************************************************************************)
(* After every change of camera or position the two meet again, unless the *)
(* page is closed.                                                         *)
(***************************************************************************)
PositionCatchesUp == []<>(page = "closed" \/ position = AtPoint[camera])

=============================================================================
