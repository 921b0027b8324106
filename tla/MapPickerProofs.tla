-------------------------- MODULE MapPickerProofs --------------------------
(***************************************************************************)
(* Position, camera and label agree as far as the code makes them, for any *)
(* places and any number of moves, calls and lookups under way.  While     *)
(* something is under way the agreement is in what comes last: the last    *)
(* answer of the map, and the last lookup started.                         *)
(***************************************************************************)
EXTENDS MapPicker, SequenceTheorems, TLAPS

LastOf(s) == s[Len(s)]

(* A map that was not created has not reported its first rest. *)
FirstRestDue == ~created => moved

(* The camera is moved to a position that is known. *)
FixKnown == animate => position # NULL

(* Something will read the point again, or the last reading was of the    *)
(* camera's place.                                                        *)
LastReadingRight ==
    \/ animate
    \/ moved
    \/ calls > 0
    \/ answers # <<>> /\ LastOf(answers) = AtPoint[camera]
    \/ answers = <<>> /\ position = AtPoint[camera]

(* A position that is looked up is that of the last lookup. *)
LastLookupOfPosition ==
    /\ status = "asked" => lookups # <<>> /\ LastOf(lookups).place = position
    /\ status = "none" => lookups = <<>>

Inv ==
    /\ TypeOK
    /\ FirstRestDue
    /\ FixKnown
    /\ LastReadingRight
    /\ LastLookupOfPosition
    /\ AddressFollows

-----------------------------------------------------------------------------
(* The location call keeps its types. *)

LEMMA LocationSteps ==
    ASSUME LocationTypeOK,
           Asking \/ Failing \/ PositionAnswers \/ SettingsChange
    PROVE  LocationTypeOK'
<1>1. CASE Asking \/ Failing
    BY <1>1 DEF Asking, Failing, ServiceAnswers, CheckAnswers, RequestAnswers,
                CallThrows, system, LocationTypeOK, Awaits, Permissions
<1>2. CASE PositionAnswers \/ SettingsChange
    BY <1>2 DEF PositionAnswers, SettingsChange, system, LocationTypeOK
<1> QED
    BY <1>1, <1>2

LEMMA SameLocation ==
    ASSUME LocationTypeOK, UNCHANGED locationVars
    PROVE  LocationTypeOK'
BY DEF LocationTypeOK, locationVars

-----------------------------------------------------------------------------
(* Sequences. *)

LEMMA AppendFacts ==
    ASSUME NEW S, NEW s \in Seq(S), NEW e \in S
    PROVE  /\ Append(s, e) \in Seq(S)
           /\ Append(s, e) # <<>>
           /\ LastOf(Append(s, e)) = e
BY DEF LastOf

LEMMA TailFacts ==
    ASSUME NEW S, NEW s \in Seq(S), s # <<>>
    PROVE  /\ Head(s) \in S
           /\ Tail(s) \in Seq(S)
           /\ Tail(s) # <<>> => LastOf(Tail(s)) = LastOf(s)
           /\ Tail(s) = <<>> => LastOf(s) = Head(s)
<1>1. Head(s) \in S /\ Tail(s) \in Seq(S) /\ Len(s) \in Nat \ {0}
    OBVIOUS
<1>2. Len(Tail(s)) = Len(s) - 1
    OBVIOUS
<1>3. \A i \in 1 .. Len(Tail(s)) : Tail(s)[i] = s[i + 1]
    OBVIOUS
<1>4. Tail(s) # <<>> => LastOf(Tail(s)) = LastOf(s)
    BY <1>1, <1>2, <1>3 DEF LastOf
<1>5. Tail(s) = <<>> => LastOf(s) = Head(s)
    <2>1. Tail(s) = <<>> => Len(Tail(s)) = 0
        BY <1>1, EmptySeq
    <2>2. Tail(s) = <<>> => Len(s) = 1
        BY <1>1, <1>2, <2>1
    <2> QED
        BY <2>2 DEF LastOf
<1> QED
    BY <1>1, <1>4, <1>5

(* Removing an element that is not the last one keeps the last one. *)
LEMMA RemoveFacts ==
    ASSUME NEW S, NEW s \in Seq(S), NEW i \in 1 .. Len(s)
    PROVE  /\ RemoveAt(s, i) \in Seq(S)
           /\ i # Len(s) => /\ RemoveAt(s, i) # <<>>
                            /\ LastOf(RemoveAt(s, i)) = LastOf(s)
<1> DEFINE a == SubSeq(s, 1, i - 1)
           b == SubSeq(s, i + 1, Len(s))
<1>0. Len(s) \in Nat /\ i \in Nat
    OBVIOUS
<1>1. a \in Seq(S) /\ Len(a) = i - 1
    <2>1. CASE i = 1
        BY <1>0, <2>1, SubSeqProperties
    <2>2. CASE i # 1
        BY <1>0, <2>2, SubSeqProperties
    <2> QED
        BY <2>1, <2>2
<1>2. b \in Seq(S) /\ Len(b) = Len(s) - i
    BY <1>0, SubSeqProperties
<1>3. i # Len(s) => b[Len(s) - i] = s[Len(s)]
    BY <1>0, SubSeqProperties
<1> HIDE DEF a, b
<1>4. /\ a \o b \in Seq(S)
      /\ Len(a \o b) = Len(s) - 1
      /\ i # Len(s) => (a \o b)[Len(s) - 1] = b[Len(s) - i]
    BY <1>0, <1>1, <1>2, ConcatProperties
<1>5. RemoveAt(s, i) = a \o b
    BY DEF RemoveAt, a, b
<1> QED
    BY <1>0, <1>3, <1>4, <1>5, EmptySeq DEF LastOf

-----------------------------------------------------------------------------
(* The map and the position. *)

LEMMA InitInv == Init => Inv
<1> SUFFICES ASSUME Init PROVE Inv
    OBVIOUS
<1>1. LocationTypeOK
    BY DEF Init, LocationInit, LocationTypeOK, Awaits
<1>2. TypeOK
    <2>1. <<>> \in Seq(Places) /\ <<>> \in Seq(Lookup)
        BY EmptySeq
    <2>2. 0 \in 0 .. MaxMoves /\ 0 \in Nat
        BY MapConstants
    <2>3. Default \in Places
        BY MapConstants
    <2> QED
        BY <1>1, <2>1, <2>2, <2>3, Zenon DEF Init, TypeOK, Statuses
<1> QED
    BY <1>2, MapConstants, EmptySeq
       DEF Init, Inv, FirstRestDue, FixKnown, LastReadingRight,
           LastLookupOfPosition, AddressFollows, Agree

(* Steps that leave position, label, status and what was handed on. *)
LEMMA SameLabel ==
    ASSUME Inv, UNCHANGED <<position, label, lookups, status, handed>>
    PROVE  LastLookupOfPosition' /\ AddressFollows'
BY DEF Inv, LastLookupOfPosition, AddressFollows, Agree, label

LEMMA LocateInv == ASSUME Inv, Locate PROVE Inv'
<1>1. LocationTypeOK'
    BY LocationSteps DEF Inv, TypeOK, Locate
<1>2. UNCHANGED <<page, position, label, mapVars, lookups, status, handed>>
    BY DEF Locate
<1>3. TypeOK'
    BY <1>1, <1>2 DEF Inv, TypeOK, label, mapVars
<1> QED
    BY <1>2, <1>3, SameLabel
       DEF Inv, FirstRestDue, FixKnown, LastReadingRight, mapVars

LEMMA LocatedInv ==
    ASSUME Inv, NEW p \in Places, Located(p)
    PROVE  Inv'
<1>1. LocationTypeOK'
    BY LocationSteps DEF Inv, TypeOK, Located
<1>2. /\ position' = p /\ animate' = TRUE
      /\ status' = IF p = position THEN status ELSE "fix"
      /\ UNCHANGED <<page, label, created, camera, moved, moves, calls,
                     answers, lookups, handed>>
    BY DEF Located
<1>3. status' \in Statuses
    BY <1>2 DEF Inv, TypeOK, Statuses
<1>4. TypeOK'
    BY <1>1, <1>2, <1>3 DEF Inv, TypeOK, label
<1>5. LastLookupOfPosition' /\ AddressFollows'
    BY <1>2 DEF Inv, LastLookupOfPosition, AddressFollows, Agree, label
<1> QED
    BY <1>2, <1>4, <1>5, MapConstants
       DEF Inv, FirstRestDue, FixKnown, LastReadingRight

LEMMA AnimateCameraInv == ASSUME Inv, AnimateCamera PROVE Inv'
<1>1. UNCHANGED <<locationVars, page, position, label, created, moves, calls,
                  answers, lookups, status, handed>>
    BY DEF AnimateCamera
<1>2. /\ animate /\ animate' = FALSE
      /\ \/ created /\ camera' = position /\ moved' = TRUE
         \/ ~created /\ UNCHANGED <<camera, moved>>
    BY DEF AnimateCamera
<1>3. LocationTypeOK'
    BY <1>1, SameLocation DEF Inv, TypeOK
<1>4. camera' \in Places /\ moved' \in BOOLEAN
    BY <1>2 DEF Inv, TypeOK, FixKnown
<1>5. TypeOK'
    BY <1>1, <1>2, <1>3, <1>4 DEF Inv, TypeOK, label
<1> QED
    BY <1>1, <1>2, <1>5, SameLabel
       DEF Inv, FirstRestDue, FixKnown, LastReadingRight

LEMMA OnMapCreatedInv == ASSUME Inv, OnMapCreated PROVE Inv'
<1>1. /\ created' = TRUE
      /\ UNCHANGED <<locationVars, page, position, label, animate, camera,
                     moved, moves, calls, answers, lookups, status, handed>>
    BY DEF OnMapCreated
<1>2. TypeOK'
    BY <1>1, SameLocation DEF Inv, TypeOK, label
<1> QED
    BY <1>1, <1>2, SameLabel
       DEF Inv, FirstRestDue, FixKnown, LastReadingRight

LEMMA MoveMapInv == ASSUME Inv, NEW c \in Places, MoveMap(c) PROVE Inv'
<1>1. /\ camera' = c /\ moved' = TRUE /\ moves' = moves + 1
      /\ moves < MaxMoves
      /\ UNCHANGED <<locationVars, page, position, label, created, animate,
                     calls, answers, lookups, status, handed>>
    BY DEF MoveMap
<1>2. moves' \in 0 .. MaxMoves
    <2>1. moves \in 0 .. MaxMoves
        BY Zenon DEF Inv, TypeOK
    <2> QED
        BY <1>1, <2>1, MapConstants
<1>3. TypeOK'
    BY <1>1, <1>2, SameLocation DEF Inv, TypeOK, label
<1> QED
    BY <1>1, <1>3, SameLabel
       DEF Inv, FirstRestDue, FixKnown, LastReadingRight

LEMMA OnCameraIdleInv == ASSUME Inv, OnCameraIdle PROVE Inv'
<1>1. /\ created /\ moved' = FALSE /\ calls' = calls + 1
      /\ UNCHANGED <<locationVars, page, position, label, created, animate,
                     camera, moves, answers, lookups, status, handed>>
    BY DEF OnCameraIdle
<1>2. calls' \in Nat /\ calls' > 0
    <2>1. calls \in Nat
        BY Zenon DEF Inv, TypeOK
    <2> QED
        BY <1>1, <2>1
<1>3. TypeOK'
    BY <1>1, <1>2, SameLocation DEF Inv, TypeOK, label
<1> QED
    BY <1>1, <1>2, <1>3, SameLabel
       DEF Inv, FirstRestDue, FixKnown, LastReadingRight

LEMMA GetLatLngInv == ASSUME Inv, GetLatLng PROVE Inv'
<1>1. /\ calls > 0 /\ calls' = calls - 1
      /\ answers' = Append(answers, AtPoint[camera])
      /\ UNCHANGED <<locationVars, page, position, label, created, animate,
                     camera, moved, moves, lookups, status, handed>>
    BY DEF GetLatLng
<1>2. calls' \in Nat
    <2>1. calls \in Nat
        BY Zenon DEF Inv, TypeOK
    <2> QED
        BY <1>1, <2>1
<1>3. answers \in Seq(Places) /\ AtPoint[camera] \in Places
    BY MapConstants DEF Inv, TypeOK
<1>4. /\ answers' \in Seq(Places) /\ answers' # <<>>
      /\ LastOf(answers') = AtPoint[camera]
    BY <1>1, <1>3, AppendFacts
<1>5. TypeOK'
    BY <1>1, <1>2, <1>4, SameLocation DEF Inv, TypeOK, label
<1>6. LastReadingRight'
    BY <1>1, <1>4 DEF LastReadingRight
<1> QED
    BY <1>1, <1>5, <1>6, SameLabel DEF Inv, FirstRestDue, FixKnown

LEMMA PointReadInv == ASSUME Inv, PointRead PROVE Inv'
<1> DEFINE p == Head(answers)
           l == [place |-> p, sub |-> NULL]
<1>1. /\ answers # <<>> /\ answers' = Tail(answers) /\ position' = p
      /\ \/ p = position /\ UNCHANGED <<lookups, status>>
         \/ p # position /\ lookups' = Append(lookups, l) /\ status' = "asked"
      /\ UNCHANGED <<locationVars, page, label, created, animate, camera,
                     moved, moves, calls, handed>>
    BY DEF PointRead, OnPositionChanged
<1>2. /\ p \in Places /\ answers' \in Seq(Places)
      /\ answers' # <<>> => LastOf(answers') = LastOf(answers)
      /\ answers' = <<>> => LastOf(answers) = p
    BY <1>1, TailFacts DEF Inv, TypeOK
<1>3. l \in Lookup /\ l.place = p
    BY <1>2 DEF Lookup
<1>4. /\ lookups' \in Seq(Lookup) /\ status' \in Statuses
      /\ p # position => lookups' # <<>> /\ LastOf(lookups') = l
    <2>1. lookups \in Seq(Lookup) /\ status \in Statuses
        BY DEF Inv, TypeOK
    <2>2. /\ Append(lookups, l) \in Seq(Lookup) /\ Append(lookups, l) # <<>>
          /\ LastOf(Append(lookups, l)) = l
        BY <1>3, <2>1, AppendFacts
    <2>3. "asked" \in Statuses
        BY DEF Statuses
    <2> QED
        BY <1>1, <2>1, <2>2, <2>3, Zenon
<1>5. TypeOK'
    BY <1>1, <1>2, <1>4, SameLocation DEF Inv, TypeOK, label
<1>6. LastReadingRight'
    BY <1>1, <1>2 DEF Inv, LastReadingRight
<1>7. LastLookupOfPosition' /\ AddressFollows'
    BY <1>1, <1>3, <1>4
       DEF Inv, LastLookupOfPosition, AddressFollows, Agree, label
<1> QED
    BY <1>1, <1>2, <1>5, <1>6, <1>7, MapConstants
       DEF Inv, FirstRestDue, FixKnown

-----------------------------------------------------------------------------
(* The lookups. *)

(* Steps that leave position, map and what was handed on. *)
LEMMA SameMap ==
    ASSUME Inv, UNCHANGED <<position, mapVars>>
    PROVE  FirstRestDue' /\ FixKnown' /\ LastReadingRight'
BY DEF Inv, FirstRestDue, FixKnown, LastReadingRight, mapVars

LEMMA LookupsTyped ==
    ASSUME Inv, NEW i \in 1 .. Len(lookups)
    PROVE  /\ lookups \in Seq(Lookup)
           /\ lookups[i] \in Lookup
           /\ lookups # <<>>
<1>1. lookups \in Seq(Lookup)
    BY Zenon DEF Inv, TypeOK
<1>2. lookups # <<>>
    BY EmptySeq
<1> QED
    BY <1>1, <1>2

LEMMA GetAddressReturnsInv ==
    ASSUME Inv, NEW i \in 1 .. Len(lookups), NEW ok \in BOOLEAN,
           GetAddressReturns(i, ok)
    PROVE  Inv'
<1> DEFINE sub == IF ok THEN lookups[i].place ELSE Unable
           l   == [lookups[i] EXCEPT !.sub = sub]
<1>1. /\ lookups' = [lookups EXCEPT ![i] = l]
      /\ UNCHANGED <<locationVars, page, position, label, mapVars, status,
                     handed>>
    BY DEF GetAddressReturns
<1>2. lookups \in Seq(Lookup) /\ lookups[i] \in Lookup
    BY LookupsTyped
<1>3. sub \in Places \cup {NULL, Unable}
    BY <1>2 DEF Lookup
<1>4. l \in Lookup /\ l.place = lookups[i].place
    <2> HIDE DEF sub
    <2> QED
        BY <1>2, <1>3 DEF Lookup
<1> HIDE DEF l
<1>5. /\ lookups' \in Seq(Lookup) /\ Len(lookups') = Len(lookups)
      /\ \A j \in 1 .. Len(lookups) :
             lookups'[j] = IF j = i THEN l ELSE lookups[j]
    BY <1>1, <1>2, <1>4
<1>6. lookups' # <<>> /\ lookups # <<>>
    BY <1>2, <1>5, EmptySeq
<1>7. LastOf(lookups').place = LastOf(lookups).place
    BY <1>2, <1>4, <1>5, <1>6 DEF LastOf
<1>8. TypeOK'
    BY <1>1, <1>5, SameLocation DEF Inv, TypeOK, label, mapVars
<1>9. LastLookupOfPosition'
    BY <1>1, <1>6, <1>7 DEF Inv, LastLookupOfPosition
<1>10. AddressFollows'
    BY <1>1 DEF Inv, AddressFollows, Agree, label
<1> QED
    BY <1>1, <1>8, <1>9, <1>10, SameMap DEF Inv

(***************************************************************************)
(* What the status says after a lookup ended: it names the result only if  *)
(* the lookup was the position's, and it does not outlive a change of the  *)
(* label by another one.                                                   *)
(***************************************************************************)
LEMMA EndsFacts ==
    ASSUME Inv, NEW i \in 1 .. Len(lookups),
           NEW result \in {"shown", "kept", "failed"}, Ends(i, result)
    PROVE  /\ lookups' \in Seq(Lookup)
           /\ status' \in Statuses \ {"none"}
           /\ status' = "asked" =>
                 lookups' # <<>> /\ LastOf(lookups').place = position
           /\ status' = "shown" =>
                 \/ result = "shown" /\ lookups[i].place = position
                 \/ result = "kept" /\ status = "shown"
           /\ status' = "failed" =>
                 \/ result = "failed"
                 \/ result = "kept" /\ status = "failed"
<1>1. /\ lookups \in Seq(Lookup) /\ lookups # <<>>
      /\ status \in Statuses /\ status # "none"
    <2>1. status \in Statuses /\ (status = "none" => lookups = <<>>)
        BY Zenon DEF Inv, TypeOK, LastLookupOfPosition
    <2> QED
        BY <2>1, LookupsTyped
<1>2. /\ lookups' \in Seq(Lookup)
      /\ i # Len(lookups) => /\ lookups' # <<>>
                             /\ LastOf(lookups') = LastOf(lookups)
    BY <1>1, RemoveFacts DEF Ends
<1>3. CASE status = "asked" /\ i = Len(lookups)
    <2>1. status' = result
        BY <1>3 DEF Ends
    <2>2. lookups[i].place = position
        BY <1>3 DEF Inv, LastLookupOfPosition, LastOf
    <2> QED
        BY <1>2, <2>1, <2>2 DEF Statuses
<1>4. CASE status = "asked" /\ i # Len(lookups)
    <2>1. status' = "asked"
        BY <1>4 DEF Ends
    <2>2. LastOf(lookups).place = position
        BY <1>4 DEF Inv, LastLookupOfPosition
    <2> QED
        BY <1>2, <1>4, <2>1, <2>2 DEF Statuses
<1>5. CASE status \in {"shown", "kept", "failed"}
    <2>1. status' = IF result = "kept" THEN status ELSE "overtaken"
        BY <1>5 DEF Ends
    <2> QED
        BY <1>2, <1>5, <2>1 DEF Statuses
<1>6. CASE status \in {"overtaken", "fix"}
    <2>1. status' = status
        BY <1>6 DEF Ends
    <2> QED
        BY <1>2, <1>6, <2>1 DEF Statuses
<1> QED
    BY <1>1, <1>3, <1>4, <1>5, <1>6 DEF Statuses

(* A lookup that ends keeps the invariant if the label follows its result. *)
LEMMA EndsInv ==
    ASSUME Inv, NEW i \in 1 .. Len(lookups),
           NEW result \in {"shown", "kept", "failed"}, Ends(i, result),
           UNCHANGED <<locationVars, page, position, mapVars, handed>>,
           address' \in Places \cup {Loading, Refused, Error},
           subAddress' \in Places \cup {Unable, ""},
           result = "shown" => address' = lookups[i].place,
           result = "kept" => UNCHANGED address,
           result = "failed" => address' \in {Refused, Error}
    PROVE  Inv'
<1>1. TypeOK'
    BY EndsFacts, SameLocation DEF Inv, TypeOK, mapVars
<1>2. LastLookupOfPosition'
    BY EndsFacts DEF LastLookupOfPosition
<1>3. Agree(position, address, status)'
    BY EndsFacts DEF Inv, AddressFollows, Agree
<1>4. AddressFollows'
    BY <1>3 DEF Inv, AddressFollows, Agree
<1> QED
    BY <1>1, <1>2, <1>4, SameMap DEF Inv

LEMMA GeocodeReturnsInv ==
    ASSUME Inv, NEW i \in 1 .. Len(lookups),
           NEW outcome \in {"found", "empty", "refused"},
           GeocodeReturns(i, outcome)
    PROVE  Inv'
<1>1. /\ UNCHANGED <<locationVars, page, position, mapVars, handed>>
      /\ lookups[i].sub # NULL
    BY DEF GeocodeReturns
<1>2. lookups[i] \in Lookup
    BY LookupsTyped
<1>3. lookups[i].place \in Places /\ lookups[i].sub \in Places \cup {Unable}
    BY <1>1, <1>2 DEF Lookup
<1>4. CASE outcome = "found"
    <2>1. /\ Ends(i, "shown") /\ address' = lookups[i].place
          /\ subAddress' = lookups[i].sub
        BY <1>4 DEF GeocodeReturns
    <2> QED
        BY <1>1, <1>3, <2>1, EndsInv
<1>5. CASE outcome = "empty"
    <2>1. Ends(i, "kept") /\ UNCHANGED <<address, subAddress>>
        BY <1>5 DEF GeocodeReturns, label
    <2>2. /\ address \in Places \cup {Loading, Refused, Error}
          /\ subAddress \in Places \cup {Unable, ""}
        BY DEF Inv, TypeOK
    <2> QED
        BY <1>1, <2>1, <2>2, EndsInv
<1>6. CASE outcome = "refused"
    <2>1. Ends(i, "failed") /\ address' = Refused /\ subAddress' = ""
        BY <1>6 DEF GeocodeReturns, Fails
    <2> QED
        BY <1>1, <2>1, EndsInv
<1> QED
    BY <1>4, <1>5, <1>6

LEMMA LookupThrowsInv ==
    ASSUME Inv, NEW i \in 1 .. Len(lookups), LookupThrows(i)
    PROVE  Inv'
<1>1. /\ Ends(i, "failed") /\ address' = Error /\ subAddress' = ""
      /\ UNCHANGED <<locationVars, page, position, mapVars, handed>>
    BY DEF LookupThrows, Fails
<1> QED
    BY <1>1, EndsInv

(* The page comes and goes; Done hands on what is on the screen. *)
LEMMA PageInv ==
    ASSUME Inv, Done \/ Return \/ Close
    PROVE  Inv'
<1>1. /\ UNCHANGED <<locationVars, position, label, mapVars, lookups, status>>
      /\ page' \in {"open", "covered", "closed"}
    BY DEF Done, Return, Close
<1>2. \/ UNCHANGED handed
      \/ /\ position # NULL
         /\ handed' = [position |-> position, address |-> address,
                       status |-> status]
    BY DEF Done, Return, Close
<1>3. handed' \in {NULL} \cup [position : Places, status : Statuses,
                             address : Places \cup {Loading, Refused, Error}]
    <2>1. /\ position # NULL => position \in Places
          /\ address \in Places \cup {Loading, Refused, Error}
          /\ status \in Statuses
          /\ handed \in {NULL} \cup
                [position : Places, status : Statuses,
                 address : Places \cup {Loading, Refused, Error}]
        BY Zenon DEF Inv, TypeOK
    <2> QED
        BY <1>2, <2>1
<1>4. TypeOK'
    BY <1>1, <1>3, SameLocation DEF Inv, TypeOK, label, mapVars
<1>5. LastLookupOfPosition'
    BY <1>1 DEF Inv, LastLookupOfPosition
<1>6. AddressFollows'
    BY <1>1, <1>2 DEF Inv, AddressFollows, Agree, label
<1> QED
    BY <1>1, <1>4, <1>5, <1>6, SameMap DEF Inv

-----------------------------------------------------------------------------

LEMMA NextInv == ASSUME Inv, [Next]_vars PROVE Inv'
<1>1. CASE UNCHANGED vars
    <2>1. TypeOK'
        BY <1>1, SameLocation DEF vars, Inv, TypeOK, label, mapVars
    <2> QED
        BY <1>1, <2>1, SameLabel, SameMap DEF vars, Inv
<1>2. CASE Next
    BY <1>2, LocateInv, LocatedInv, AnimateCameraInv, OnMapCreatedInv,
       MoveMapInv, OnCameraIdleInv, GetLatLngInv, PointReadInv,
       GetAddressReturnsInv, GeocodeReturnsInv, LookupThrowsInv, PageInv
       DEF Next
<1> QED
    BY <1>1, <1>2

(* The inductive invariant holds in every reachable state. *)
THEOREM Invariance == Spec => []Inv
<1> QED
    BY InitInv, NextInv, PTL DEF Spec

(* Position, label, map and lookups keep their types. *)
THEOREM TypeCorrect == Spec => []TypeOK
<1>1. Inv => TypeOK
    BY DEF Inv
<1> QED
    BY <1>1, Invariance, PTL

(***************************************************************************)
(* Whenever the map is at rest and its calls are answered, the position is *)
(* the one at the point, whatever moved position and camera before.        *)
(***************************************************************************)
THEOREM RestingPosition == Spec => []PositionAtPoint
<1>1. Inv => PositionAtPoint
    BY DEF Inv, PositionAtPoint, AtRest, LastReadingRight
<1> QED
    BY <1>1, Invariance, PTL

(***************************************************************************)
(* The label, and the address handed to the form, differ from the position *)
(* only in the cases the status names, for any number of lookups under way *)
(* and answered in any order.                                              *)
(***************************************************************************)
THEOREM LabelFollows == Spec => []AddressFollows
<1>1. Inv => AddressFollows
    BY DEF Inv
<1> QED
    BY <1>1, Invariance, PTL

-----------------------------------------------------------------------------
(* The two lines of the label. *)

(* The first request of a lookup answers for the place of that lookup. *)
Own == {l \in Lookup : l.sub \in {NULL, Unable, l.place}}

LinesAgree == IF address \in Places THEN subAddress \in {address, Unable}
                                    ELSE subAddress = ""

OwnLines == lookups \in Seq(Own) /\ LinesAgree

LEMMA EndsOwn ==
    ASSUME OwnLines, NEW i \in 1 .. Len(lookups), NEW result, Ends(i, result)
    PROVE  lookups' \in Seq(Own)
<1>1. lookups' = RemoveAt(lookups, i)
    BY DEF Ends
<1>2. lookups \in Seq(Own)
    BY DEF OwnLines
<1> QED
    BY <1>1, <1>2, RemoveFacts

LEMMA FailsOwn ==
    ASSUME OwnLines, NEW i \in 1 .. Len(lookups),
           NEW notice \in {Refused, Error}, Fails(i, notice)
    PROVE  OwnLines'
<1>1. lookups' \in Seq(Own)
    BY EndsOwn DEF Fails
<1>2. address' = notice /\ subAddress' = "" /\ notice \notin Places
    BY MapConstants DEF Fails, Notices
<1> QED
    BY <1>1, <1>2 DEF OwnLines, LinesAgree

LEMMA GeocodeReturnsOwn ==
    ASSUME OwnLines, NEW i \in 1 .. Len(lookups),
           NEW outcome \in {"found", "empty", "refused"},
           GeocodeReturns(i, outcome)
    PROVE  OwnLines'
<1>1. CASE outcome = "found"
    <2>1. /\ Ends(i, "shown") /\ address' = lookups[i].place
          /\ subAddress' = lookups[i].sub /\ lookups[i].sub # NULL
        BY <1>1 DEF GeocodeReturns
    <2>2. lookups[i] \in Own
        BY DEF OwnLines
    <2>3. address' \in Places /\ subAddress' \in {address', Unable}
        BY <2>1, <2>2 DEF Own, Lookup
    <2> QED
        BY <2>1, <2>3, EndsOwn DEF OwnLines, LinesAgree
<1>2. CASE outcome = "empty"
    <2>1. Ends(i, "kept") /\ UNCHANGED <<address, subAddress>>
        BY <1>2 DEF GeocodeReturns, label
    <2> QED
        BY <2>1, EndsOwn DEF OwnLines, LinesAgree
<1>3. CASE outcome = "refused"
    BY <1>3, FailsOwn DEF GeocodeReturns
<1> QED
    BY <1>1, <1>2, <1>3

LEMMA GetAddressReturnsOwn ==
    ASSUME OwnLines, NEW i \in 1 .. Len(lookups), NEW ok \in BOOLEAN,
           GetAddressReturns(i, ok)
    PROVE  OwnLines'
<1> DEFINE l == [lookups[i] EXCEPT !.sub =
                    IF ok THEN lookups[i].place ELSE Unable]
<1>1. lookups' = [lookups EXCEPT ![i] = l] /\ UNCHANGED <<address, subAddress>>
    BY DEF GetAddressReturns, label
<1>2. lookups \in Seq(Own) /\ lookups[i] \in Own
    BY DEF OwnLines
<1>3. l \in Own
    BY <1>2 DEF Own, Lookup
<1> HIDE DEF l
<1>4. lookups' \in Seq(Own)
    BY <1>1, <1>2, <1>3
<1> QED
    BY <1>1, <1>4 DEF OwnLines, LinesAgree

LEMMA PointReadOwn ==
    ASSUME Inv, OwnLines, PointRead
    PROVE  OwnLines'
<1> DEFINE l == [place |-> Head(answers), sub |-> NULL]
<1>1. /\ UNCHANGED <<address, subAddress>> /\ answers # <<>>
      /\ lookups' = lookups \/ lookups' = Append(lookups, l)
    BY DEF PointRead, OnPositionChanged, label
<1>2. l \in Own
    <2>1. Head(answers) \in Places
        BY <1>1, TailFacts DEF Inv, TypeOK
    <2> QED
        BY <2>1 DEF Own, Lookup
<1> HIDE DEF l
<1>3. lookups' \in Seq(Own)
    BY <1>1, <1>2, AppendFacts DEF OwnLines
<1> QED
    BY <1>1, <1>3 DEF OwnLines, LinesAgree

(***************************************************************************)
(* The two lines of the label are of one place: they are fetched by two    *)
(* requests of a lookup, and lookups end in any order, but the label never *)
(* joins the address of one place to the subAddress of another, and a      *)
(* notice never stands above a subAddress left from before.                *)
(***************************************************************************)
THEOREM LabelOfOnePlace == Spec => []LinesAgree
<1>1. Init => OwnLines
    BY MapConstants, EmptySeq DEF Init, OwnLines, LinesAgree, Notices
<1>2. ASSUME Inv, OwnLines, [Next]_vars
      PROVE  OwnLines'
    <2>1. CASE UNCHANGED <<lookups, address, subAddress>>
        BY <1>2, <2>1 DEF OwnLines, LinesAgree
    <2>2. CASE PointRead
        BY <1>2, <2>2, PointReadOwn
    <2>3. CASE \E i \in 1 .. Len(lookups), ok \in BOOLEAN :
                   GetAddressReturns(i, ok)
        BY <1>2, <2>3, GetAddressReturnsOwn
    <2>4. CASE \E i \in 1 .. Len(lookups), o \in {"found", "empty", "refused"} :
                   GeocodeReturns(i, o)
        BY <1>2, <2>4, GeocodeReturnsOwn
    <2>5. CASE \E i \in 1 .. Len(lookups) : LookupThrows(i)
        BY <1>2, <2>5, FailsOwn DEF LookupThrows
    <2> QED
        BY <1>2, <2>1, <2>2, <2>3, <2>4, <2>5
        DEF Next, Locate, Located, AnimateCamera, OnMapCreated, MoveMap,
            OnCameraIdle, GetLatLng, Done, Return, Close, vars, label
<1>3. OwnLines => LinesAgree
    BY DEF OwnLines
<1> QED
    BY <1>1, <1>2, <1>3, Invariance, PTL DEF Spec

=============================================================================
