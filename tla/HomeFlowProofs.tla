--------------------------- MODULE HomeFlowProofs ---------------------------
(***************************************************************************)
(* What the pages of the home flow rely on, for any number of page         *)
(* instances, submissions and any height of the stack.                     *)
(*                                                                         *)
(* Apart from Back and the answers of queries, every step replaces what    *)
(* lies above some position of the stack by one new page; the lemmas about *)
(* the Navigator's operators bring Push, PushReplacement and PopUntil into *)
(* that form, and NewTopInv treats them together.                          *)
(***************************************************************************)
EXTENDS HomeFlow, WellFoundedInduction, TLAPS

-----------------------------------------------------------------------------
(* The last route of a name exists. *)

LEMMA LeastNat ==
    ASSUME NEW S, S \subseteq Nat, S # {}
    PROVE  \E m \in S : \A n \in S : m <= n
<1>1. PICK m \in S : \A n \in S : ~(<<n, m>> \in OpToRel(<, Nat))
    BY NatLessThanWellFounded, WFMin
<1>2. \A n \in S : ~(n < m)
    BY <1>1 DEF OpToRel
<1> QED
    BY <1>2

LEMMA GreatestBounded ==
    ASSUME NEW S, NEW b \in Nat, S \subseteq 0 .. b, S # {}
    PROVE  \E m \in S : \A n \in S : n <= m
<1> DEFINE D == {b - n : n \in S}
<1>0. \A n \in S : n \in Int /\ 0 <= n /\ n <= b
    OBVIOUS
<1>1. D \subseteq Nat
    <2>1. \A n \in S : b - n \in Nat
        BY <1>0
    <2> QED
        BY <2>1
<1>2. PICK d \in D : \A e \in D : d <= e
    <2>1. D # {}
        OBVIOUS
    <2> HIDE DEF D
    <2> QED
        BY <1>1, <2>1, LeastNat
<1>3. PICK m \in S : d = b - m
    OBVIOUS
<1>4. \A n \in S : n <= m
    <2> TAKE n \in S
    <2>1. b - m <= b - n
        BY <1>2, <1>3
    <2> QED
        BY <2>1, <1>0
<1> QED
    BY <1>4

LEMMA LastNamedIs ==
    ASSUME NEW T, NEW st \in Seq(T), NEW name
    PROVE  /\ LastNamed(st, name) \in 0 .. Len(st)
           /\ IsLastNamed(st, name, LastNamed(st, name))
<1>1. \E n \in 0 .. Len(st) : IsLastNamed(st, name, n)
    <2>1. CASE Named(st, name) = {}
        <3>1. 0 \in 0 .. Len(st)
            OBVIOUS
        <3> QED
            BY <2>1, <3>1 DEF IsLastNamed
    <2>2. CASE Named(st, name) # {}
        <3>1. Named(st, name) \subseteq 0 .. Len(st) /\ Len(st) \in Nat
            BY DEF Named
        <3>2. PICK m \in Named(st, name) : \A n \in Named(st, name) : n <= m
            BY <2>2, <3>1, GreatestBounded
        <3> QED
            BY <3>1, <3>2 DEF IsLastNamed
    <2> QED
        BY <2>1, <2>2
<1> QED
    BY <1>1 DEF LastNamed

-----------------------------------------------------------------------------
(* What the Navigator's operators leave. *)

(* st2 is the first n routes of st1 with the route r above them. *)
NewTop(st1, st2, n, r) ==
    /\ n \in 0 .. Len(st1)
    /\ Len(st2) = n + 1
    /\ st2[n + 1] = r
    /\ \A i \in 1 .. n : st2[i] = st1[i]

LEMMA Cut ==
    ASSUME NEW T, NEW st \in Seq(T), NEW n \in 0 .. Len(st)
    PROVE  /\ SubSeq(st, 1, n) \in Seq(T)
           /\ Len(SubSeq(st, 1, n)) = n
           /\ \A i \in 1 .. n : SubSeq(st, 1, n)[i] = st[i]
OBVIOUS

LEMMA AppendIs ==
    ASSUME NEW T, NEW st \in Seq(T), NEW r \in T
    PROVE  /\ Append(st, r) \in Seq(T)
           /\ Len(Append(st, r)) = Len(st) + 1
           /\ Append(st, r)[Len(st) + 1] = r
           /\ \A i \in 1 .. Len(st) : Append(st, r)[i] = st[i]
OBVIOUS

LEMMA PushIs ==
    ASSUME NEW T, NEW st \in Seq(T), NEW r \in T
    PROVE  Push(st, r) \in Seq(T) /\ NewTop(st, Push(st, r), Len(st), r)
<1>1. Len(st) \in 0 .. Len(st)
    OBVIOUS
<1> QED
    BY <1>1, AppendIs DEF Push, NewTop

LEMMA CutAppendIs ==
    ASSUME NEW T, NEW st \in Seq(T), NEW r \in T, NEW n \in 0 .. Len(st)
    PROVE  /\ Append(SubSeq(st, 1, n), r) \in Seq(T)
           /\ NewTop(st, Append(SubSeq(st, 1, n), r), n, r)
<1> DEFINE s == SubSeq(st, 1, n)
<1>1. /\ s \in Seq(T) /\ Len(s) = n
      /\ \A i \in 1 .. n : s[i] = st[i]
    BY Cut
<1> HIDE DEF s
<1>2. /\ Append(s, r) \in Seq(T)
      /\ Len(Append(s, r)) = n + 1
      /\ Append(s, r)[n + 1] = r
      /\ \A i \in 1 .. n : Append(s, r)[i] = s[i]
    BY <1>1, AppendIs
<1>3. NewTop(st, Append(s, r), n, r)
    BY <1>1, <1>2 DEF NewTop
<1> QED
    BY <1>2, <1>3 DEF s

LEMMA PushReplacementIs ==
    ASSUME NEW T, NEW st \in Seq(T), NEW r \in T, Len(st) > 0
    PROVE  /\ PushReplacement(st, r) \in Seq(T)
           /\ NewTop(st, PushReplacement(st, r), Len(st) - 1, r)
<1>1. Len(st) - 1 \in 0 .. Len(st)
    OBVIOUS
<1> QED
    BY <1>1, CutAppendIs DEF PushReplacement, Pop

LEMMA PopUntilIs ==
    ASSUME NEW T, NEW st \in Seq(T), NEW r \in T, NEW name
    PROVE  \E n \in 0 .. Len(st) :
              /\ Push(PopUntil(st, name), r) \in Seq(T)
              /\ NewTop(st, Push(PopUntil(st, name), r), n, r)
              /\ n > 0 => st[n].name = name
<1> DEFINE n == LastNamed(st, name)
<1>1. n \in 0 .. Len(st) /\ IsLastNamed(st, name, n)
    BY LastNamedIs
<1>2. n > 0 => st[n].name = name
    BY <1>1 DEF IsLastNamed, Named
<1> HIDE DEF n
<1>3. /\ Push(PopUntil(st, name), r) \in Seq(T)
      /\ NewTop(st, Push(PopUntil(st, name), r), n, r)
    BY <1>1, CutAppendIs DEF Push, PopUntil, n
<1> QED
    BY <1>1, <1>2, <1>3

-----------------------------------------------------------------------------
(* The invariant. *)

(***************************************************************************)
(* What holds of each page: only list pages carry the list's name, and     *)
(* what was on the server when a list page was built is still there, and   *)
(* in its view once it has loaded.                                         *)
(***************************************************************************)
GoodRoute(r, written) ==
    /\ r.name = ListName => r.page = "list"
    /\ r.opened \subseteq written
    /\ r.view.state = "loaded" => r.opened \subseteq r.view.homes

GoodRoutes == \A i \in 1 .. Len(stack) : GoodRoute(stack[i], homes)

StackInv ==
    /\ Len(stack) > 0
    /\ GoodRoutes
    /\ NoFormBeneathList
    /\ BarOnlyAtBottom

Inv == TypeOK /\ StackInv

LEMMA StackIsSeq ==
    ASSUME TypeOK
    PROVE  /\ stack \in Seq(Route)
           /\ Len(stack) \in Nat
           /\ \A i \in 1 .. Len(stack) : stack[i] \in Route
BY DEF TypeOK

(***************************************************************************)
(* A new page on top of the first n: it may carry the list's name only     *)
(* above a page that does, and have the bottom bar only above one that     *)
(* has, or at the bottom.                                                  *)
(***************************************************************************)
LEMMA NewTopInv ==
    ASSUME Inv, homes \subseteq homes',
           NEW n, NEW r, NewTop(stack, stack', n, r),
           GoodRoute(r, homes'),
           r.name = ListName /\ n > 0 => stack[n].name = ListName,
           r.page \in BasePages /\ n > 0 => stack[n].page \in BasePages
    PROVE  StackInv'
<1>1. /\ n \in Nat /\ n <= Len(stack) /\ Len(stack) \in Nat
      /\ Len(stack') = n + 1
      /\ stack'[n + 1] = r
      /\ \A i \in 1 .. n : stack'[i] = stack[i] /\ i \in 1 .. Len(stack)
    BY StackIsSeq DEF NewTop, Inv
<1>2. \A j \in 1 .. n + 1 : j = n + 1 \/ j \in 1 .. n
    BY <1>1
<1>3. Len(stack') > 0
    BY <1>1
<1>4. GoodRoutes'
    <2>1. \A i \in 1 .. n : GoodRoute(stack[i], homes')
        BY <1>1 DEF Inv, StackInv, GoodRoutes, GoodRoute
    <2> QED
        BY <1>1, <1>2, <2>1 DEF GoodRoutes
<1>5. NoFormBeneathList'
    <2> SUFFICES ASSUME NEW j \in 1 .. n + 1, stack'[j].name = ListName,
                        NEW i \in 1 .. j
                 PROVE  stack'[i].name = ListName
        BY <1>1 DEF NoFormBeneathList
    <2>1. CASE j \in 1 .. n
        <3>1. i \in 1 .. n
            BY <1>1, <2>1
        <3> QED
            BY <1>1, <2>1, <3>1 DEF Inv, StackInv, NoFormBeneathList
    <2>2. CASE j = n + 1 /\ i # j
        <3>1. i \in 1 .. n /\ n > 0 /\ n \in 1 .. Len(stack)
            BY <1>1, <2>2
        <3>2. stack[n].name = ListName
            BY <1>1, <2>2, <3>1
        <3> QED
            BY <1>1, <3>1, <3>2 DEF Inv, StackInv, NoFormBeneathList
    <2> QED
        BY <1>2, <2>1, <2>2
<1>6. BarOnlyAtBottom'
    <2> SUFFICES ASSUME NEW j \in 1 .. n + 1, stack'[j].page \in BasePages,
                        NEW i \in 1 .. j
                 PROVE  stack'[i].page \in BasePages
        BY <1>1 DEF BarOnlyAtBottom
    <2>1. CASE j \in 1 .. n
        <3>1. i \in 1 .. n
            BY <1>1, <2>1
        <3> QED
            BY <1>1, <2>1, <3>1 DEF Inv, StackInv, BarOnlyAtBottom
    <2>2. CASE j = n + 1 /\ i # j
        <3>1. i \in 1 .. n /\ n > 0 /\ n \in 1 .. Len(stack)
            BY <1>1, <2>2
        <3>2. stack[n].page \in BasePages
            BY <1>1, <2>2, <3>1
        <3> QED
            BY <1>1, <3>1, <3>2 DEF Inv, StackInv, BarOnlyAtBottom
    <2> QED
        BY <1>2, <2>1, <2>2
<1> QED
    BY <1>3, <1>4, <1>5, <1>6 DEF StackInv

LEMMA RouteType ==
    ASSUME NEW k \in Keys, NEW p \in BasePages \cup FlowPages,
           NEW s \in {"", "/", "/home", ListName}, NEW v \in View,
           NEW o \in SUBSET (1 .. MaxTaps), NEW r,
           r = [key |-> k, page |-> p, name |-> s, view |-> v, opened |-> o]
    PROVE  r \in Route
BY DEF Route

(* A page that is built has a free identity and is in order. *)
LEMMA NewRouteIs ==
    ASSUME TypeOK, InUse # Keys,
           NEW page \in BasePages \cup FlowPages, NEW name \in {"", ListName},
           name = ListName => page = "list",
           NEW written, written \subseteq 1 .. MaxTaps
    PROVE  /\ NewRoute(page, name, written) \in Route
           /\ NewRoute(page, name, written).name = name
           /\ NewRoute(page, name, written).page = page
           /\ GoodRoute(NewRoute(page, name, written), written)
<1> DEFINE key == CHOOSE k \in Keys : k \notin InUse
<1>1. InUse \subseteq Keys
    <2>1. KeysOf(stack) \subseteq Keys
        <3>1. \A i \in 1 .. Len(stack) : stack[i].key \in Keys
            BY StackIsSeq DEF Route
        <3> QED
            BY <3>1, Zenon DEF KeysOf
    <2>2. Awaiting(creates) \subseteq Keys
        <3>1. \A c \in creates : c.form \in Keys
            BY DEF TypeOK, Create
        <3> QED
            BY <3>1, Zenon DEF Awaiting
    <2>3. lingering \subseteq Keys
        BY DEF TypeOK
    <2> QED
        BY <2>1, <2>2, <2>3 DEF InUse
<1>2. key \in Keys
    <2>1. \E k \in Keys : k \notin InUse
        BY <1>1
    <2> QED
        BY <2>1, Zenon
<1>3. /\ NoView \in View /\ Waiting \in View
      /\ NoView.state # "loaded" /\ Waiting.state # "loaded"
    BY DEF NoView, Waiting, View
<1> DEFINE view == IF page = "list" THEN Waiting ELSE NoView
           opened == IF page = "list" THEN written ELSE {}
<1>4. view \in View /\ view.state # "loaded"
    BY <1>3
<1>5. opened \subseteq written /\ opened \in SUBSET (1 .. MaxTaps)
    OBVIOUS
<1>6. /\ NewRoute(page, name, written).name = name
      /\ NewRoute(page, name, written).page = page
      /\ NewRoute(page, name, written).view = view
      /\ NewRoute(page, name, written).opened = opened
    BY DEF NewRoute
<1>7. NewRoute(page, name, written) =
        [key |-> key, page |-> page, name |-> name,
         view |-> view, opened |-> opened]
    BY DEF NewRoute
<1> HIDE DEF key, view, opened
<1>8. NewRoute(page, name, written) \in Route
    <2>1. name \in {"", "/", "/home", ListName}
        OBVIOUS
    <2> QED
        BY <1>2, <1>4, <1>5, <1>7, <2>1, RouteType
<1>9. GoodRoute(NewRoute(page, name, written), written)
    BY <1>4, <1>5, <1>6, Zenon DEF GoodRoute
<1> QED
    BY <1>8, <1>6, <1>9

-----------------------------------------------------------------------------
(* Every step preserves it. *)

LEMMA InitInv == Init => Inv
<1> SUFFICES ASSUME Init PROVE Inv
    OBVIOUS
<1>1. RootKey \in Keys /\ HomeKey \in Keys
    <2>1. \E k \in Keys : TRUE
        BY FlowConstants
    <2>2. \E k \in Keys : k # RootKey
        BY FlowConstants
    <2> QED
        BY <2>1, <2>2, Zenon DEF RootKey, HomeKey
<1> DEFINE root == StartRoute(RootKey, "root", "/")
           home == StartRoute(HomeKey, "home", "/home")
<1>2. /\ root.name = "/" /\ root.page = "root"
      /\ root.opened = {} /\ root.view = NoView
      /\ home.name = "/home" /\ home.page = "home"
      /\ home.opened = {} /\ home.view = NoView
    BY DEF StartRoute
<1>3. root \in Route /\ home \in Route
    <2>1. NoView \in View
        BY DEF NoView, View
    <2>2. {} \in SUBSET (1 .. MaxTaps)
        OBVIOUS
    <2>3. "root" \in BasePages /\ "home" \in BasePages
        BY DEF BasePages
    <2> QED
        BY <1>1, <2>1, <2>2, <2>3, RouteType DEF StartRoute
<1>4. GoodRoute(root, {}) /\ GoodRoute(home, {})
    <2>1. NoView.state # "loaded"
        BY DEF NoView
    <2>2. "/" # ListName /\ "/home" # ListName
        BY DEF ListName
    <2> QED
        BY <1>2, <2>1, <2>2, Zenon DEF GoodRoute
<1>5. root.page \in BasePages /\ home.page \in BasePages
    BY <1>2 DEF BasePages
<1>6. root.name # ListName /\ home.name # ListName
    BY <1>2 DEF ListName
<1> HIDE DEF root, home
<1>7. stack = << root >> \/ stack = << root, home >>
    BY DEF Init, root, home
<1>8. /\ stack \in Seq(Route) /\ Len(stack) > 0
      /\ \A i \in 1 .. Len(stack) : stack[i] \in {root, home}
    <2>1. CASE stack = << root >>
        BY <1>3, <2>1
    <2>2. CASE stack = << root, home >>
        BY <1>3, <2>2
    <2> QED
        BY <1>7, <2>1, <2>2
<1>9. TypeOK
    BY <1>8, FlowConstants DEF Init, TypeOK
<1>10. GoodRoutes
    BY <1>4, <1>8 DEF Init, GoodRoutes
<1>11. NoFormBeneathList
    BY <1>6, <1>8 DEF NoFormBeneathList
<1>12. BarOnlyAtBottom
    <2> SUFFICES ASSUME NEW j \in 1 .. Len(stack), NEW i \in 1 .. j
                 PROVE  stack[i].page \in BasePages
        BY DEF BarOnlyAtBottom
    <2>1. i \in 1 .. Len(stack)
        BY <1>8
    <2> QED
        BY <1>5, <1>8, <2>1
<1> QED
    BY <1>8, <1>9, <1>10, <1>11, <1>12 DEF Inv, StackInv

LEMMA TapNavbarInv ==
    ASSUME Inv, NEW page \in BasePages, TapNavbar(page)
    PROVE  Inv'
<1> DEFINE r == NewRoute(page, "", homes)
<1>1. /\ InUse # Keys /\ TypeOK /\ Len(stack) > 0
      /\ stack[Len(stack)].page \in BasePages
      /\ homes \subseteq 1 .. MaxTaps
      /\ stack' = PushReplacement(stack, r)
      /\ UNCHANGED <<lingering, taps, creates, homes>>
    BY DEF TapNavbar, OnTop, Top, Inv, TypeOK
<1>2. r \in Route /\ r.name = "" /\ r.page = page /\ GoodRoute(r, homes)
    <2>1. "" # ListName
        BY DEF ListName
    <2> QED
        BY <1>1, <2>1, NewRouteIs
<1> HIDE DEF r
<1>3. /\ stack' \in Seq(Route)
      /\ NewTop(stack, stack', Len(stack) - 1, r)
    BY <1>1, <1>2, StackIsSeq, PushReplacementIs
<1>4. TypeOK'
    BY <1>1, <1>3 DEF TypeOK
<1>5. Len(stack) - 1 > 0 => stack[Len(stack) - 1].page \in BasePages
    <2>1. Len(stack) \in Nat
        BY <1>1, StackIsSeq
    <2>2. Len(stack) \in 1 .. Len(stack)
        BY <1>1, <2>1
    <2>3. Len(stack) - 1 > 0 => Len(stack) - 1 \in 1 .. Len(stack)
        BY <2>1
    <2> QED
        BY <1>1, <2>2, <2>3 DEF Inv, StackInv, BarOnlyAtBottom
<1>6. StackInv'
    <2>1. r.name # ListName
        BY <1>2 DEF ListName
    <2> QED
        BY <1>1, <1>2, <1>3, <1>5, <2>1, NewTopInv
<1> QED
    BY <1>4, <1>6 DEF Inv

LEMMA OpenPageInv ==
    ASSUME Inv, NEW page \in FlowPages, OpenPage(page)
    PROVE  Inv'
<1> DEFINE r == NewRoute(page, "", homes)
<1>1. /\ InUse # Keys /\ TypeOK
      /\ homes \subseteq 1 .. MaxTaps
      /\ stack' = Push(stack, r)
      /\ UNCHANGED <<lingering, taps, creates, homes>>
    BY DEF OpenPage, Room, Inv, TypeOK
<1>2. r \in Route /\ r.name = "" /\ r.page = page /\ GoodRoute(r, homes)
    <2>1. "" # ListName
        BY DEF ListName
    <2> QED
        BY <1>1, <2>1, NewRouteIs
<1> HIDE DEF r
<1>3. stack' \in Seq(Route) /\ NewTop(stack, stack', Len(stack), r)
    BY <1>1, <1>2, StackIsSeq, PushIs
<1>4. TypeOK'
    BY <1>1, <1>3 DEF TypeOK
<1>5. r.name # ListName /\ r.page \notin BasePages
    BY <1>2 DEF ListName, BasePages, FlowPages
<1>6. StackInv'
    BY <1>1, <1>2, <1>3, <1>5, NewTopInv
<1> QED
    BY <1>4, <1>6 DEF Inv

(* Pages stay as they are while the server's documents only grow. *)
LEMMA SameStack ==
    ASSUME StackInv, UNCHANGED stack, homes \subseteq homes'
    PROVE  StackInv'
<1>1. GoodRoutes'
    BY DEF StackInv, GoodRoutes, GoodRoute
<1> QED
    BY <1>1 DEF StackInv, NoFormBeneathList, BarOnlyAtBottom

LEMMA CreateHomeInv == ASSUME Inv, CreateHome PROVE Inv'
<1>1. /\ Len(stack) > 0 /\ taps < MaxTaps /\ taps' = taps + 1
      /\ creates' = creates \cup {[form |-> stack[Len(stack)].key,
                                   doc |-> taps + 1]}
      /\ UNCHANGED <<stack, lingering, homes>>
    BY DEF CreateHome, OnTop, Top
<1>2. taps + 1 \in 1 .. MaxTaps
    BY <1>1, FlowConstants DEF Inv, TypeOK
<1>3. stack[Len(stack)].key \in Keys
    <2>1. Len(stack) \in 1 .. Len(stack)
        BY <1>1, StackIsSeq DEF Inv
    <2> QED
        BY <2>1, StackIsSeq DEF Inv, Route
<1>4. creates' \subseteq Create
    BY <1>1, <1>2, <1>3 DEF Inv, TypeOK, Create
<1>5. TypeOK'
    <2>1. taps' \in 0 .. MaxTaps
        BY <1>1, <1>2
    <2> QED
        BY <1>1, <1>4, <2>1 DEF Inv, TypeOK
<1> QED
    BY <1>1, <1>5, SameStack DEF Inv

LEMMA WrittenIs ==
    ASSUME TypeOK, NEW c \in creates, NEW ok \in BOOLEAN
    PROVE  /\ homes \subseteq Written(c, ok)
           /\ Written(c, ok) \subseteq 1 .. MaxTaps
<1>1. c.doc \in 1 .. MaxTaps
    BY DEF TypeOK, Create
<1>2. homes \subseteq 1 .. MaxTaps
    BY DEF TypeOK
<1> QED
    BY <1>1, <1>2 DEF Written

LEMMA CreateReturnsInv ==
    ASSUME Inv, NEW c \in creates, NEW ok \in BOOLEAN, CreateReturns(c, ok)
    PROVE  Inv'
<1> DEFINE r == NewRoute("list", ListName, Written(c, ok))
<1>1. /\ creates' = creates \ {c} /\ homes' = Written(c, ok)
      /\ UNCHANGED taps
    BY DEF CreateReturns
<1>2. /\ homes \subseteq homes' /\ homes' \subseteq 1 .. MaxTaps
      /\ Written(c, ok) \subseteq 1 .. MaxTaps
    BY <1>1, WrittenIs DEF Inv
<1>3. creates' \subseteq Create /\ taps' \in 0 .. MaxTaps
    BY <1>1 DEF Inv, TypeOK
<1>4. CASE ~Mounted(c.form)
    <2>1. UNCHANGED <<stack, lingering>>
        BY <1>4 DEF CreateReturns
    <2>2. TypeOK'
        BY <1>2, <1>3, <2>1 DEF Inv, TypeOK
    <2> QED
        BY <1>2, <2>1, <2>2, SameStack DEF Inv
<1>5. CASE Mounted(c.form)
    <2>1. /\ InUse # Keys
          /\ stack' = Push(PopUntil(stack, ListName), r)
          /\ lingering' = (lingering \cup (KeysOf(stack) \ KeysOf(stack')))
                          \cap Awaiting(creates')
        BY <1>5 DEF CreateReturns
    <2>2. /\ r \in Route /\ r.name = ListName /\ r.page = "list"
          /\ GoodRoute(r, homes')
        <3>1. "list" \in BasePages \cup FlowPages
            BY DEF FlowPages
        <3> QED
            BY <1>1, <1>2, <2>1, <3>1, NewRouteIs DEF Inv
    <2> HIDE DEF r
    <2>3. PICK n \in 0 .. Len(stack) :
              /\ stack' \in Seq(Route)
              /\ NewTop(stack, stack', n, r)
              /\ n > 0 => stack[n].name = ListName
        BY <2>1, <2>2, StackIsSeq, PopUntilIs DEF Inv
    <2>4. lingering' \subseteq Keys
        <3>1. \A x \in creates' : x.form \in Keys
            BY <1>3 DEF Create
        <3>2. Awaiting(creates') \subseteq Keys
            BY <3>1, Zenon DEF Awaiting
        <3> QED
            BY <2>1, <3>2
    <2>5. TypeOK'
        BY <1>2, <1>3, <2>3, <2>4 DEF TypeOK
    <2>6. r.page \notin BasePages
        BY <2>2 DEF BasePages
    <2>7. StackInv'
        BY <1>2, <2>2, <2>3, <2>6, NewTopInv
    <2> QED
        BY <2>5, <2>7 DEF Inv
<1> QED
    BY <1>4, <1>5

LEMMA QueryReturnsInv ==
    ASSUME Inv, NEW i \in 1 .. Len(stack), NEW ok \in BOOLEAN,
           QueryReturns(i, ok)
    PROVE  Inv'
<1> DEFINE docs == {c.doc : c \in creates}
           v == IF ok THEN [state |-> "loaded", homes |-> homes \cup docs]
                      ELSE [state |-> "failed", homes |-> {}]
<1>1. /\ stack' = [stack EXCEPT ![i].view = v]
      /\ UNCHANGED <<lingering, taps, creates, homes>>
    BY DEF QueryReturns
<1>2. homes \cup docs \subseteq 1 .. MaxTaps
    <2>1. \A c \in creates : c.doc \in 1 .. MaxTaps
        BY DEF Inv, TypeOK, Create
    <2>2. homes \subseteq 1 .. MaxTaps
        BY DEF Inv, TypeOK
    <2> QED
        BY <2>1, <2>2
<1> HIDE DEF docs
<1>3. /\ v \in View
      /\ v.state = "loaded" => homes \subseteq v.homes
    BY <1>2 DEF View
<1> HIDE DEF v
<1>4. stack \in Seq(Route) /\ Len(stack) \in Nat
      /\ \A j \in 1 .. Len(stack) : stack[j] \in Route
    BY StackIsSeq DEF Inv
<1>5. stack' = [stack EXCEPT ![i] = [stack[i] EXCEPT !.view = v]]
    BY <1>1
<1>6. [stack[i] EXCEPT !.view = v] \in Route
    BY <1>3, <1>4 DEF Route
<1>7. /\ stack' \in Seq(Route)
      /\ Len(stack') = Len(stack)
      /\ \A j \in 1 .. Len(stack) :
            j # i => stack'[j] = stack[j]
      /\ stack'[i] = [stack[i] EXCEPT !.view = v]
    BY <1>4, <1>5, <1>6
<1>8. /\ stack'[i].name = stack[i].name /\ stack'[i].page = stack[i].page
      /\ stack'[i].opened = stack[i].opened /\ stack'[i].view = v
    BY <1>4, <1>7 DEF Route
<1>9. \A j \in 1 .. Len(stack) : /\ stack'[j].name = stack[j].name
                                 /\ stack'[j].page = stack[j].page
    BY <1>7, <1>8
<1>10. TypeOK'
    BY <1>1, <1>7 DEF Inv, TypeOK
<1>11. GoodRoutes'
    <2>1. GoodRoute(stack'[i], homes)
        BY <1>3, <1>8 DEF Inv, StackInv, GoodRoutes, GoodRoute
    <2>2. \A j \in 1 .. Len(stack) : GoodRoute(stack'[j], homes)
        BY <1>7, <2>1 DEF Inv, StackInv, GoodRoutes
    <2> QED
        BY <1>1, <1>7, <2>2 DEF GoodRoutes
<1>12. \A j \in 1 .. Len(stack) : \A k \in 1 .. j : k \in 1 .. Len(stack)
    BY <1>4
<1>13. NoFormBeneathList'
    BY <1>7, <1>9, <1>12 DEF Inv, StackInv, NoFormBeneathList
<1>14. BarOnlyAtBottom'
    BY <1>7, <1>9, <1>12 DEF Inv, StackInv, BarOnlyAtBottom
<1> QED
    BY <1>7, <1>10, <1>11, <1>13, <1>14 DEF Inv, StackInv

LEMMA BackInv == ASSUME Inv, Back PROVE Inv'
<1>1. /\ Len(stack) > 1 /\ stack' = Pop(stack)
      /\ lingering' = lingering \cup
                          ({stack[Len(stack)].key} \cap Awaiting(creates))
      /\ UNCHANGED <<taps, creates, homes>>
    BY DEF Back, Top
<1>2. stack \in Seq(Route) /\ Len(stack) \in Nat
    BY StackIsSeq DEF Inv
<1>3. Len(stack) - 1 \in 0 .. Len(stack)
    BY <1>1, <1>2
<1>4. /\ stack' \in Seq(Route) /\ Len(stack') = Len(stack) - 1
      /\ \A i \in 1 .. Len(stack) - 1 : stack'[i] = stack[i]
    BY <1>1, <1>2, <1>3, Cut DEF Pop
<1>5. \A i \in 1 .. Len(stack') : /\ stack'[i] = stack[i]
                                  /\ i \in 1 .. Len(stack)
                                  /\ \A j \in 1 .. i : j \in 1 .. Len(stack')
    BY <1>2, <1>4
<1>6. lingering' \subseteq Keys
    <2>1. \A x \in creates : x.form \in Keys
        BY DEF Inv, TypeOK, Create
    <2>2. Awaiting(creates) \subseteq Keys
        BY <2>1, Zenon DEF Awaiting
    <2> QED
        BY <1>1, <2>2 DEF Inv, TypeOK
<1>7. TypeOK'
    BY <1>1, <1>4, <1>6 DEF Inv, TypeOK
<1>8. Len(stack') > 0
    BY <1>1, <1>2, <1>4
<1>9. GoodRoutes'
    BY <1>1, <1>5 DEF Inv, StackInv, GoodRoutes
<1>10. NoFormBeneathList'
    BY <1>5 DEF Inv, StackInv, NoFormBeneathList
<1>11. BarOnlyAtBottom'
    BY <1>5 DEF Inv, StackInv, BarOnlyAtBottom
<1> QED
    BY <1>7, <1>8, <1>9, <1>10, <1>11 DEF Inv, StackInv

LEMMA QuietInv ==
    ASSUME Inv, UNCHANGED vars \/ \E k \in lingering : TransitionEnds(k)
    PROVE  Inv'
<1>1. UNCHANGED <<stack, taps, creates, homes>> /\ lingering' \subseteq lingering
    BY DEF vars, TransitionEnds
<1>2. TypeOK'
    BY <1>1 DEF Inv, TypeOK
<1> QED
    BY <1>1, <1>2, SameStack DEF Inv

LEMMA NextInv == Inv /\ [Next]_vars => Inv'
<1> SUFFICES ASSUME Inv, [Next]_vars PROVE Inv'
    OBVIOUS
<1>1. CASE \E page \in BasePages : TapNavbar(page)
    BY <1>1, TapNavbarInv
<1>2. CASE \E page \in FlowPages : OpenPage(page)
    BY <1>2, OpenPageInv
<1>3. CASE CreateHome
    BY <1>3, CreateHomeInv
<1>4. CASE \E c \in creates, ok \in BOOLEAN : CreateReturns(c, ok)
    BY <1>4, CreateReturnsInv
<1>5. CASE \E i \in 1 .. Len(stack), ok \in BOOLEAN : QueryReturns(i, ok)
    BY <1>5, QueryReturnsInv
<1>6. CASE Back
    BY <1>6, BackInv
<1>7. CASE \E k \in lingering : TransitionEnds(k)
    BY <1>7, QuietInv
<1>8. CASE UNCHANGED vars
    BY <1>8, QuietInv
<1> QED
    BY <1>1, <1>2, <1>3, <1>4, <1>5, <1>6, <1>7, <1>8 DEF Next

-----------------------------------------------------------------------------
(* The results. *)

(* The inductive invariant holds in every reachable state. *)
THEOREM Invariance == Spec => []Inv
BY InitInv, NextInv, PTL DEF Spec

(* The stack, the documents and the requests keep their types. *)
THEOREM TypeCorrect == Spec => []TypeOK
<1>1. Inv => TypeOK
    BY DEF Inv
<1> QED
    BY <1>1, Invariance, PTL

(***************************************************************************)
(* Back never leads from the list page _createHome pushes into a submitted *)
(* form, however many creations and late answers there are, and however    *)
(* high the stack was.                                                     *)
(***************************************************************************)
THEOREM ListCoversNoForm == Spec => []NoFormBeneathList
<1>1. Inv => NoFormBeneathList
    BY DEF Inv, StackInv
<1> QED
    BY <1>1, Invariance, PTL

(* A page with the bottom bar never lies above a page of the flow. *)
THEOREM BarAtBottom == Spec => []BarOnlyAtBottom
<1>1. Inv => BarOnlyAtBottom
    BY DEF Inv, StackInv
<1> QED
    BY <1>1, Invariance, PTL

(***************************************************************************)
(* A loaded list page shows every home the server had when it was built,   *)
(* because getHomesByOwner is called after create(...) has returned.       *)
(***************************************************************************)
THEOREM ListComplete == Spec => []ListShowsWrites
<1>1. Inv => ListShowsWrites
    BY DEF Inv, StackInv, GoodRoutes, GoodRoute, ListShowsWrites
<1> QED
    BY <1>1, Invariance, PTL

(***************************************************************************)
(* Once a creation has emptied the stack under its list page, that or      *)
(* another such list page is the bottom for good: popUntil's predicate     *)
(* finds it from then on, Back stops at it and it has no bottom bar.       *)
(***************************************************************************)
THEOREM Stranded == Spec => StrandedOnList
<1>1. ASSUME Inv, [Next]_vars, stack[1].name = ListName
      PROVE  stack'[1].name = ListName
    <2>1. /\ Len(stack) \in Nat /\ Len(stack) > 0 /\ stack \in Seq(Route)
          /\ 1 \in 1 .. Len(stack)
        BY <1>1, StackIsSeq DEF Inv, StackInv
    <2>2. ASSUME NEW n, NEW r, NewTop(stack, stack', n, r),
                 n = 0 => r.name = ListName
          PROVE  stack'[1].name = ListName
        <3>1. CASE n = 0
            BY <2>2, <3>1 DEF NewTop
        <3>2. CASE n # 0
            <4>1. 1 \in 1 .. n
                BY <2>1, <2>2, <3>2 DEF NewTop
            <4> QED
                BY <1>1, <2>2, <4>1 DEF NewTop
        <3> QED
            BY <3>1, <3>2
    <2>3. ASSUME NEW page \in BasePages, TapNavbar(page)
          PROVE  stack'[1].name = ListName
        <3> DEFINE r == NewRoute(page, "", homes)
        <3>1. /\ InUse # Keys /\ TypeOK /\ homes \subseteq 1 .. MaxTaps
              /\ stack[Len(stack)].page \in BasePages
              /\ stack' = PushReplacement(stack, r)
            BY <1>1, <2>3 DEF TapNavbar, OnTop, Top, Inv, TypeOK
        <3>2. r \in Route
            <4>1. "" # ListName
                BY DEF ListName
            <4> QED
                BY <3>1, <4>1, NewRouteIs
        <3> HIDE DEF r
        <3>3. NewTop(stack, stack', Len(stack) - 1, r)
            BY <2>1, <3>1, <3>2, PushReplacementIs
        <3>4. Len(stack) # 1
            <4>1. stack[1].page = "list"
                BY <1>1, <2>1 DEF Inv, StackInv, GoodRoutes, GoodRoute
            <4> QED
                BY <3>1, <4>1 DEF BasePages
        <3>5. Len(stack) - 1 # 0
            BY <2>1, <3>4
        <3> QED
            BY <2>2, <3>3, <3>5
    <2>4. ASSUME NEW page \in FlowPages, OpenPage(page)
          PROVE  stack'[1].name = ListName
        <3> DEFINE r == NewRoute(page, "", homes)
        <3>1. /\ InUse # Keys /\ TypeOK /\ homes \subseteq 1 .. MaxTaps
              /\ stack' = Push(stack, r)
            BY <1>1, <2>4 DEF OpenPage, Room, Inv, TypeOK
        <3>2. r \in Route
            <4>1. "" # ListName
                BY DEF ListName
            <4> QED
                BY <3>1, <4>1, NewRouteIs
        <3> HIDE DEF r
        <3>3. NewTop(stack, stack', Len(stack), r)
            BY <2>1, <3>1, <3>2, PushIs
        <3> QED
            BY <2>1, <2>2, <3>3
    <2>5. ASSUME NEW c \in creates, NEW ok \in BOOLEAN, CreateReturns(c, ok)
          PROVE  stack'[1].name = ListName
        <3>1. CASE ~Mounted(c.form)
            BY <1>1, <2>5, <3>1 DEF CreateReturns
        <3>2. CASE Mounted(c.form)
            <4> DEFINE r == NewRoute("list", ListName, Written(c, ok))
            <4>1. /\ InUse # Keys /\ TypeOK
                  /\ Written(c, ok) \subseteq 1 .. MaxTaps
                  /\ stack' = Push(PopUntil(stack, ListName), r)
                BY <1>1, <2>5, <3>2, WrittenIs DEF CreateReturns, Inv
            <4>2. r \in Route /\ r.name = ListName
                <5>1. "list" \in BasePages \cup FlowPages
                    BY DEF FlowPages
                <5> QED
                    BY <4>1, <5>1, NewRouteIs
            <4> HIDE DEF r
            <4>3. \E n \in 0 .. Len(stack) : NewTop(stack, stack', n, r)
                BY <2>1, <4>1, <4>2, PopUntilIs
            <4> QED
                BY <2>2, <4>2, <4>3
        <3> QED
            BY <3>1, <3>2
    <2>6. ASSUME NEW i \in 1 .. Len(stack), NEW ok \in BOOLEAN,
                 QueryReturns(i, ok)
          PROVE  stack'[1].name = ListName
        <3>1. stack[1] \in Route
            BY <2>1, StackIsSeq, <1>1 DEF Inv
        <3>2. PICK v : stack' = [stack EXCEPT ![i].view = v]
            BY <2>6, Zenon DEF QueryReturns
        <3>3. stack'[1] = stack[1] \/ stack'[1] = [stack[1] EXCEPT !.view = v]
            BY <2>1, <3>2
        <3> QED
            BY <1>1, <3>1, <3>3 DEF Route
    <2>7. ASSUME Back PROVE stack'[1].name = ListName
        <3>1. Len(stack) > 1 /\ stack' = SubSeq(stack, 1, Len(stack) - 1)
            BY <2>7 DEF Back, Pop
        <3>2. Len(stack) - 1 \in 0 .. Len(stack) /\ 1 \in 1 .. Len(stack) - 1
            BY <2>1, <3>1
        <3> QED
            BY <1>1, <2>1, <3>1, <3>2, Cut
    <2>8. ASSUME UNCHANGED stack PROVE stack'[1].name = ListName
        BY <1>1, <2>8
    <2>9. \/ UNCHANGED stack
          \/ \E page \in BasePages : TapNavbar(page)
          \/ \E page \in FlowPages : OpenPage(page)
          \/ \E c \in creates, ok \in BOOLEAN : CreateReturns(c, ok)
          \/ \E i \in 1 .. Len(stack), ok \in BOOLEAN : QueryReturns(i, ok)
          \/ Back
        BY <1>1 DEF Next, CreateHome, TransitionEnds, vars
    <2> QED
        BY <2>3, <2>4, <2>5, <2>6, <2>7, <2>8, <2>9
<1>2. Inv /\ [Next]_vars
        => [stack[1].name = ListName => stack'[1].name = ListName]_vars
    BY <1>1
<1> QED
    BY <1>2, Invariance, PTL DEF Spec, StrandedOnList

=============================================================================
