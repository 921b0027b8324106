------------------------------ MODULE HomeFlow ------------------------------
(***************************************************************************)
(* The pages through which homes are listed and created:                   *)
(*                                                                         *)
(*   settings -> list of homes -> map -> form -> (home created) -> list    *)
(*                     `-> home detail -> map -> ...                       *)
(*                                                                         *)
(* and the "homes" collection they read and write.  Sources:               *)
(* pages/home/list.dart, create.dart, formCreate.dart, detail.dart,        *)
(* components/Navbar.dart, controllers/FireBaseController.dart under       *)
(* src/lib.  What is inside the form is the subject of HomeForm; here a    *)
(* submission is a numbered document of the signed-in user.                *)
(*                                                                         *)
(* Firestore's client: a query's answer shows the documents the server has *)
(* together with the local ones it has not answered yet, and the future of *)
(* add() completes when the server answers.                                *)
(***************************************************************************)
EXTENDS Routes

CONSTANTS
    Keys,       \* bound: identities of page instances, reused when free
    MaxTaps,    \* bound: how often a submit button is pressed
    MaxDepth    \* bound: the height of the stack

ASSUME FlowConstants ==
    /\ \E k, l \in Keys : k # l
    /\ MaxTaps \in Nat
    /\ MaxDepth \in Nat

VARIABLES
    stack,      \* the Navigator's routes
    lingering,  \* forms removed from it while their exit transition runs
    taps,       \* submissions so far
    creates,    \* submissions whose create(...) has not returned
    homes       \* documents of the "homes" collection on the server

vars == <<stack, lingering, taps, creates, homes>>

ListName  == "/settings/home/list"
BasePages == {"root", "home", "settings"}   \* the pages with the bottom bar
FlowPages == {"list", "detail", "map", "form"}

(***************************************************************************)
(* A list page fetches once, in initState: its view is "waiting" until the *)
(* future completes, then what it returned.  opened is a history field:    *)
(* the documents that were on the server when the page was built.          *)
(***************************************************************************)
NoView  == [state |-> "none", homes |-> {}]
Waiting == [state |-> "waiting", homes |-> {}]
View    == [state : {"none", "waiting", "loaded", "failed"},
            homes : SUBSET (1 .. MaxTaps)]
Route   == [key : Keys, page : BasePages \cup FlowPages,
            name : {"", "/", "/home", ListName}, view : View,
            opened : SUBSET (1 .. MaxTaps)]
Create  == [form : Keys, doc : 1 .. MaxTaps]

(* The stack, the documents and the requests stay in their types. *)
TypeOK ==
    /\ stack \in Seq(Route)
    /\ lingering \subseteq Keys
    /\ taps \in 0 .. MaxTaps
    /\ creates \subseteq Create
    /\ homes \subseteq 1 .. MaxTaps

-----------------------------------------------------------------------------

KeysOf(st)   == {st[i].key : i \in 1 .. Len(st)}
Awaiting(cs) == {c.form : c \in cs}
InUse        == KeysOf(stack) \cup lingering \cup Awaiting(creates)

(* A new page instance; a list page starts its query at once. *)
NewRoute(page, name, written) ==
    [key    |-> CHOOSE k \in Keys : k \notin InUse,
     page   |-> page,
     name   |-> name,
     view   |-> IF page = "list" THEN Waiting ELSE NoView,
     opened |-> IF page = "list" THEN written ELSE {}]

Room == Len(stack) < MaxDepth /\ InUse # Keys

OnTop(pages) == Len(stack) > 0 /\ Top(stack).page \in pages

(***************************************************************************)
(* The user is signed in.  A kept session starts at the root, which shows  *)
(* the home page; a sign-in has pushed the home page above the root.       *)
(***************************************************************************)
StartRoute(key, page, name) ==
    [key |-> key, page |-> page, name |-> name, view |-> NoView, opened |-> {}]

RootKey == CHOOSE k \in Keys : TRUE
HomeKey == CHOOSE k \in Keys : k # RootKey

Init ==
    /\ stack \in {<< StartRoute(RootKey, "root", "/") >>,
                  << StartRoute(RootKey, "root", "/"),
                     StartRoute(HomeKey, "home", "/home") >>}
    /\ lingering = {}
    /\ taps = 0
    /\ creates = {}
    /\ homes = {}

(* Slips the properties must notice: the list page has the bar, too, and  *)
(* it pushes, or replaces.                                                *)
TapNavbarPushing(page) ==
    /\ OnTop(BasePages \cup {"list"})
    /\ page \in {"home", "settings"}
    /\ Room
    /\ stack' = Push(stack, NewRoute(page, "", homes))
    /\ UNCHANGED <<lingering, taps, creates, homes>>

TapNavbarOnList(page) ==
    /\ OnTop(BasePages \cup {"list"})
    /\ page \in {"home", "settings"}
    /\ InUse # Keys
    /\ stack' = PushReplacement(stack, NewRoute(page, "", homes))
    /\ UNCHANGED <<lingering, taps, creates, homes>>

(* Navbar._onItemTapped: the bottom bar replaces the page it is on. *)
TapNavbar(page) ==
    /\ OnTop(BasePages)
    /\ page \in {"home", "settings"}
    /\ InUse # Keys
    /\ stack' = PushReplacement(stack, NewRoute(page, "", homes))
    /\ UNCHANGED <<lingering, taps, creates, homes>>

(***************************************************************************)
(* The links between pages, each an unnamed MaterialPageRoute: the home    *)
(* management entry of the settings menu; an entry of a loaded list and    *)
(* its plus menu; the plus menu of a home; Done on the map.                *)
(***************************************************************************)
SettingsLink(from, page) == from.page = "settings" /\ page = "list"

ListLink(from, page) ==
    /\ from.page = "list"
    /\ page = "map" \/ (page = "detail" /\ from.view.homes # {})

DetailLink(from, page) == from.page = "detail" /\ page = "map"

MapLink(from, page) == from.page = "map" /\ page = "form"

Link(from, page) ==
    \/ SettingsLink(from, page)
    \/ ListLink(from, page)
    \/ DetailLink(from, page)
    \/ MapLink(from, page)

OpenPage(page) ==
    /\ Room
    /\ Link(Top(stack), page)
    /\ stack' = Push(stack, NewRoute(page, "", homes))
    /\ UNCHANGED <<lingering, taps, creates, homes>>

(* _createHome up to its await; nothing keeps it from being tapped twice. *)
CreateHome ==
    /\ OnTop({"form"})
    /\ taps < MaxTaps
    /\ taps' = taps + 1
    /\ creates' = creates \cup {[form |-> Top(stack).key, doc |-> taps + 1]}
    /\ UNCHANGED <<stack, lingering, homes>>

(* The form's State still has a context: on the stack or on its way out. *)
Mounted(key) == key \in KeysOf(stack) \cup lingering

(***************************************************************************)
(* create(...) returns, whether the document was added or the exception    *)
(* dropped.  If the form is still mounted, everything above the last       *)
(* '/settings/home/list' route goes, and a new list page is pushed; if it  *)
(* is not, the use of its context throws and nothing happens.              *)
(***************************************************************************)
Written(c, ok) == IF ok THEN homes \cup {c.doc} ELSE homes

(* Slips the properties must notice: the form is not popped; the route of *)
(* the list is given a name nobody looks for.                             *)
CreateReturnsWithoutPop(c, ok) ==
    /\ c \in creates
    /\ creates' = creates \ {c}
    /\ homes' = Written(c, ok)
    /\ IF Mounted(c.form)
       THEN /\ Room
            /\ stack' = Push(stack,
                             NewRoute("list", ListName, Written(c, ok)))
       ELSE UNCHANGED stack
    /\ UNCHANGED <<lingering, taps>>

CreateReturnsMisnamed(c, ok) ==
    /\ c \in creates
    /\ creates' = creates \ {c}
    /\ homes' = Written(c, ok)
    /\ IF Mounted(c.form)
       THEN /\ InUse # Keys
            /\ stack' = Push(PopUntil(stack, ListName),
                             NewRoute("list", "settings/home/list",
                                      Written(c, ok)))
            /\ lingering' = (lingering \cup (KeysOf(stack) \ KeysOf(stack')))
                            \cap Awaiting(creates')
       ELSE UNCHANGED <<stack, lingering>>
    /\ UNCHANGED taps

CreateReturns(c, ok) ==
    /\ c \in creates
    /\ creates' = creates \ {c}
    /\ homes' = Written(c, ok)
    /\ IF Mounted(c.form)
       THEN /\ InUse # Keys
            /\ stack' = Push(PopUntil(stack, ListName),
                             NewRoute("list", ListName, Written(c, ok)))
            /\ lingering' = (lingering \cup (KeysOf(stack) \ KeysOf(stack')))
                            \cap Awaiting(creates')
       ELSE UNCHANGED <<stack, lingering>>
    /\ UNCHANGED taps

(* A slip the properties must notice: getHomesByOwner limits its query to *)
(* one document.                                                          *)
QueryReturnsLimited(i, ok) ==
    LET found == homes \cup {c.doc : c \in creates}
    IN  /\ i \in 1 .. Len(stack)
        /\ stack[i].view.state = "waiting"
        /\ stack' = [stack EXCEPT ![i].view =
                       IF ok THEN [state |-> "loaded",
                                   homes |-> {d \in found :
                                                \A e \in found : d <= e}]
                             ELSE [state |-> "failed", homes |-> {}]]
        /\ UNCHANGED <<lingering, taps, creates, homes>>

(***************************************************************************)
(* A list page's query completes: with the user's documents, or, when it   *)
(* threw, with the empty list getHomesByOwner returns instead.  The answer *)
(* for a page that has gone is dropped with it.                            *)
(***************************************************************************)
QueryReturns(i, ok) ==
    /\ i \in 1 .. Len(stack)
    /\ stack[i].view.state = "waiting"
    /\ stack' = [stack EXCEPT ![i].view =
                   IF ok THEN [state |-> "loaded",
                               homes |-> homes \cup {c.doc : c \in creates}]
                         ELSE [state |-> "failed", homes |-> {}]]
    /\ UNCHANGED <<lingering, taps, creates, homes>>

(* The back button.  A form somebody still awaits lingers for a while. *)
Back ==
    /\ Len(stack) > 1
    /\ stack' = Pop(stack)
    /\ lingering' = lingering \cup ({Top(stack).key} \cap Awaiting(creates))
    /\ UNCHANGED <<taps, creates, homes>>

(* The exit transition of a removed form ends; its State is disposed. *)
TransitionEnds(k) ==
    /\ k \in lingering
    /\ lingering' = lingering \ {k}
    /\ UNCHANGED <<stack, taps, creates, homes>>

-----------------------------------------------------------------------------

Next ==
    \/ \E page \in BasePages : TapNavbar(page)
    \/ \E page \in FlowPages : OpenPage(page)
    \/ CreateHome
    \/ \E c \in creates, ok \in BOOLEAN : CreateReturns(c, ok)
    \/ \E i \in 1 .. Len(stack), ok \in BOOLEAN : QueryReturns(i, ok)
    \/ Back
    \/ \E k \in lingering : TransitionEnds(k)

Spec == Init /\ [][Next]_vars

-----------------------------------------------------------------------------

(***************************************************************************)
(* A list page shown after a creation has nothing but such list pages      *)
(* beneath it: Back never leads from it into a form that has already been  *)
(* submitted (and could be submitted again), nor to its map.               *)
(***************************************************************************)
NoFormBeneathList ==
    \A j \in 1 .. Len(stack) :
        stack[j].name = ListName =>
            \A i \in 1 .. j : stack[i].name = ListName

(***************************************************************************)
(* A list page that loaded shows every home that was on the server when    *)
(* the page was built, the one whose creation brought it up included.      *)
(***************************************************************************)
ListShowsWrites ==
    \A i \in 1 .. Len(stack) :
        stack[i].view.state = "loaded" =>
            stack[i].opened \subseteq stack[i].view.homes

(***************************************************************************)
(* A page with the bottom bar never lies above a page of the flow: the     *)
(* bar's pushReplacement never takes such a page from above a list, a map  *)
(* or a form, and Back from home or settings never uncovers one.           *)
(***************************************************************************)
BarOnlyAtBottom ==
    \A j \in 1 .. Len(stack) :
        stack[j].page \in BasePages =>
            \A i \in 1 .. j : stack[i].page \in BasePages

(***************************************************************************)
(* Once a creation has emptied the stack under its list page, no step      *)
(* brings a page with the bottom bar back: the user goes on among lists    *)
(* and forms until the app is restarted.                                   *)
(***************************************************************************)
StrandedOnList ==
    [][stack[1].name = ListName => stack'[1].name = ListName]_vars

(***************************************************************************)
(* What the comment in _createHome's popUntil (formCreate.dart:104) says:  *)
(* the home list page is kept when the form is left.  It does not hold:    *)
(* the page the settings menu pushes carries no name, so it is popped with *)
(* everything else.                                                        *)
(***************************************************************************)
ListPages(st) == {st[i].key : i \in {j \in 1 .. Len(st) : st[j].page = "list"}}

ListPageKept ==
    [][creates' # creates /\ taps' = taps
         => ListPages(stack) \subseteq ListPages(stack')]_vars

=============================================================================
