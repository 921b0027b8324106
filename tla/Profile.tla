------------------------------- MODULE Profile -------------------------------
(***************************************************************************)
(* The profile page and its editor: src/lib/pages/profile/detail.dart and  *)
(* setting.dart, over the document profiles/<uid> and the display name of  *)
(* the Firebase account.                                                   *)
(*                                                                         *)
(* The editor fills its fields when the document arrives, whatever was     *)
(* typed before, and saves in four steps with awaits between them: set the *)
(* document, update the display name, refresh the page below, pop.  The    *)
(* four fields the user edits follow the same path; one of them, the name, *)
(* stands for them, for the one that is set by a date picker, too, which   *)
(* is a route of its own above the editor.  The e-mail field is disabled   *)
(* and filled by the load alone.                                           *)
(*                                                                         *)
(* External: Firestore answers the sets of a client in the order they were *)
(* made, and until then its reads show them; requests for the display name *)
(* are independent of each other.  The account has an e-mail address and   *)
(* stays signed in.                                                        *)
(***************************************************************************)
EXTENDS Routes, FiniteSets

CONSTANTS
    Texts,      \* what may be typed into a field, "" not among them
    NULL,       \* Dart's null
    MaxPending  \* bound: saves and refreshes not finished, before a save

ASSUME ProfileConstants ==
    /\ "" \notin Texts
    /\ NULL \notin Texts \cup {""}
    /\ MaxPending \in Nat

VARIABLES
    stack,        \* page names, the top one last
    doc,          \* profiles/<uid> on the server
    displayName,  \* the account's display name
    shown,        \* the profile page: profile
    fetches,      \* the profile page's getProfile calls under way
    name,         \* the editor: _nameController.text
    email,        \* the editor: _emailController.text
    loading,      \* the editor: _loadUserData awaits the document
    sets,         \* saves awaiting set(...), oldest first
    updates,      \* saves awaiting updateDisplayName(...)
    outdated      \* history: a request failed since the page last refreshed

vars == <<stack, doc, displayName, shown, fetches, name, email, loading,
          sets, updates, outdated>>

editor == <<name, email, loading>>

Address  == "user@example.org"     \* currentUser.email
Document == [name : Texts \cup {""}, email : {"", Address}]

(***************************************************************************)
(* A save under way: what it wrote, which its editor instance is ("open",  *)
(* "leaving" during its exit transition, "gone"), the text its name field  *)
(* was left with, and whether the profile page it would refresh exists.    *)
(***************************************************************************)
Save == [id : Nat, data : Document, at : {"open", "leaving", "gone"},
         text : Texts \cup {""}, page : BOOLEAN]

(* All variables stay in their types. *)
TypeOK ==
    /\ stack \in {<<>>, <<"settings">>, <<"settings", "detail">>,
                  <<"settings", "detail", "editor">>,
                  <<"settings", "detail", "editor", "picker">>}
    /\ doc \in Document \cup {NULL}
    /\ displayName \in Texts \cup {"", NULL}
    /\ shown \in Document \cup {NULL}
    /\ fetches \in Nat
    /\ name \in Texts \cup {""}
    /\ email \in {"", Address}
    /\ loading \in BOOLEAN
    /\ sets \in Seq(Save)
    /\ updates \subseteq Save
    /\ outdated \in BOOLEAN

-----------------------------------------------------------------------------

On(page) == stack # <<>> /\ Top(stack) = page
Below(page) == \E i \in 1 .. Len(stack) : stack[i] = page

(* What a read of the document shows: the latest set, answered or not. *)
LocalDoc == IF sets = <<>> THEN doc ELSE sets[Len(sets)].data

(* Identities of the saves under way. *)
SaveIds == {sets[i].id : i \in 1 .. Len(sets)} \cup {s.id : s \in updates}
NewId   == CHOOSE n \in 1 .. MaxPending : n \notin SaveIds

Init ==
    /\ stack = <<"settings">>
    /\ doc \in {NULL} \cup [name : Texts, email : {Address}]
    /\ displayName = NULL
    /\ shown = NULL
    /\ fetches = 0
    /\ name = "" /\ email = "" /\ loading = FALSE
    /\ sets = <<>> /\ updates = {}
    /\ outdated = FALSE

(* The profile page opens; initState fetches. *)
OpenDetail ==
    /\ On("settings")
    /\ stack' = Push(stack, "detail")
    /\ shown' = NULL
    /\ fetches' = 1
    /\ outdated' = FALSE
    /\ UNCHANGED <<doc, displayName, editor, sets, updates>>

(* fetchUserProfile returns; getProfile turns an error into null. *)
FetchReturns(ok) ==
    /\ fetches > 0
    /\ fetches' = fetches - 1
    /\ shown' = IF ok THEN LocalDoc ELSE NULL
    /\ outdated' = ~ok
    /\ UNCHANGED <<stack, doc, displayName, editor, sets, updates>>

(* A slip the properties must notice: any page can open the editor. *)
OpenEditorAnywhere ==
    /\ stack # <<>>
    /\ stack' = Push(stack, "editor")
    /\ name' = "" /\ email' = ""
    /\ loading' = TRUE
    /\ UNCHANGED <<doc, displayName, shown, fetches, sets, updates, outdated>>

(* The pencil opens the editor; initState loads. *)
OpenEditor ==
    /\ On("detail")
    /\ stack' = Push(stack, "editor")
    /\ name' = "" /\ email' = ""
    /\ loading' = TRUE
    /\ UNCHANGED <<doc, displayName, shown, fetches, sets, updates, outdated>>

(* _loadUserData goes on; if get() threw, nothing is filled in. *)
LoadReturns(ok) ==
    /\ loading
    /\ loading' = FALSE
    /\ name' = IF ok /\ LocalDoc # NULL THEN LocalDoc.name ELSE name
    /\ email' = IF ok THEN Address ELSE email
    /\ UNCHANGED <<stack, doc, displayName, shown, fetches, sets, updates,
                   outdated>>

Type(text) ==
    /\ On("editor")
    /\ name' = text
    /\ UNCHANGED <<stack, doc, displayName, shown, fetches, email, loading,
                   sets, updates, outdated>>

(* _showDatePicker; Back cancels it, and a save that is late may take it. *)
OpenPicker ==
    /\ On("editor")
    /\ stack' = Push(stack, "picker")
    /\ UNCHANGED <<doc, displayName, shown, fetches, editor, sets, updates,
                   outdated>>

(* onConfirm: the date goes into its field, and the picker closes. *)
ConfirmDate(text) ==
    /\ On("picker")
    /\ name' = text
    /\ stack' = Pop(stack)
    /\ UNCHANGED <<doc, displayName, shown, fetches, email, loading, sets,
                   updates, outdated>>

(* Slips the properties must notice: a field that is not validated. *)
ValidWithoutEmail == name # ""
ValidWithoutName  == email # ""

(* The validators of the fields: none empty. *)
Valid == name # "" /\ email # ""

(* _updateProfile up to the await of set(...).  The button stays enabled. *)
UpdateProfile ==
    /\ On("editor")
    /\ Valid
    /\ Cardinality(SaveIds) + fetches < MaxPending
    /\ sets' = Append(sets, [id |-> NewId, at |-> "open", text |-> "",
                             data |-> [name |-> name, email |-> email],
                             page |-> Below("detail")])
    /\ UNCHANGED <<stack, doc, displayName, shown, fetches, editor, updates,
                   outdated>>

(***************************************************************************)
(* set(...) returns.  updateDisplayName gets the text the name field has   *)
(* now; if set threw, _updateProfile ends here.                            *)
(***************************************************************************)
SetReturns(ok) ==
    /\ sets # <<>>
    /\ LET s == Head(sets)
           now == IF s.at = "open" THEN name ELSE s.text
       IN  /\ doc' = IF ok THEN s.data ELSE doc
           /\ updates' = IF ok THEN updates \cup {[s EXCEPT !.text = now]}
                         ELSE updates
    /\ sets' = Tail(sets)
    /\ outdated' = (outdated \/ ~ok)
    /\ UNCHANGED <<stack, displayName, shown, fetches, editor>>

(***************************************************************************)
(* Navigator.pop: the top page goes, whichever it is.  saves and calls are *)
(* the display name updates and fetches that remain under way.             *)
(***************************************************************************)
AfterPop(s) ==
    CASE On("editor") -> [s EXCEPT !.at = IF @ = "open" THEN "leaving" ELSE @]
      [] On("detail") -> [s EXCEPT !.page = FALSE]
      [] OTHER        -> s

Freeze(s) == IF On("editor") /\ s.at = "open" THEN [s EXCEPT !.text = name]
                                              ELSE s

PopTop(saves, calls) ==
    /\ stack' = Pop(stack)
    /\ sets' = [i \in 1 .. Len(sets) |-> AfterPop(Freeze(sets[i]))]
    /\ updates' = {AfterPop(s) : s \in saves}
    /\ fetches' = IF On("detail") THEN 0 ELSE calls
    /\ loading' = (loading /\ ~On("editor"))

(* A slip the properties must notice: onSave is not called. *)
UpdateReturnsUnheard(s, ok) ==
    /\ s \in updates
    /\ IF ok /\ s.at # "gone" /\ stack # <<>>
       THEN PopTop(updates \ {s}, fetches)
       ELSE /\ updates' = updates \ {s}
            /\ UNCHANGED <<stack, sets, loading, fetches>>
    /\ displayName' = IF ok THEN s.text ELSE displayName
    /\ outdated' = (outdated \/ ~ok)
    /\ UNCHANGED <<doc, shown, name, email>>

(***************************************************************************)
(* updateDisplayName returns.  onSave refreshes the profile page (a page   *)
(* that has gone is not refreshed), then the top page is popped, if the    *)
(* editor's context is still valid.  If it threw, neither happens.         *)
(***************************************************************************)
UpdateReturns(s, ok) ==
    /\ s \in updates
    /\ LET calls == IF ok /\ s.page THEN fetches + 1 ELSE fetches
           saves == updates \ {s}
       IN  IF ok /\ s.at # "gone" /\ stack # <<>>
           THEN PopTop(saves, calls)
           ELSE /\ updates' = saves
                /\ fetches' = calls
                /\ UNCHANGED <<stack, sets, loading>>
    /\ displayName' = IF ok THEN s.text ELSE displayName
    /\ outdated' = (outdated \/ ~ok)
    /\ UNCHANGED <<doc, shown, name, email>>

Back ==
    /\ Len(stack) > 1
    /\ PopTop(updates, fetches)
    /\ UNCHANGED <<doc, displayName, shown, name, email, outdated>>

(* The exit transition of an editor ends. *)
Forget(s) == [s EXCEPT !.at = IF @ = "leaving" THEN "gone" ELSE @]

TransitionEnds ==
    /\ \/ \E i \in 1 .. Len(sets) : sets[i].at = "leaving"
       \/ \E s \in updates : s.at = "leaving"
    /\ sets' = [i \in 1 .. Len(sets) |-> Forget(sets[i])]
    /\ updates' = {Forget(s) : s \in updates}
    /\ UNCHANGED <<stack, doc, displayName, shown, fetches, editor, outdated>>

-----------------------------------------------------------------------------

Next ==
    \/ OpenDetail
    \/ \E ok \in BOOLEAN : FetchReturns(ok)
    \/ OpenEditor
    \/ \E ok \in BOOLEAN : LoadReturns(ok)
    \/ \E text \in Texts \cup {""} : Type(text)
    \/ OpenPicker
    \/ \E text \in Texts : ConfirmDate(text)
    \/ UpdateProfile
    \/ \E ok \in BOOLEAN : SetReturns(ok)
    \/ \E s \in updates, ok \in BOOLEAN : UpdateReturns(s, ok)
    \/ Back
    \/ TransitionEnds

Spec == Init /\ [][Next]_vars

-----------------------------------------------------------------------------

(***************************************************************************)
(* No blind save: an editor never has a save under way while its load is,  *)
(* so the load never overwrites fields that have been saved and a save     *)
(* never sends fields that were not loaded.  Nothing in _updateProfile     *)
(* waits for the load; it holds because the disabled e-mail field, which   *)
(* the validators require, is filled by the load alone.                    *)
(***************************************************************************)
UnderWay == {sets[i] : i \in 1 .. Len(sets)} \cup updates

NoBlindSave == loading => \A s \in UnderWay : s.at # "open"

(***************************************************************************)
(* The document is never left incomplete: whatever is loaded, typed and    *)
(* saved in which order, its name and e-mail are filled.                   *)
(***************************************************************************)
DocumentComplete == doc # NULL => doc.name # "" /\ doc.email = Address

(***************************************************************************)
(* When nothing is under way the profile page shows the stored document,   *)
(* after any number of saves, unless a request failed since it was last    *)
(* refreshed (a display name that could not be updated skips the refresh). *)
(***************************************************************************)
DetailUpToDate ==
    Below("detail") /\ fetches = 0 /\ UnderWay = {}
        => shown = doc \/ outdated

=============================================================================
