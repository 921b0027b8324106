------------------------------- MODULE Session -------------------------------
(***************************************************************************)
(* Signing in and out: the root page of src/lib/main.dart, which follows   *)
(* FirebaseAuth's stream of users; the login page with its two sheets      *)
(* (pages/auth/formLogin.dart, login.dart, register.dart); the bottom bar  *)
(* (components/Navbar.dart); and the settings page with its logout button  *)
(* (pages/settings/list.dart), which shows the profile that                *)
(* UserProfileProvider caches.                                             *)
(*                                                                         *)
(* Each handler navigates after an await, with pushReplacementNamed, which *)
(* replaces whatever page is on top by then.  The pages behind the         *)
(* settings menu, all alike here, are one page "inner".                    *)
(*                                                                         *)
(* External: FirebaseAuth changes its current user, puts the change on the *)
(* stream, and completes the future of the request; the two reach the app  *)
(* in either order.                                                        *)
(***************************************************************************)
EXTENDS Routes, FiniteSets

CONSTANTS
    Users,        \* the accounts
    NULL,         \* no user
    MaxRequests,  \* bound: sign-ins and sign-outs not finished
    MaxFetches,   \* bound: profile fetches not finished
    MaxEvents,    \* bound: changes of the user not delivered to the root
    MaxDepth      \* bound: height of the stack

ASSUME SessionConstants ==
    /\ NULL \notin Users
    /\ {MaxRequests, MaxFetches, MaxEvents, MaxDepth} \subseteq Nat

VARIABLES
    stack,      \* page names, the top one last
    rootView,   \* what the root's StreamBuilder builds
    user,       \* FirebaseAuth.instance.currentUser
    events,     \* changes of the user on their way to the root
    requests,   \* sign-ins and sign-outs under way
    error,      \* the sheet shows an error message
    provider,   \* whose profile UserProfileProvider holds
    fetches,    \* fetchUserProfile calls under way
    raced,      \* history: a handler replaced a page that was not its own or
                \* found another session than the one it had set up, or the
                \* bottom bar was used after the session had ended
    crossed     \* history: the last fetch failed or was another user's

vars == <<stack, rootView, user, events, requests, error, provider, fetches,
          raced, crossed>>

Pages   == {"root", "login", "sheet", "home", "settings", "inner"}
Request == [id : Nat, user : Users \cup {NULL}, pos : Nat,
            at : {"open", "leaving", "gone"}, done : BOOLEAN]
Fetch   == [id : Nat, user : Users]

(* All variables stay in their types. *)
TypeOK ==
    /\ stack \in Seq(Pages)
    /\ rootView \in {"spinner", "home", "login"}
    /\ user \in Users \cup {NULL}
    /\ events \in Seq(Users \cup {NULL})
    /\ requests \subseteq Request
    /\ error \in BOOLEAN
    /\ provider \in Users \cup {NULL}
    /\ fetches \subseteq Fetch
    /\ raced \in BOOLEAN
    /\ crossed \in BOOLEAN

-----------------------------------------------------------------------------

Has(page) == \E i \in 1 .. Len(stack) : stack[i] = page

On(page) == stack # <<>> /\ Top(stack) = page

(* The page on top as the user sees it: the root shows another page. *)
Shows(page) == On(page) \/ (On("root") /\ rootView = page)

NewId(set, bound) == CHOOSE n \in 1 .. bound : \A x \in set : x.id # n

(* The page at the top leaves: its handlers' context lasts a while yet. *)
Leaving(rs) ==
    {IF r.pos = Len(stack) /\ r.at = "open" THEN [r EXCEPT !.at = "leaving"]
                                            ELSE r : r \in rs}

(* A change of the user, announced to the root page if it is still there. *)
SetUser(u) ==
    /\ user' = u
    /\ events' = IF Has("root") THEN Append(events, u) ELSE events

(* Replacing the top page; without the root nobody listens to the stream. *)
Replace(page, rs, evs) ==
    /\ stack' = PushReplacement(stack, page)
    /\ requests' = Leaving(rs)
    /\ events' = IF On("root") THEN <<>> ELSE evs

Init ==
    /\ stack = <<"root">>
    /\ rootView = "spinner"
    /\ user \in Users \cup {NULL}      \* a session may have been kept
    /\ events = <<user>>
    /\ requests = {}
    /\ error = FALSE
    /\ provider = NULL
    /\ fetches = {}
    /\ raced = FALSE
    /\ crossed = FALSE

(* Slips the properties must notice: the root only reacts to sign-ins;    *)
(* the root builds once.                                                  *)
RootEventSignInOnly ==
    /\ events # <<>>
    /\ rootView' = IF Head(events) # NULL THEN "home" ELSE rootView
    /\ events' = Tail(events)
    /\ UNCHANGED <<stack, user, requests, error, provider, fetches, raced,
                   crossed>>

RootEventOnce ==
    /\ events # <<>>
    /\ rootView = "spinner"
    /\ rootView' = IF Head(events) # NULL THEN "home" ELSE "login"
    /\ events' = Tail(events)
    /\ UNCHANGED <<stack, user, requests, error, provider, fetches, raced,
                   crossed>>

(* The root's StreamBuilder gets the next user. *)
RootEvent ==
    /\ events # <<>>
    /\ rootView' = IF Head(events) # NULL THEN "home" ELSE "login"
    /\ events' = Tail(events)
    /\ UNCHANGED <<stack, user, requests, error, provider, fetches, raced,
                   crossed>>

(***************************************************************************)
(* A language is picked on an inner page: the app is rebuilt under its     *)
(* Consumer<LocaleProvider>, and the root's StreamBuilder gets a new       *)
(* stream.  It drops what the old one had to deliver and shows the spinner *)
(* until the new one tells the current user.                               *)
(***************************************************************************)
ChangeLocale ==
    /\ On("inner")
    /\ Has("root")
    /\ rootView' = "spinner"
    /\ events' = <<user>>
    /\ UNCHANGED <<stack, user, requests, error, provider, fetches, raced,
                   crossed>>

(* Either button of the login page opens its sheet. *)
OpenSheet ==
    /\ Shows("login")
    /\ Len(stack) < MaxDepth
    /\ stack' = Push(stack, "sheet")
    /\ error' = FALSE
    /\ UNCHANGED <<rootView, user, events, requests, provider, fetches, raced,
                   crossed>>

Idle == Cardinality(requests) < MaxRequests /\ Len(events) < MaxEvents

Send(u) ==
    requests' = requests \cup
        {[id |-> NewId(requests, MaxRequests), user |-> u, pos |-> Len(stack),
          at |-> "open", done |-> FALSE]}

(* _login and _register up to their await; the button stays enabled. *)
SignIn(u) ==
    /\ On("sheet")
    /\ Idle
    /\ Send(u)
    /\ error' = FALSE
    /\ UNCHANGED <<stack, rootView, user, events, provider, fetches, raced,
                   crossed>>

(* The logout button up to its await. *)
Logout ==
    /\ On("settings")
    /\ Idle
    /\ Send(NULL)
    /\ UNCHANGED <<stack, rootView, user, events, error, provider, fetches,
                   raced, crossed>>

(* FirebaseAuth carries a request out. *)
Authenticate(r) ==
    /\ r \in requests /\ ~r.done
    /\ requests' = (requests \ {r}) \cup {[r EXCEPT !.done = TRUE]}
    /\ SetUser(r.user)
    /\ UNCHANGED <<stack, rootView, error, provider, fetches, raced, crossed>>

(* FirebaseAuth refuses it: a sheet that still exists says so; a logout   *)
(* that failed is only printed.                                           *)
Refuse(r) ==
    /\ r \in requests /\ ~r.done
    /\ requests' = requests \ {r}
    /\ error' = (error \/ (r.user # NULL /\ r.at = "open"))
    /\ UNCHANGED <<stack, rootView, user, events, provider, fetches, raced,
                   crossed>>

(* Slips the properties must notice: pushNamed in one of the handlers; a   *)
(* route main.dart registers that no handler leads to.                     *)
ContinuePushing(r, pushing) ==
    /\ r \in requests /\ r.done
    /\ IF r.at = "gone"
       THEN /\ requests' = requests \ {r}
            /\ UNCHANGED <<stack, events>>
       ELSE IF pushing
       THEN /\ Len(stack) < MaxDepth
            /\ stack' = Push(stack, IF r.user # NULL THEN "home" ELSE "login")
            /\ requests' = requests \ {r}
            /\ UNCHANGED events
       ELSE Replace(IF r.user # NULL THEN "home" ELSE "login",
                    requests \ {r}, events)
    /\ raced' = (raced \/ user # r.user \/ r.at # "open" \/ r.pos # Len(stack))
    /\ UNCHANGED <<rootView, user, error, provider, fetches, crossed>>

ContinuePushingHome(r)  == ContinuePushing(r, r.user # NULL)
ContinuePushingLogin(r) == ContinuePushing(r, r.user = NULL)

ContinueToRegister(r) ==
    /\ r \in requests /\ r.done
    /\ IF r.at = "gone"
       THEN /\ requests' = requests \ {r}
            /\ UNCHANGED <<stack, events>>
       ELSE Replace(IF r.user # NULL THEN "home" ELSE "register",
                    requests \ {r}, events)
    /\ raced' = (raced \/ user # r.user \/ r.at # "open" \/ r.pos # Len(stack))
    /\ UNCHANGED <<rootView, user, error, provider, fetches, crossed>>

(***************************************************************************)
(* The handler goes on: pushReplacementNamed(context, '/home' or '/login') *)
(* on the top page, if its own page still has a context.                   *)
(***************************************************************************)
Continue(r) ==
    /\ r \in requests /\ r.done
    /\ IF r.at = "gone"
       THEN /\ requests' = requests \ {r}
            /\ UNCHANGED <<stack, events>>
       ELSE Replace(IF r.user # NULL THEN "home" ELSE "login",
                    requests \ {r}, events)
    /\ raced' = (raced \/ user # r.user \/ r.at # "open" \/ r.pos # Len(stack))
    /\ UNCHANGED <<rootView, user, error, provider, fetches, crossed>>

(* The bottom bar to the home page. *)
TapHome ==
    /\ Shows("home") \/ On("settings")
    /\ Replace("home", requests, events)
    /\ raced' = (raced \/ user = NULL)
    /\ UNCHANGED <<rootView, user, error, provider, fetches, crossed>>

(* A slip the properties must notice: a cached profile is not refetched. *)
TapSettingsCached ==
    /\ Shows("home") \/ On("settings")
    /\ Cardinality(fetches) < MaxFetches
    /\ Replace("settings", requests, events)
    /\ fetches' = IF user = NULL \/ provider # NULL THEN fetches
                  ELSE fetches \cup {[id |-> NewId(fetches, MaxFetches),
                                      user |-> user]}
    /\ raced' = (raced \/ user = NULL)
    /\ UNCHANGED <<rootView, user, error, provider, crossed>>

(* The bottom bar to the settings page, which fetches the user's profile. *)
TapSettings ==
    /\ Shows("home") \/ On("settings")
    /\ Cardinality(fetches) < MaxFetches
    /\ Replace("settings", requests, events)
    /\ fetches' = IF user = NULL THEN fetches
                  ELSE fetches \cup {[id |-> NewId(fetches, MaxFetches),
                                      user |-> user]}
    /\ raced' = (raced \/ user = NULL)
    /\ UNCHANGED <<rootView, user, error, provider, crossed>>

(***************************************************************************)
(* A fetch returns: the profile is cached for everybody.  It fails when    *)
(* the request does and when the user has no profile document yet; then    *)
(* the cache keeps what it has.                                            *)
(***************************************************************************)
FetchReturns(f, ok) ==
    /\ f \in fetches
    /\ fetches' = fetches \ {f}
    /\ provider' = IF ok THEN f.user ELSE provider
    /\ crossed' = (~ok \/ f.user # user)
    /\ UNCHANGED <<stack, rootView, user, events, requests, error, raced>>

(* The entries of the settings menu. *)
OpenInner ==
    /\ On("settings")
    /\ Len(stack) < MaxDepth
    /\ stack' = Push(stack, "inner")
    /\ UNCHANGED <<rootView, user, events, requests, error, provider, fetches,
                   raced, crossed>>

(* The back button, or a swipe that dismisses a sheet. *)
Back ==
    /\ Len(stack) > 1
    /\ stack' = Pop(stack)
    /\ requests' = Leaving(requests)
    /\ UNCHANGED <<rootView, user, events, error, provider, fetches, raced,
                   crossed>>

(* The exit transition of the pages that left ends. *)
TransitionEnds ==
    /\ \E r \in requests : r.at = "leaving"
    /\ requests' = {[r EXCEPT !.at = IF @ = "leaving" THEN "gone" ELSE @]
                       : r \in requests}
    /\ UNCHANGED <<stack, rootView, user, events, error, provider, fetches,
                   raced, crossed>>

-----------------------------------------------------------------------------

Next ==
    \/ RootEvent
    \/ ChangeLocale
    \/ OpenSheet
    \/ \E u \in Users : SignIn(u)
    \/ Logout
    \/ \E r \in requests : Authenticate(r) \/ Refuse(r) \/ Continue(r)
    \/ TapHome
    \/ TapSettings
    \/ \E f \in fetches, ok \in BOOLEAN : FetchReturns(f, ok)
    \/ OpenInner
    \/ Back
    \/ TransitionEnds

(* The event loop delivers what FirebaseAuth has put on the stream. *)
Fairness == WF_vars(RootEvent)

Spec == Init /\ [][Next]_vars /\ Fairness

-----------------------------------------------------------------------------

(***************************************************************************)
(* A sheet is only ever the page on top: no handler pushes or replaces a   *)
(* page over it and leaves it to be found by Back.                         *)
(***************************************************************************)
SheetOnTop == \A i \in 1 .. Len(stack) : stack[i] = "sheet" => i = Len(stack)

(***************************************************************************)
(* The root page, wherever it is on the stack, agrees with FirebaseAuth    *)
(* about the session once it has got all changes.                          *)
(***************************************************************************)
RootFollowsUser ==
    Has("root") /\ events = <<>>
        => rootView = IF user = NULL THEN "login" ELSE "home"

(***************************************************************************)
(* Signed out and nothing under way, no page of the session is left on the *)
(* stack, to be seen at once or after Back, unless the user moved between  *)
(* the sign-out and its handler's replacing the page, or used the bar of a *)
(* home page that was about to go.                                         *)
(***************************************************************************)
Private(i) ==
    \/ stack[i] \in {"home", "settings", "inner"}
    \/ stack[i] = "root" /\ rootView = "home"

NoPrivatePageLeft ==
    user = NULL /\ events = <<>> /\ requests = {} /\ ~raced
        => \A i \in 1 .. Len(stack) : ~Private(i)

(***************************************************************************)
(* The settings page shows the profile of the user signed in, across any   *)
(* change of user, once its fetch is back: unless that fetch failed or     *)
(* another user's came in later.                                           *)
(***************************************************************************)
ProfileOfUser ==
    Has("settings") /\ user # NULL /\ fetches = {} /\ requests = {}
    /\ ~raced /\ ~crossed
        => provider = user

(***************************************************************************)
(* The root page leaves its spinner and keeps up with the session: as long *)
(* as the root and the session last, it comes to show the page that goes   *)
(* with them.                                                              *)
(***************************************************************************)
RootCatchesUp ==
    \A u \in Users \cup {NULL} :
        (Has("root") /\ user = u)
            ~> \/ rootView = IF u = NULL THEN "login" ELSE "home"
               \/ user # u
               \/ ~Has("root")

=============================================================================
