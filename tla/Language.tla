------------------------------ MODULE Language ------------------------------
(***************************************************************************)
(* The language of the app: main() in src/lib/main.dart, which stores a    *)
(* default the first time, LocaleProvider, which holds the locale the app  *)
(* is drawn in, and the language page (src/lib/pages/settings/             *)
(* language.dart), which changes both.                                     *)
(*                                                                         *)
(* External: the shared_preferences plugin.  setString changes the cache   *)
(* in memory at once and sends the value to the platform, which stores the *)
(* values in the order they were sent and answers each; the answer is what *)
(* the code awaits.  Storing may fail: setString then answers false, which *)
(* the code ignores, or throws, which it does not catch.  getInstance may  *)
(* throw as well, until it has succeeded once in the process.  The process *)
(* may be killed at any moment; then only what the platform has stored     *)
(* remains.                                                                *)
(***************************************************************************)
EXTENDS Naturals, Sequences

CONSTANTS
    Codes,       \* language codes a device may have; "th" and "en" are two
    NULL,        \* Dart's null
    MaxPending   \* bound: values sent and not yet answered, before a tap

ASSUME LanguageConstants ==
    /\ {"th", "en"} \subseteq Codes
    /\ NULL \notin Codes \cup {"Thai", "English"}
    /\ MaxPending \in Nat

VARIABLES
    phase,    \* the process: "down", "starting" (main), "running", or
              \* "failed": main() was left by an exception before runApp
    locale,   \* LocaleProvider._locale
    cache,    \* prefs.getString('languageCode'), in memory
    store,    \* the same on the platform's disk
    sent,     \* values on their way to the platform
    acks,     \* answers on their way back
    tile,     \* _selectedLanguage of the open language page
    open,     \* the language page is on the screen
    chosen,   \* history: a language was picked in this run of the app
    outcome   \* history: what became of the cached code when the platform
              \* last handled it in this run

vars ==
    <<phase, locale, cache, store, sent, acks, tile, open, chosen, outcome>>

Languages == {"Thai", "English"}

(* How storing a value may end. *)
Results == {"stored", "refused", "thrown"}

(* A request: the code to store, whether a language page that still exists *)
(* sent it, and whether its answer is an exception.                        *)
Request == [code : Codes, mounted : BOOLEAN, thrown : BOOLEAN]

(* All variables stay in their types. *)
TypeOK ==
    /\ phase \in {"down", "starting", "running", "failed"}
    /\ locale \in {"th", "en"}
    /\ cache \in Codes \cup {NULL}
    /\ store \in Codes \cup {NULL}
    /\ sent \in Seq(Request)
    /\ acks \in Seq(Request)
    /\ tile \in Languages \cup {NULL}
    /\ open \in BOOLEAN
    /\ chosen \in BOOLEAN
    /\ outcome \in Results \cup {"none", "pending"}

-----------------------------------------------------------------------------

(* A slip the properties must notice: the tile's name taken as a code. *)
LocaleOfItself(language) == language

LocaleOf(language) == IF language = "Thai" THEN "th" ELSE "en"
TileOf(code)       == IF code = "th" THEN "Thai" ELSE "English"

Init ==
    /\ phase = "down"
    /\ locale = "en"
    /\ cache = NULL
    /\ store = NULL              \* a fresh installation
    /\ sent = <<>> /\ acks = <<>>
    /\ tile = NULL
    /\ open = FALSE
    /\ chosen = FALSE
    /\ outcome = "none"

(* prefs.setString('languageCode', code) up to its await *)
SetString(code, byPage) ==
    /\ cache' = code
    /\ sent' = Append(sent,
                  [code |-> code, mounted |-> byPage, thrown |-> FALSE])
    /\ outcome' = "pending"

(* A slip the properties must notice: the device's language is stored on  *)
(* every start.                                                           *)
LaunchOverwriting(deviceLanguage) ==
    /\ phase = "down"
    /\ phase' = "starting"
    /\ SetString(deviceLanguage, FALSE)
    /\ UNCHANGED <<locale, store, acks, tile, open, chosen>>

(***************************************************************************)
(* main() up to runApp's last await: getInstance reads the store into the  *)
(* cache; without a language in it the device's is stored.                 *)
(***************************************************************************)
Launch(deviceLanguage) ==
    /\ phase = "down"
    /\ phase' = "starting"
    /\ IF store = NULL
       THEN SetString(deviceLanguage, FALSE)
       ELSE /\ cache' = store
            /\ UNCHANGED <<sent, outcome>>
    /\ UNCHANGED <<locale, store, acks, tile, open, chosen>>

(* getInstance throws, outside any try: main() ends there. *)
LaunchFails ==
    /\ phase = "down"
    /\ phase' = "failed"
    /\ UNCHANGED <<locale, cache, store, sent, acks, tile, open, chosen,
                   outcome>>

(* runApp, once setString has answered: LocaleProvider starts at 'en'. *)
RunApp ==
    /\ phase = "starting"
    /\ sent = <<>> /\ acks = <<>>
    /\ phase' = "running"
    /\ locale' = "en"
    /\ UNCHANGED <<cache, store, sent, acks, tile, open, chosen, outcome>>

(* The language page opens; _loadLanguage reads the cache. *)
OpenPage ==
    /\ phase = "running"
    /\ ~open
    /\ open' = TRUE
    /\ tile' = TileOf(cache)
    /\ UNCHANGED <<phase, locale, cache, store, sent, acks, chosen, outcome>>

Unmount(requests) ==
    [i \in 1 .. Len(requests) |-> [requests[i] EXCEPT !.mounted = FALSE]]

ClosePage ==
    /\ open
    /\ open' = FALSE
    /\ tile' = NULL
    /\ sent' = Unmount(sent)
    /\ acks' = Unmount(acks)
    /\ UNCHANGED <<phase, locale, cache, store, chosen, outcome>>

(* Slips the properties must notice: LocaleProvider is not told; the code *)
(* is not stored.                                                         *)
ChangeLanguageUnheard(language) ==
    /\ open
    /\ language # tile
    /\ Len(sent) + Len(acks) < MaxPending
    /\ SetString(LocaleOf(language), TRUE)
    /\ chosen' = TRUE
    /\ UNCHANGED <<phase, locale, store, acks, tile, open>>

ChangeLanguageUnsaved(language) ==
    /\ open
    /\ language # tile
    /\ locale' = LocaleOf(language)
    /\ cache' = LocaleOf(language)
    /\ chosen' = TRUE
    /\ UNCHANGED <<phase, store, sent, acks, tile, open, outcome>>

(***************************************************************************)
(* A tap on a radio tile; the tile that is selected does not answer.       *)
(* _changeLanguage up to its await.                                        *)
(***************************************************************************)
ChangeLanguage(language) ==
    /\ open
    /\ language # tile
    /\ Len(sent) + Len(acks) < MaxPending
    /\ locale' = LocaleOf(language)
    /\ SetString(LocaleOf(language), TRUE)
    /\ chosen' = TRUE
    /\ UNCHANGED <<phase, store, acks, tile, open>>

(***************************************************************************)
(* The platform takes the next value: it is stored, or refused, or storing *)
(* it throws.  The cache keeps the value in each case.                     *)
(***************************************************************************)
Persist(result) ==
    /\ sent # <<>>
    /\ store' = IF result = "stored" THEN Head(sent).code ELSE store
    /\ acks' = Append(acks, [Head(sent) EXCEPT !.thrown = result = "thrown"])
    /\ sent' = Tail(sent)
    /\ outcome' = IF Head(sent).code = cache THEN result ELSE outcome
    /\ UNCHANGED <<phase, locale, cache, tile, open, chosen>>

(***************************************************************************)
(* setString's future completes; the page that waits for it, if it is      *)
(* still there, selects the tile, whether the value was stored or refused. *)
(* An exception ends _changeLanguage before its setState, and main()       *)
(* before runApp.                                                          *)
(***************************************************************************)
Acknowledge ==
    /\ acks # <<>>
    /\ acks' = Tail(acks)
    /\ tile' = IF Head(acks).mounted /\ ~Head(acks).thrown
               THEN TileOf(Head(acks).code)
               ELSE tile
    /\ phase' = IF phase = "starting" /\ Head(acks).thrown
                THEN "failed"
                ELSE phase
    /\ UNCHANGED <<locale, cache, store, sent, open, chosen, outcome>>

(* The process ends, swiped away or killed by the system. *)
Kill ==
    /\ phase # "down"
    /\ phase' = "down"
    /\ locale' = "en" /\ cache' = NULL
    /\ sent' = <<>> /\ acks' = <<>>
    /\ tile' = NULL /\ open' = FALSE /\ chosen' = FALSE
    /\ outcome' = "none"
    /\ UNCHANGED store

-----------------------------------------------------------------------------

Next ==
    \/ \E code \in Codes : Launch(code)
    \/ LaunchFails
    \/ RunApp
    \/ OpenPage
    \/ ClosePage
    \/ \E language \in Languages : ChangeLanguage(language)
    \/ \E result \in Results : Persist(result)
    \/ Acknowledge
    \/ Kill

(* While the process lives, main runs on, the platform serves its queue   *)
(* and the event loop delivers the answers; nobody has to tap or kill.    *)
(* The platform owes an answer, not success.                              *)
Fairness ==
    /\ WF_vars(RunApp)
    /\ WF_vars(\E result \in Results : Persist(result))
    /\ WF_vars(Acknowledge)

Spec == Init /\ [][Next]_vars /\ Fairness

-----------------------------------------------------------------------------

(***************************************************************************)
(* However taps, reopened pages, late and failing answers and restarts     *)
(* interleave, once a language was picked in this run and nothing is under *)
(* way, the locale drawn and the cached code name the same language, and   *)
(* so do the stored code, unless storing the last choice failed, and the   *)
(* selected tile, unless it failed by an exception: _changeLanguage's      *)
(* three assignments, separated by awaits, agree in the end, and no        *)
(* failure of an earlier choice outlives a later one.                      *)
(***************************************************************************)
Settled == phase = "running" /\ chosen /\ sent = <<>> /\ acks = <<>>

SettledAgree ==
    Settled =>
        /\ cache = locale
        /\ store = locale \/ outcome \in {"refused", "thrown"}
        /\ open => tile = TileOf(locale) \/ outcome = "thrown"

(***************************************************************************)
(* The preferences implement WriteBehind: whatever is tapped, answered     *)
(* late, refused, closed and killed, a read sees the last write, a kill    *)
(* loses only what was still queued, and main()'s default never replaces a *)
(* language that was stored, in whichever step earlier runs were killed or *)
(* failed.                                                                 *)
(***************************************************************************)
CodesOf(requests) == [i \in 1 .. Len(requests) |-> requests[i].code]

Up == phase \in {"starting", "running"}

Register == INSTANCE WriteBehind WITH
    Values <- Codes,
    up     <- Up,
    value  <- IF Up THEN cache ELSE NULL,
    disk   <- store,
    lag    <- CodesOf(sent)

IsWriteBehind == Register!Spec

(***************************************************************************)
(* A picked language is on disk eventually, unless another one is picked,  *)
(* the process ends or the platform fails to store it first.               *)
(***************************************************************************)
ChoicePersisted ==
    \A code \in {"th", "en"} :
        (chosen /\ locale = code)
            ~> \/ store = code \/ locale # code \/ phase = "down"
               \/ outcome \in {"refused", "thrown"}

(***************************************************************************)
(* Storing the default is the one step of main() behind getInstance that   *)
(* can keep the app from running (main.dart:34, outside any try).  Once a  *)
(* language reached the disk, in whichever run and however that run ended, *)
(* no start takes that risk again: from there a start that has its         *)
(* preferences runs the app, or is killed meanwhile.                       *)
(***************************************************************************)
StartCompletes ==
    (phase = "starting" /\ store # NULL) ~> phase \in {"running", "down"}

(***************************************************************************)
(* What the comment in main() (main.dart:33) says: the default language is *)
(* set the first time the app is opened, so the app is drawn in the        *)
(* language the preferences hold.  It does not hold: the stored code is    *)
(* never handed to LocaleProvider, which starts at 'en'.                   *)
(***************************************************************************)
DefaultLanguageApplied ==
    phase = "running" /\ ~chosen => locale = LocaleOf(TileOf(cache))

=============================================================================
