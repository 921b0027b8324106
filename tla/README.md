# smart_home101: TLA+ models, checks and proofs

`smart_home101` (under `src/`) is a Flutter application. A user signs in with
Firebase, keeps a profile, lists the homes he owns, and creates a home by
choosing a point on a map and filling a form with a Thai address. The Dart code
runs on one thread, so nothing is parallel; but almost every handler awaits
something (Firestore, FirebaseAuth, the preferences, an HTTP service), and
between the two halves of a handler the user goes on tapping, pages come and
go, other handlers run, and the process may be killed. That, and state that is
kept twice and synchronised by hand, is where this program is hard to test, and
what the models are about.

## The system's parts

| Part (under `src/lib`) | State | Operations | Hard because |
|---|---|---|---|
| Address picker, `components/ThaiAddress.dart` | selected ids, names, postcode; the open wheel | load the tables, open a wheel, scroll, Done, cancel | three dependent levels; a re-chosen level must reset those below |
| Home form, `pages/home/formCreate.dart`, `components/TextArea.dart` | its own copies of the picker's names, texts, button flag | callbacks, typing, submit, answer of the write | copies and flag are caches kept by hand; submit awaits with the button enabled |
| Home pages, `pages/home/*.dart`, `components/Navbar.dart` | the Navigator's stack, one query per list page | bottom bar, links, back, creation's `popUntil` and `pushNamed` | navigation after an await acts on whatever is on top by then |
| Firestore access, `controllers/FireBaseController.dart` | the collections | create, getHomesByOwner, getProfile | errors are dropped |
| Language, `main.dart`, `providers/locale_provider.dart`, `pages/settings/language.dart` | locale, preferences in memory and on disk, selected tile | start, choose, restart | four copies of one value, awaits between them, storing that fails, kills |
| Profile, `pages/profile/detail.dart`, `setting.dart` | document, display name, fields, page below | load, edit, pick a date, save in four steps, refresh, pop | load and save are not ordered by the code; repeated saves |
| Session, `main.dart`, `pages/auth/*.dart`, `pages/settings/list.dart`, `providers/user_profile_provider.dart` | current user, the root's stream, the stack, a cached profile | sign in, register, sign out, fetch, change of language | two channels announce a sign-in; continuations replace the top page |
| Map picker, `components/Map.dart`, `pages/home/create.dart` | position, label, the camera, lookups under way | map created, camera at rest, device position, two-step lookup, Done | four sources move position and camera in any order; lookups are answered out of order |
| Location, `utils/global.dart` (and its copy in `Map.dart`) | permission and service, which belong to the system | check, request, locate, each an await | what was checked may have changed when it is used |
| Air quality, `components/AirThai.dart` | first line, AQI, weather | three requests in a row; the colour of a reading | any of them fails; fractions between two bands |
| Windows runner, `src/windows/runner` | window class, window, controller, quit flag | create, messages, destroy, exit | destruction is re-entered from its own messages; virtual calls in a destructor |

The pages talk to each other through the Navigator (a shared stack), through
callbacks (picker to form, editor to profile page), through two providers
(locale, profile) and through Firestore.

## Modules

| Module | Models | Used by |
|---|---|---|
| `ThaiAddress` | the picker | `HomeForm` extends it |
| `HomeForm` | one form page from `initState` to its removal, and its writes beyond | `MCHomeForm` |
| `Routes` | Flutter's Navigator as the app uses it (external) | the three modules below |
| `HomeFlow` | the stack of home pages, queries, writes | `MCHomeFlow` |
| `Profile` | profile page and editor | run directly |
| `Session` | root page, login sheets, settings page, cached profile | `MCSession` |
| `Language` | start, locale, preferences, language page | run directly |
| `Location` | asking the device for its position, await by await | the two modules below extend it |
| `MapPicker` | the map page from `initState` to its removal | `MCMapPicker` |
| `AirQuality` | the air quality card | `MCAirQuality` |
| `WindowsRunner` | `wWinMain`, `FlutterWindow`, `Win32Window` | run directly |
| `PlaceChoice` | abstract: a path chosen in a tree, level by level | `HomeForm` implements it |
| `WriteBehind` | abstract: a register written to disk behind its user | `Language` implements it |
| `HomeFormProofs` (with the lemmas on the picker), `HomeFlowProofs`, `ProfileProofs`, `SessionProofs`, `LanguageProofs`, `AirQualityProofs`, `MapPickerProofs`, `WindowsRunnerProofs` | theorems and their lemmas | |

Definitions carry the source's names where there is one; `PROJECT.json` maps
each to its lines. One action is one stretch of code between two awaits
(`CreateHome` is `_createHome` up to its `await`, `CreateReturns` the rest).
Definitions introduced as "a slip the properties must notice" are the mutated
handlers that show that each property can fail; no specification uses them.

What is abstracted: a text is its emptiness or its length; a row of a table is
its id, a wheel's index the row it points at; a document is a number or the
fields a property reads; the pages behind the settings menu are one page in
`Session`; of the four fields of the profile editor one is kept, since they
follow the same path (the date of birth also has its picker, a page of its own
that a late save may close); coordinates are places, and the address of a place is
written as the place; an AQI is counted in parts of a whole, so that fractions
exist. In `WindowsRunner` the thread's call stack is explicit (`todo`): a call
puts its steps before the rest, which is how `DestroyWindow` gets to send
`WM_DESTROY`, whose handler calls `Destroy` again. Layout, wording and logging are left out.

Assumptions about what is not in the repository:

* Navigator: all operations act on the top of the stack; a page that was
  removed keeps a usable context while its exit transition runs ("lingering",
  "leaving") and loses it afterwards.
* Firestore: reads show the client's own pending writes; a write's future
  completes when the server answers; sets of one client are answered in order.
* FirebaseAuth: a change of the user is put on the stream and completes the
  request; the two reach the app in either order. An account has an e-mail.
* shared_preferences: `setString` changes the cache at once, the platform
  handles values in the order they were sent and answers each. It may fail to
  store one: the answer is then `false`, which the code ignores, or an
  exception, which it does not catch. `getInstance` may throw until it has
  succeeded once in the process.
* The map: it starts at the initial camera position, reports rest once after it
  was created and once after every move, and answers `getLatLng` calls in
  order, each with the place at the point when it is served. (The code reads
  the middle of the screen, which is not the middle of the map: `AtPoint`.)
* geolocator: the user is asked only while the permission is denied;
  `getCurrentPosition` uses the settings that hold when it runs; each of its
  four calls may throw.
* Win32 and the Flutter engine: `CreateWindow` may fail before or after
  `WM_NCCREATE`; `UnregisterClass` fails while a window of the class exists; the
  engine leaves `WM_DESTROY` to the window, and may post `WM_QUIT` itself.
* The tables under `src/assets/data` have no empty list (`NoEmptyList`).

## Runs

| Run | Shows | Bounds, and why they are enough |
|---|---|---|
| `HomeForm` | `PickerChain`, `PickerItemValid`: the ids are a chain of the tables, no wheel points outside its list. `ButtonFollowsForm`: the flag is never stale. `FormFollowsPicker`: the copies are the picker's place whenever it shows a postcode. `HomesComplete`, `PostalCodeMatches`: what is sent is complete, its postal code its subdistrict's. `ChoosesPlaces`: the picker implements `PlaceChoice`. | 2 provinces, 3 districts (two in one province), 3 subdistricts sharing names and zipcodes: every level can be re-chosen within and across parents. Address limit 1, edits up to 2: empty, full and too long. 2 submissions. |
| `HomeFormPlace` (violated) | `SubmittedAddressIsAPlace`: see Findings | 1 submission |
| `HomeFlow` | `NoFormBeneathList`, `BarOnlyAtBottom`, `ListShowsWrites`, `StrandedOnList` | 3 submissions (two overlapping and one after), stack of 5, 7 page identities: five on the stack and two forms leaving |
| `HomeFlowKept` (violated) | `ListPageKept`: see Findings | 1 submission |
| `Language` | `SettledAgree`: locale and cache agree, and so do store and tile unless storing this very choice failed. `IsWriteBehind`: the preferences implement `WriteBehind`, so a kill loses only what was queued and the default never replaces a choice. `ChoicePersisted`: a choice reaches the disk or its storing failed. `StartCompletes`: once a language is stored, no start waits for the platform, and each that has its preferences runs the app | codes th, en and one the app does not support; 4 values under way; any number of restarts |
| `LanguageDefault` (violated) | `DefaultLanguageApplied`: see Findings | as above |
| `Profile` | `NoBlindSave`, `DocumentComplete`, `DetailUpToDate` | 2 texts, 2 saves or refreshes under way; the date picker is one more page above the editor |
| `Session` | `SheetOnTop`, `RootFollowsUser`, `NoPrivatePageLeft`, `ProfileOfUser` | 2 accounts (symmetric), 2 requests, 2 fetches, 1 undelivered event before a request, stack of 3 |
| `SessionLive` | `RootCatchesUp` | 1 account, 2 requests, 2 events, stack of 3, so that the language is changed on a page above the root; no symmetry |
| `MapPicker` | `PositionAtPoint`, `PositionCatchesUp`: position and camera agree at rest, and get there. `AddressFollows`: label and position differ only in the cases `status` names | 3 places, two of which read the same point; 1 move of the user beside the first rest and the device's position, so that two readings and lookups are under way and the earlier one may end last (2 moves give the same verdict on 1.5 million states) |
| `AirQuality` | `CardHonest`: an address stands on the card only beside an answer of the service, a notice only without one, and "loading" only while something is under way. `ColourOfReading`: the six conditions are the table | in halves: readings half below, at, half above and one above every limit, 0, and a negative one |
| `WindowsRunner` | `CompleteInLoop`: no message meets half a window. `NothingLeft`: window and class are gone on every way out. `CloseQuits`, `WindowShown` | none: the model is finite, and the run covers all of it |

`HomeForm` does not check for deadlock: the life of one form ends. Neither do
`MapPicker`, `AirQuality` and `WindowsRunner`, for the same reason, nor
`Profile`: the pop at the end of a save takes whatever page is on top, so a late
save can pop the settings page, the last one, and leave an app without pages.
All other passing runs check it.

Fairness. `Language`: weak fairness of `RunApp`, `Persist` and `Acknowledge`:
main runs on, the platform serves its queue, the event loop delivers answers.
The platform owes an answer, not success: which of the three results `Persist`
has is never assumed.
`Session`: weak fairness of `RootEvent`, the delivery of stream events.
`MapPicker`: weak fairness of the frame's callback and of the map's own calls,
none of which needs the network. `WindowsRunner`: weak fairness of the thread's
steps, of the dispatch of a posted callback and of `WM_QUIT`, and of the engine
completing a pending frame. No user action, no answer of a server and no kill is
assumed to happen.

`AddressFollows` is stated with a history variable, `status`, because the code
does not guarantee that label and position agree: the answer of an earlier
lookup may come last ("overtaken"), a geocoder without results leaves the label
alone ("kept"), and a device position is not looked up before the map rests
("fix"). In these cases the form is handed the address of another place. The
property says that there are no others.

The window class shows why `NothingLeft` is worth a run: in the destructor the
re-entered `Destroy` finds no objects and unregisters the class of a window that
is still being destroyed. That call fails, yet clears `class_registered_`; only
the unconditional second call, at the end of the outer `Destroy`, removes the
class. A test of the flag before unregistering would leak it.

`main()` awaits `getInstance` and, the first time, `setString` outside any `try`
(main.dart:30 and 34), unlike its other two awaits. If one of them throws,
`runApp` is never reached and the process stays blank (`phase = "failed"`).
That a start may end so is what the code does; `StartCompletes` says that the
second risk is over for good once any language reached the disk, in whichever
run and however that run ended. A start that stored the device's language every
time would break it. On the language page a failing `setString` leaves locale
and cache changed and the store not; after an exception the tile is not
selected either. `outcome`, a history variable, tells what became of the cached
code, and `SettledAgree` excuses store and tile only for that choice: a failure
of an earlier one must not outlive a later one.

`CardHonest` has one case it cannot exclude: the card takes `aqius` from an
answer with status 200 without looking (AirThai.dart:64), so an answer without
a reading leaves the green 0 beside an address.

A change of language rebuilds the app under `Consumer<LocaleProvider>`
(main.dart:57), and the root's `StreamBuilder` is given a new stream: it drops
what the old one had to deliver and shows the spinner until the new one tells
the current user (`ChangeLocale`). `RootFollowsUser` and `RootCatchesUp` hold
with it.

Two properties of `Session` are conditional on history variables, because the
code does not guarantee more. `raced`: a continuation replaced a page that was
not its own, or found another session than the one it had set up, or the bar
was used after the session had ended; then a page of the old session can stay
beneath the login page. `crossed`: the last profile fetch failed or was of
another user; then the settings page shows another user's name. `outdated` in
`Profile` marks that a request failed since the profile page was refreshed.

## Findings

* **A home can be created at a place that does not exist**
  (`HomeFormPlace`). Choose a full address, then another province: the picker
  resets its district, subdistrict and postcode, as its comments say, but the
  form keeps its copies and its button stays enabled.
* **Creating a home empties the page stack** (`HomeFlowKept`,
  `StrandedOnList`). The list page that `popUntil` is to keep was pushed
  without a name. All pages are popped and a new list page is pushed; it is the
  first route, so it has no back button, and it has no bottom bar. The user
  cannot reach home or settings until the app is restarted; `StrandedOnList`,
  which is proved, says that no sequence of steps gets out.
* **The stored language is not applied at the start** (`LanguageDefault`).
  The app always starts in English; a user whose stored language is Thai sees
  the Thai tile selected, which does not answer taps, and has to choose English
  first.

## Proofs

Proved with TLAPS, for every value of the constants that satisfies the named
assumptions (`Tables`, `NoEmptyList`, `FormConstants`, `FlowConstants`,
`ProfileConstants`, `SessionConstants`, `LanguageConstants`, `AirConstants`,
`MapConstants`):

* `HomeFormProofs`: `TypeCorrect`, `PickerCorrect`, `ButtonCorrect`,
  `FormFollows`, `DocumentsCorrect`. The invariants are not inductive as they
  stand. That the copies agree with the picker when it shows a postcode needs
  that they agree with every id it holds (`FormHoldsIds`); that a document's
  postal code is its subdistrict's needs it of the form's last two copies,
  stale ones included (`SelectedPair`); that no wheel starts at -1 needs the
  chain of ids and that no list is empty (the picker's lemmas, at the start of
  the module). A document is
  complete because the button's flag is not stale when it is pressed.
* `HomeFlowProofs`: `TypeCorrect`, `ListCoversNoForm`, `BarAtBottom`,
  `ListComplete`, `Stranded`. Every step but Back and the answer of a query
  puts one new page above the first n of the stack; the lemmas about the
  Navigator's operators say which n, `popUntil`'s being the last route of the
  name, whose existence rests on the well-foundedness of the naturals.
  `NewTopInv` then treats these steps alike. The strengthening (`GoodRoute`)
  says that only list pages carry the list's name, which keeps the bottom bar
  off a list at the bottom, and that what a list page found on the server when
  it was built is still there.
* `HomeFormProofs` also proves the refinement `PickerImplementsChoice`: the
  three Done buttons are steps of `PlaceChoice` because the wheel's row is in
  the list of its parent and the ids form a chain; every other step of form and
  picker leaves the ids alone.
* `ProfileProofs`: `TypeCorrect`, `SavesAreLoaded`, `DocumentStaysComplete`,
  `DetailIsUpToDate` and the action property `ReadYourWrites`. That no save is
  blind needs that an open save is of the editor on top (`NoOrphanSave`) and
  that the e-mail field is empty while the load is under way (`LoadInEditor`);
  that the document is complete needs it of every save that may become the
  document (`SavesFilled`). That the page is up to date at rest has to be said
  while saves are under way: it shows what a read would show, unless a save
  that is to refresh it has not finished (`DetailFollows`). `ReadYourWrites`
  says which steps change what a read shows: `_updateProfile` itself, and the
  rejection of a set, which takes the local write back. `SavesComplete` follows
  a save by its id through the queue of sets and the display name updates: none
  is set twice, and each keeps its data until its own answer. Every step but a save and its two
  answers only moves pages, which one lemma (`MovedPages`) treats.
* `SessionProofs`: `TypeCorrect`, `SheetsStayOnTop`, `RootAgrees`,
  `SessionIsLeft`, `SettingsShowUser` and the action property `HandlersLand`.
  The last event on the stream is the current user (`RootListens`), so the root
  page is right once it is delivered. A handler whose page is open finds it
  where it was (`RequestsOwnPage`), and until one has raced only root and login
  pages lie below the top, save the settings page beneath an inner one
  (`PlainBelow`): so a handler replaces its own page and leaves no page of the
  session (`HandlersLand`). After a sign-out, or with another user's profile on
  the settings page, a request that was carried out or a fetch is still under
  way (`SessionEnds`, `ProfileFollows`), which will replace the page or the
  profile. These two rest on `raced` and `crossed` as the runs do.
  `HandlersComplete` says the same of requests as the theorem on saves above:
  each stays one handler, with its user and position, until it is refused or
  goes on, and a page that has gone is never open again. In both modules the
  sets of requests are finite, which is what makes an unused id exist.
* `LanguageProofs`: `TypeCorrect`, `CopiesAgree` and the refinement
  `PreferencesImplementRegister`. What holds when nothing is under way has to be
  known while something is: the last value sent carries the cached code, or it
  was handled as `outcome` says (`CacheIsLast`), and the tile is right, or the
  last answer due will make it so, or storing threw (`TileFollows`), which
  needs that no answer reaches another page instance than the one that asked
  (`ClosedIsUnheard`). The lemmas on `CodesOf` relate the queue of requests to
  the abstract queue of codes; a value that is not stored leaves both queues
  and changes no disk.
* `MapPickerProofs`: `TypeCorrect`, `RestingPosition`, `LabelFollows`.
  Something will read the point again or the last reading was right
  (`LastReadingRight`; it needs that a map that was not created still owes its
  first rest); a position that is being looked up is that of the last lookup
  (`LastLookupOfPosition`), which survives the removal of any other.
  `LabelOfOnePlace` adds that the two lines of the label, fetched by two
  requests, never come from two lookups; a lookup under way carries an answer
  for its own place only (`Own`).
* `AirQualityProofs`: `TypeCorrect`, `CardIsHonest`, `ColourCorrect`. The limits
  a reading exceeds are the first k, for each of the six bands.
  This module and the last begin with the lemmas on the location call they
  share.
* `WindowsRunnerProofs`: `TypeCorrect`, `LoopMeetsWhole`, `NothingIsLeft` and
  the action property `EngineGoesFirst`. The run of this module is exhaustive
  already; the proof says why it succeeds. What is claimed of the loop and of
  the end depends on every call before, so the invariant is an outline of the
  program: each stack of calls the thread can be in (`Starts`, `Loops`,
  `Returns`), with what then holds of object, window and engine. `Destroy`
  occurs in four places in it: before the window exists, within the
  `WM_DESTROY` of a closed window, in the destructor, and within the
  `WM_DESTROY` that the destructor causes. There the virtual `OnDestroy` is the
  base class's, and the engine is gone because `~FlutterWindow` ran first.

`ReadYourWrites`, `SavesComplete`, `HandlersLand`, `HandlersComplete`,
`LabelOfOnePlace` and `EngineGoesFirst` are stated in the proof modules only; TLC agreed with each of them, and with
every conjunct of the inductive invariants, on small instances.

Only model-checked: liveness (`ChoicePersisted`, `StartCompletes`,
`RootCatchesUp`, `PositionCatchesUp`, `CloseQuits`, `WindowShown`), which is
beyond the prover.

## Not modelled

* The QR code page, legal pages and drawing helpers: no state that interacts.
* Code no page uses: `services/firestore_service.dart`,
  `components/GoogleApiService.dart`, `models/user.dart`,
  `app_localizations.dart`, `FormLogin._login`, `updateUserProfile`, several
  controller methods.
* Texts: the cleaning of addresses (`removeUnwantedDetails`), the validation of
  e-mail and password, the picked profile image, which is never stored.
* The runners for Linux, macOS, iOS, Android and the web: generated, and
  without a life cycle of their own (they hand over to Flutter). Of the Windows
  runner, size, theme, DPI and console.
* Generated configuration, translations, and the vendored pods under
  `src/ios/Pods` (gRPC, BoringSSL, Abseil, Firebase): by far the largest part
  of the repository, and not this program's code.
* Two submissions or saves at once create two documents or close one page too
  many; a failed query shows "No homes found."; the display name is read after
  an await. The models have these behaviours; no text of the repository
  excludes them, so no property is stated.

## Plan

1. Done: all components above with state of their own, the two abstract
   specifications and their refinements, theorems for every invariant the runs
   check, and that no request or save under way is lost.
2. Left: liveness for every value of the constants, which needs another prover.
   Should the text processing of addresses ever decide what is stored, it would
   deserve a module of operators with a reference definition.
