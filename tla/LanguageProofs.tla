--------------------------- MODULE LanguageProofs ---------------------------
(***************************************************************************)
(* The four copies of the language agree once settled, and the preferences *)
(* implement a register written behind its user, for any codes and any     *)
(* number of values under way.  What is agreed upon in the end must be     *)
(* known while requests are under way: the last one sent carries the       *)
(* cached code, and it is the last to select a tile, because a page is     *)
(* opened only when no request of an earlier page can reach it.            *)
(***************************************************************************)
EXTENDS Language, SequenceTheorems, TLAPS

LastOf(requests) == requests[Len(requests)]

Unheard(requests) == \A i \in 1 .. Len(requests) : ~requests[i].mounted

(* A process that is down, or whose main() failed, has nothing under way. *)
DownIsEmpty ==
    /\ phase \in {"down", "failed"} =>
           sent = <<>> /\ acks = <<>> /\ ~open /\ ~chosen
    /\ phase = "down" => outcome = "none"

(* main() runs before any page and sends at most one value. *)
StartIsClosed ==
    phase = "starting" => ~open /\ ~chosen /\ Len(sent) + Len(acks) <= 1

(* The last value sent is the cached one; with none under way, the stored *)
(* one is, unless storing it failed.                                      *)
CacheIsLast ==
    Up =>
        /\ cache # NULL
        /\ sent = <<>> =>
               /\ outcome # "pending"
               /\ outcome \in {"none", "stored"} => store = cache
        /\ sent # <<>> => LastOf(sent).code = cache

ChosenIsDrawn == chosen => cache = locale

(* No answer reaches a page other than the one that asked. *)
ClosedIsUnheard == ~open => Unheard(sent) /\ Unheard(acks)

(* The tile is right, or the last answer due will set it right, or storing *)
(* the last choice threw.                                                  *)
TileFollows ==
    open => \/ /\ Unheard(sent) /\ Unheard(acks)
               /\ tile = TileOf(cache) \/ (sent = <<>> /\ outcome = "thrown")
            \/ sent # <<>> /\ LastOf(sent).mounted
            \/ /\ sent = <<>> /\ acks # <<>>
               /\ LastOf(acks).mounted /\ LastOf(acks).code = cache
               /\ LastOf(acks).thrown => outcome = "thrown"

Inv ==
    /\ TypeOK
    /\ DownIsEmpty
    /\ StartIsClosed
    /\ CacheIsLast
    /\ ChosenIsDrawn
    /\ ClosedIsUnheard
    /\ TileFollows

-----------------------------------------------------------------------------
(* The queues. *)

LEMMA AppendFacts ==
    ASSUME NEW s \in Seq(Request), NEW r \in Request
    PROVE  /\ Append(s, r) \in Seq(Request)
           /\ Append(s, r) # <<>>
           /\ LastOf(Append(s, r)) = r
           /\ Unheard(s) /\ ~r.mounted => Unheard(Append(s, r))
BY DEF LastOf, Unheard

LEMMA TailFacts ==
    ASSUME NEW s \in Seq(Request), s # <<>>
    PROVE  /\ Head(s) \in Request
           /\ Tail(s) \in Seq(Request)
           /\ Tail(s) # <<>> => LastOf(Tail(s)) = LastOf(s)
           /\ Tail(s) = <<>> => LastOf(s) = Head(s)
           /\ Unheard(s) => Unheard(Tail(s)) /\ ~Head(s).mounted
<1>1. Head(s) \in Request /\ Tail(s) \in Seq(Request) /\ Len(s) \in Nat \ {0}
    OBVIOUS
<1>2. Len(Tail(s)) = Len(s) - 1
    OBVIOUS
<1>3. \A i \in 1 .. Len(Tail(s)) : Tail(s)[i] = s[i + 1]
    OBVIOUS
<1>4. Tail(s) # <<>> => LastOf(Tail(s)) = LastOf(s)
    BY <1>1, <1>2, <1>3 DEF LastOf
<1>5. Tail(s) = <<>> => LastOf(s) = Head(s)
    <2>1. Tail(s) = <<>> => Len(Tail(s)) = 0
        BY <1>1, EmptySeq
    <2>2. Tail(s) = <<>> => Len(s) = 1
        BY <1>1, <1>2, <2>1
    <2> QED
        BY <2>2 DEF LastOf
<1>6. Unheard(s) => Unheard(Tail(s)) /\ ~Head(s).mounted
    BY <1>1, <1>2, <1>3 DEF Unheard
<1> QED
    BY <1>1, <1>4, <1>5, <1>6

LEMMA UnmountFacts ==
    ASSUME NEW s \in Seq(Request)
    PROVE  /\ Unmount(s) \in Seq(Request)
           /\ Unheard(Unmount(s))
           /\ s = <<>> <=> Unmount(s) = <<>>
           /\ s # <<>> => LastOf(Unmount(s)).code = LastOf(s).code
           /\ CodesOf(Unmount(s)) = CodesOf(s)
<1>1. Len(s) \in Nat /\ \A i \in 1 .. Len(s) : s[i] \in Request
    OBVIOUS
<1>2. \A i \in 1 .. Len(s) :
          /\ Unmount(s)[i] \in Request
          /\ Unmount(s)[i].mounted = FALSE
          /\ Unmount(s)[i].code = s[i].code
    BY <1>1 DEF Unmount, Request
<1>3. Unmount(s) \in [1 .. Len(s) -> Request]
    BY <1>2 DEF Unmount
<1>4. Unmount(s) \in Seq(Request) /\ Len(Unmount(s)) = Len(s)
    BY <1>1, <1>3
<1>5. s = <<>> <=> Unmount(s) = <<>>
    BY <1>4
<1>6. s # <<>> => LastOf(Unmount(s)).code = LastOf(s).code
    BY <1>1, <1>2, <1>4 DEF LastOf
<1>7. CodesOf(Unmount(s)) = CodesOf(s)
    BY <1>2, <1>4 DEF CodesOf
<1> QED
    BY <1>2, <1>4, <1>5, <1>6, <1>7 DEF Unheard

LEMMA CodesFacts ==
    ASSUME NEW s \in Seq(Request)
    PROVE  /\ CodesOf(s) \in Seq(Codes)
           /\ Len(CodesOf(s)) = Len(s)
           /\ \A i \in 1 .. Len(s) : CodesOf(s)[i] = s[i].code
<1>0. \A i \in 1 .. Len(s) : s[i] \in Request
    OBVIOUS
<1>1. \A i \in 1 .. Len(s) : s[i].code \in Codes
    BY <1>0 DEF Request
<1>2. CodesOf(s) \in [1 .. Len(s) -> Codes]
    BY <1>1 DEF CodesOf
<1> QED
    BY <1>2 DEF CodesOf

(* The queue of requests moves as the queue of their codes. *)
LEMMA CodesOfAppend ==
    ASSUME NEW s \in Seq(Request), NEW r \in Request
    PROVE  CodesOf(Append(s, r)) = Append(CodesOf(s), r.code)
<1>1. r.code \in Codes
    BY DEF Request
<1>2. Append(s, r) \in Seq(Request) /\ Append(CodesOf(s), r.code) \in Seq(Codes)
    BY <1>1, CodesFacts
<1> DEFINE t == Append(s, r)
<1>a. /\ CodesOf(s) \in Seq(Codes) /\ Len(CodesOf(s)) = Len(s)
      /\ \A i \in 1 .. Len(s) : CodesOf(s)[i] = s[i].code
    BY CodesFacts
<1>5. /\ CodesOf(t) \in Seq(Codes) /\ Len(CodesOf(t)) = Len(t)
      /\ \A i \in 1 .. Len(t) : CodesOf(t)[i] = t[i].code
    BY <1>2, CodesFacts
<1>b. Len(t) = Len(s) + 1
    OBVIOUS
<1>3. /\ Len(CodesOf(t)) = Len(s) + 1
      /\ Len(Append(CodesOf(s), r.code)) = Len(s) + 1
    BY <1>1, <1>a, <1>5, <1>b
<1>4. \A i \in 1 .. Len(s) + 1 : CodesOf(t)[i] = Append(CodesOf(s), r.code)[i]
    <2> SUFFICES ASSUME NEW i \in 1 .. Len(s) + 1
                 PROVE  CodesOf(t)[i] = Append(CodesOf(s), r.code)[i]
        OBVIOUS
    <2>1. CodesOf(t)[i] = t[i].code
        BY <1>5, <1>b
    <2>2. CASE i \in 1 .. Len(s)
        <3>1. t[i] = s[i] /\ Append(CodesOf(s), r.code)[i] = CodesOf(s)[i]
            BY <2>2, <1>1, <1>a
        <3> QED
            BY <2>1, <2>2, <3>1, <1>a
    <2>3. CASE i = Len(s) + 1
        <3>1. t[i] = r /\ Append(CodesOf(s), r.code)[i] = r.code
            BY <2>3, <1>1, <1>a
        <3> QED
            BY <2>1, <3>1
    <2>4. i \in 1 .. Len(s) \/ i = Len(s) + 1
        OBVIOUS
    <2> QED
        BY <2>2, <2>3, <2>4
<1> QED
    BY <1>2, <1>3, <1>4, <1>5, SeqEqual

LEMMA CodesOfTail ==
    ASSUME NEW s \in Seq(Request), s # <<>>
    PROVE  /\ CodesOf(s) # <<>>
           /\ Head(CodesOf(s)) = Head(s).code
           /\ CodesOf(Tail(s)) = Tail(CodesOf(s))
<1>1. CodesOf(s) \in Seq(Codes) /\ Len(CodesOf(s)) = Len(s)
    BY CodesFacts
<1>2. CodesOf(s) # <<>>
    BY <1>1
<1>3. Head(CodesOf(s)) = Head(s).code
    BY <1>1, <1>2, CodesFacts
<1>4. Tail(s) \in Seq(Request) /\ Tail(CodesOf(s)) \in Seq(Codes)
    BY <1>1, <1>2
<1>5. /\ Len(CodesOf(Tail(s))) = Len(s) - 1
      /\ Len(Tail(CodesOf(s))) = Len(s) - 1
    <2>1. Len(Tail(s)) = Len(s) - 1
        OBVIOUS
    <2>2. Len(CodesOf(Tail(s))) = Len(Tail(s))
        BY <1>4, CodesFacts
    <2>3. Len(Tail(CodesOf(s))) = Len(CodesOf(s)) - 1
        BY <1>1, <1>2
    <2> QED
        BY <1>1, <2>1, <2>2, <2>3
<1>6. \A i \in 1 .. Len(s) - 1 : CodesOf(Tail(s))[i] = Tail(CodesOf(s))[i]
    <2> SUFFICES ASSUME NEW i \in 1 .. Len(s) - 1
                 PROVE  CodesOf(Tail(s))[i] = Tail(CodesOf(s))[i]
        OBVIOUS
    <2>1. Len(Tail(s)) = Len(s) - 1 /\ Tail(s)[i] = s[i + 1]
        OBVIOUS
    <2>2. CodesOf(Tail(s))[i] = s[i + 1].code
        BY <1>4, <2>1, CodesFacts
    <2>3. Tail(CodesOf(s))[i] = CodesOf(s)[i + 1]
        BY <1>1, <1>2
    <2>4. CodesOf(s)[i + 1] = s[i + 1].code
        BY CodesFacts
    <2> QED
        BY <2>2, <2>3, <2>4
<1>7. CodesOf(Tail(s)) \in Seq(Codes)
    BY <1>4, CodesFacts
<1> QED
    BY <1>2, <1>3, <1>4, <1>5, <1>6, <1>7, SeqEqual

-----------------------------------------------------------------------------
(* The invariant. *)

LEMMA InitInv == Init => Inv
<1> SUFFICES ASSUME Init PROVE Inv
    OBVIOUS
<1>1. TypeOK
    BY EmptySeq DEF Init, TypeOK
<1>2. Len(<<>>) = 0
    BY EmptySeq
<1> QED
    BY <1>1, <1>2 DEF Init, Inv, DownIsEmpty, StartIsClosed, CacheIsLast, Up,
                      ChosenIsDrawn, ClosedIsUnheard, TileFollows, Unheard

LEMMA LocaleOfCode ==
    ASSUME NEW language \in Languages
    PROVE  LocaleOf(language) \in {"th", "en"} /\ LocaleOf(language) \in Codes
BY LanguageConstants DEF LocaleOf

LEMMA TileOfTile == ASSUME NEW code PROVE TileOf(code) \in Languages
BY DEF TileOf, Languages

LEMMA LaunchInv ==
    ASSUME Inv, NEW code \in Codes, Launch(code)
    PROVE  Inv'
<1> DEFINE r == [code |-> code, mounted |-> FALSE, thrown |-> FALSE]
<1>1. /\ sent = <<>> /\ acks = <<>> /\ ~open /\ ~chosen /\ outcome = "none"
      /\ store \in Codes \cup {NULL}
    BY DEF Inv, TypeOK, DownIsEmpty, Launch
<1>2. r \in Request /\ r.code = code /\ ~r.mounted
    BY DEF Request
<1>3. <<>> \in Seq(Request) /\ Unheard(<<>>) /\ Len(<<>>) = 0
    BY EmptySeq DEF Unheard
<1>4. /\ phase' = "starting"
      /\ UNCHANGED <<locale, store, acks, tile, open, chosen>>
      /\ \/ /\ store = NULL /\ cache' = code /\ sent' = Append(sent, r)
            /\ outcome' = "pending"
         \/ store # NULL /\ cache' = store /\ UNCHANGED <<sent, outcome>>
    BY DEF Launch, SetString
<1>5. cache' # NULL /\ cache' \in Codes \cup {NULL}
    BY <1>1, <1>4, LanguageConstants
<1>6. CASE /\ store = NULL /\ cache' = code /\ sent' = Append(sent, r)
           /\ outcome' = "pending"
    <2>1. /\ sent' \in Seq(Request) /\ sent' # <<>>
          /\ LastOf(sent') = r /\ Unheard(sent')
        BY <1>1, <1>2, <1>3, <1>6, AppendFacts
    <2>2. TypeOK'
        BY <1>4, <1>5, <1>6, <2>1 DEF Inv, TypeOK
    <2>3. Len(sent') = 1 /\ Len(acks') = 0
        BY <1>1, <1>2, <1>3, <1>4, <1>6
    <2> QED
        BY <1>1, <1>2, <1>3, <1>4, <1>5, <1>6, <2>1, <2>2, <2>3
           DEF Inv, DownIsEmpty, StartIsClosed, CacheIsLast, ChosenIsDrawn,
               ClosedIsUnheard, TileFollows
<1>7. CASE store # NULL /\ cache' = store /\ UNCHANGED <<sent, outcome>>
    <2>1. TypeOK'
        BY <1>4, <1>5, <1>7 DEF Inv, TypeOK
    <2> QED
        BY <1>1, <1>3, <1>4, <1>5, <1>7, <2>1
           DEF Inv, DownIsEmpty, StartIsClosed, CacheIsLast, ChosenIsDrawn,
               ClosedIsUnheard, TileFollows
<1> QED
    BY <1>4, <1>6, <1>7

LEMMA LaunchFailsInv == ASSUME Inv, LaunchFails PROVE Inv'
<1>1. TypeOK'
    BY DEF Inv, TypeOK, LaunchFails
<1> QED
    BY <1>1 DEF LaunchFails, Inv, DownIsEmpty, StartIsClosed, CacheIsLast, Up,
                ChosenIsDrawn, ClosedIsUnheard, TileFollows

LEMMA RunAppInv == ASSUME Inv, RunApp PROVE Inv'
<1>1. TypeOK'
    BY DEF Inv, TypeOK, RunApp
<1> QED
    BY <1>1 DEF RunApp, Inv, DownIsEmpty, StartIsClosed, CacheIsLast, Up,
                ChosenIsDrawn, ClosedIsUnheard, TileFollows

LEMMA OpenPageInv == ASSUME Inv, OpenPage PROVE Inv'
<1>1. TypeOK'
    BY TileOfTile DEF Inv, TypeOK, OpenPage
<1> QED
    BY <1>1 DEF OpenPage, Inv, DownIsEmpty, StartIsClosed, CacheIsLast, Up,
                ChosenIsDrawn, ClosedIsUnheard, TileFollows

LEMMA ClosePageInv == ASSUME Inv, ClosePage PROVE Inv'
<1>1. sent \in Seq(Request) /\ acks \in Seq(Request)
    BY DEF Inv, TypeOK
<1>2. /\ sent' = Unmount(sent) /\ acks' = Unmount(acks)
      /\ ~open' /\ open' \in BOOLEAN /\ tile' = NULL
      /\ UNCHANGED <<phase, locale, cache, store, chosen, outcome>>
      /\ phase = "running"
    BY DEF ClosePage, Inv, TypeOK, DownIsEmpty, StartIsClosed
<1>3. /\ sent' \in Seq(Request) /\ acks' \in Seq(Request)
      /\ Unheard(sent') /\ Unheard(acks')
      /\ sent = <<>> <=> sent' = <<>>
      /\ sent # <<>> => LastOf(sent').code = LastOf(sent).code
    BY <1>1, <1>2, UnmountFacts
<1>4. TypeOK'
    BY <1>2, <1>3 DEF Inv, TypeOK
<1> QED
    BY <1>2, <1>3, <1>4
       DEF Inv, DownIsEmpty, StartIsClosed, CacheIsLast, Up, ChosenIsDrawn,
           ClosedIsUnheard, TileFollows

LEMMA ChangeLanguageInv ==
    ASSUME Inv, NEW language \in Languages, ChangeLanguage(language)
    PROVE  Inv'
<1> DEFINE code == LocaleOf(language)
           r    == [code |-> code, mounted |-> TRUE, thrown |-> FALSE]
<1>1. code \in {"th", "en"} /\ code \in Codes /\ code # NULL
    BY LocaleOfCode, LanguageConstants
<1>2. r \in Request /\ r.code = code /\ r.mounted
    BY <1>1 DEF Request
<1>3. /\ open /\ locale' = code /\ cache' = code /\ chosen' = TRUE
      /\ outcome' = "pending" /\ sent' = Append(sent, r)
      /\ UNCHANGED <<phase, store, acks, tile, open>>
      /\ phase = "running"
    BY DEF ChangeLanguage, SetString, Inv, TypeOK, DownIsEmpty, StartIsClosed
<1>4. sent' \in Seq(Request) /\ sent' # <<>> /\ LastOf(sent') = r
    BY <1>2, <1>3, AppendFacts DEF Inv, TypeOK
<1>5. TypeOK'
    BY <1>1, <1>3, <1>4 DEF Inv, TypeOK
<1> QED
    BY <1>1, <1>2, <1>3, <1>4, <1>5
       DEF Inv, DownIsEmpty, StartIsClosed, CacheIsLast, Up, ChosenIsDrawn,
           ClosedIsUnheard, TileFollows

(* The answer to a request differs from it in `thrown' only. *)
LEMMA AnswerFacts ==
    ASSUME NEW r \in Request, NEW b \in BOOLEAN
    PROVE  LET a == [r EXCEPT !.thrown = b]
           IN  /\ a \in Request
               /\ a.code = r.code /\ a.mounted = r.mounted /\ a.thrown = b
BY DEF Request

LEMMA PersistInv ==
    ASSUME Inv, NEW result \in Results, Persist(result)
    PROVE  Inv'
<1> DEFINE r == Head(sent)
           a == [r EXCEPT !.thrown = result = "thrown"]
<1>1. /\ sent \in Seq(Request) /\ acks \in Seq(Request) /\ sent # <<>>
      /\ store' = IF result = "stored" THEN r.code ELSE store
      /\ acks' = Append(acks, a) /\ sent' = Tail(sent)
      /\ outcome' = IF r.code = cache THEN result ELSE outcome
      /\ UNCHANGED <<phase, locale, cache, tile, open, chosen>>
      /\ phase \in {"starting", "running"}
    BY DEF Persist, Inv, TypeOK, DownIsEmpty
<1>2. /\ r \in Request /\ sent' \in Seq(Request)
      /\ sent' # <<>> => LastOf(sent') = LastOf(sent)
      /\ sent' = <<>> => LastOf(sent) = r
      /\ Unheard(sent) => Unheard(sent') /\ ~r.mounted
    BY <1>1, TailFacts
<1>a. /\ a \in Request /\ a.code = r.code /\ a.mounted = r.mounted
      /\ a.thrown = (result = "thrown")
    BY <1>2, AnswerFacts
<1> HIDE DEF a
<1>3. /\ acks' \in Seq(Request) /\ acks' # <<>> /\ LastOf(acks') = a
      /\ Unheard(acks) /\ ~r.mounted => Unheard(acks')
    BY <1>1, <1>a, AppendFacts
<1>4. r.code \in Codes
    BY <1>2 DEF Request
<1>5. TypeOK'
    <2>1. store' \in Codes \cup {NULL}
        BY <1>1, <1>4 DEF Inv, TypeOK
    <2>2. outcome' \in Results \cup {"none", "pending"}
        BY <1>1 DEF Inv, TypeOK
    <2> QED
        BY <1>1, <1>2, <1>3, <2>1, <2>2 DEF Inv, TypeOK
<1>6. LastOf(sent).code = cache
    BY <1>1 DEF Inv, CacheIsLast, Up
<1>7. CacheIsLast'
    <2>1. sent' = <<>> => /\ outcome' = result
                          /\ result = "stored" => store' = cache
        BY <1>1, <1>2, <1>6
    <2> QED
        BY <1>1, <1>2, <1>6, <2>1 DEF Inv, CacheIsLast, Up, Results
<1>8. ClosedIsUnheard'
    BY <1>1, <1>2, <1>3 DEF Inv, ClosedIsUnheard
<1>9. TileFollows'
    BY <1>1, <1>2, <1>3, <1>6, <1>a DEF Inv, TileFollows
<1>10. StartIsClosed'
    <2>1. /\ Len(sent') = Len(sent) - 1 /\ Len(acks') = Len(acks) + 1
          /\ Len(sent) \in Nat /\ Len(acks) \in Nat
        BY <1>1, <1>a
    <2> QED
        BY <1>1, <2>1 DEF Inv, StartIsClosed
<1> QED
    BY <1>1, <1>5, <1>7, <1>8, <1>9, <1>10
       DEF Inv, DownIsEmpty, ChosenIsDrawn

LEMMA AcknowledgeInv == ASSUME Inv, Acknowledge PROVE Inv'
<1> DEFINE r == Head(acks)
<1>1. /\ sent \in Seq(Request) /\ acks \in Seq(Request) /\ acks # <<>>
      /\ acks' = Tail(acks)
      /\ tile' = IF r.mounted /\ ~r.thrown THEN TileOf(r.code) ELSE tile
      /\ phase' = IF phase = "starting" /\ r.thrown THEN "failed" ELSE phase
      /\ UNCHANGED <<locale, cache, store, sent, open, chosen, outcome>>
      /\ phase \in {"starting", "running"}
    BY DEF Acknowledge, Inv, TypeOK, DownIsEmpty
<1>2. /\ acks' \in Seq(Request)
      /\ acks' # <<>> => LastOf(acks') = LastOf(acks)
      /\ acks' = <<>> => LastOf(acks) = r
      /\ Unheard(acks) => Unheard(acks') /\ ~r.mounted
    BY <1>1, TailFacts
<1>3. Unheard(<<>>)
    BY EmptySeq DEF Unheard
<1>4. TypeOK'
    <2>1. tile' \in Languages \cup {NULL}
        BY <1>1, TileOfTile DEF Inv, TypeOK
    <2>2. phase' \in {"down", "starting", "running", "failed"}
        BY <1>1 DEF Inv, TypeOK
    <2> QED
        BY <1>1, <1>2, <2>1, <2>2 DEF Inv, TypeOK
<1>5. ClosedIsUnheard'
    BY <1>1, <1>2 DEF Inv, ClosedIsUnheard
<1>6. TileFollows'
    BY <1>1, <1>2, <1>3 DEF Inv, TileFollows
<1>7. /\ Len(acks') = Len(acks) - 1 /\ Len(acks) \in Nat \ {0}
      /\ Len(sent) \in Nat /\ Len(acks') \in Nat
    BY <1>1, <1>2
<1>8. phase = "starting" => /\ sent = <<>> /\ acks' = <<>>
                            /\ Len(sent) + Len(acks') <= 1
    <2>1. phase = "starting" => Len(sent) = 0 /\ Len(acks') = 0
        BY <1>7 DEF Inv, StartIsClosed
    <2> QED
        BY <1>1, <1>2, <2>1, EmptySeq
<1>9. StartIsClosed'
    BY <1>1, <1>8 DEF Inv, StartIsClosed
<1>10. DownIsEmpty'
    BY <1>1, <1>8 DEF Inv, DownIsEmpty, StartIsClosed
<1> QED
    BY <1>1, <1>4, <1>5, <1>6, <1>9, <1>10
       DEF Inv, ChosenIsDrawn, CacheIsLast, Up

LEMMA KillInv == ASSUME Inv, Kill PROVE Inv'
<1>1. <<>> \in Seq(Request) /\ Unheard(<<>>)
    BY EmptySeq DEF Unheard
<1>2. TypeOK'
    BY <1>1 DEF Kill, Inv, TypeOK
<1> QED
    BY <1>1, <1>2 DEF Kill, Inv, DownIsEmpty, StartIsClosed, CacheIsLast, Up,
                      ChosenIsDrawn, ClosedIsUnheard, TileFollows

LEMMA NextInv == ASSUME Inv, [Next]_vars PROVE Inv'
<1>1. CASE UNCHANGED vars
    BY <1>1 DEF vars, Inv, TypeOK, DownIsEmpty, StartIsClosed, CacheIsLast, Up,
                ChosenIsDrawn, ClosedIsUnheard, TileFollows
<1>2. CASE Next
    BY <1>2, LaunchInv, LaunchFailsInv, RunAppInv, OpenPageInv, ClosePageInv,
       ChangeLanguageInv, PersistInv, AcknowledgeInv, KillInv DEF Next
<1> QED
    BY <1>1, <1>2

(* The inductive invariant holds in every reachable state. *)
THEOREM Invariance == Spec => []Inv
<1> QED
    BY InitInv, NextInv, PTL DEF Spec

(* All variables of main(), the provider and the page keep their types. *)
THEOREM TypeCorrect == Spec => []TypeOK
<1>1. Inv => TypeOK
    BY DEF Inv
<1> QED
    BY <1>1, Invariance, PTL

(***************************************************************************)
(* Once a language was picked and nothing is under way, the locale and the *)
(* cached code agree, and so do the stored code and the selected tile      *)
(* unless storing the last choice failed, for any number of taps, answers  *)
(* and failures that were under way before.                                *)
(***************************************************************************)
THEOREM CopiesAgree == Spec => []SettledAgree
<1>1. ASSUME Inv PROVE SettledAgree
    <2> SUFFICES ASSUME Settled
                 PROVE  /\ cache = locale
                        /\ store = locale \/ outcome \in {"refused", "thrown"}
                        /\ open => tile = TileOf(locale) \/ outcome = "thrown"
        BY DEF SettledAgree
    <2>1. cache = locale
        BY <1>1 DEF Inv, Settled, ChosenIsDrawn
    <2>2. outcome \in {"none", "stored", "refused", "thrown"}
        BY <1>1 DEF Inv, TypeOK, Results, Settled, CacheIsLast, Up
    <2>3. outcome \in {"none", "stored"} => store = cache
        BY <1>1 DEF Inv, Settled, CacheIsLast, Up
    <2>4. open => tile = TileOf(cache) \/ outcome = "thrown"
        BY <1>1 DEF Inv, Settled, TileFollows
    <2> QED
        BY <2>1, <2>2, <2>3, <2>4
<1> QED
    BY <1>1, Invariance, PTL

-----------------------------------------------------------------------------
(* The preferences implement WriteBehind. *)

RegisterVars == <<Up, IF Up THEN cache ELSE NULL, store, CodesOf(sent)>>

LEMMA CodesOfEmpty == CodesOf(<<>>) = <<>>
<1>1. <<>> \in Seq(Request)
    BY EmptySeq
<1>2. CodesOf(<<>>) \in Seq(Codes) /\ Len(CodesOf(<<>>)) = Len(<<>>)
    BY <1>1, CodesFacts
<1> QED
    BY <1>2, EmptySeq

LEMMA LaunchStarts ==
    ASSUME Inv, NEW code \in Codes, Launch(code)
    PROVE  Register!Start(code)
<1> DEFINE r == [code |-> code, mounted |-> FALSE, thrown |-> FALSE]
<1>1. /\ phase = "down" /\ phase' = "starting" /\ UNCHANGED store
      /\ sent = <<>>
      /\ \/ store = NULL /\ cache' = code /\ sent' = Append(sent, r)
         \/ store # NULL /\ cache' = store /\ sent' = <<>>
    BY DEF Launch, SetString, Inv, DownIsEmpty
<1>2. r \in Request /\ r.code = code
    BY DEF Request
<1>3. CodesOf(Append(sent, r)) = <<code>>
    <2>1. sent \in Seq(Request) /\ CodesOf(sent) = <<>>
        BY <1>1, CodesOfEmpty, EmptySeq
    <2>2. CodesOf(Append(sent, r)) = Append(CodesOf(sent), r.code)
        BY <1>2, <2>1, CodesOfAppend
    <2>3. Append(<<>>, code) = <<code>>
        OBVIOUS
    <2> QED
        BY <1>2, <2>1, <2>2, <2>3
<1>4. \/ store = NULL /\ CodesOf(sent)' = <<code>>
      \/ store # NULL /\ CodesOf(sent)' = <<>>
    BY <1>1, <1>3, CodesOfEmpty
<1> QED
    BY <1>1, <1>4 DEF Register!Start, Up

LEMMA ChangeWrites ==
    ASSUME Inv, NEW language \in Languages, ChangeLanguage(language)
    PROVE  \E code \in Codes : Register!Write(code)
<1> DEFINE code == LocaleOf(language)
           r    == [code |-> code, mounted |-> TRUE, thrown |-> FALSE]
<1>1. code \in Codes
    BY LocaleOfCode
<1>2. r \in Request /\ r.code = code
    BY <1>1 DEF Request
<1>3. /\ phase = "running" /\ UNCHANGED <<phase, store>> /\ cache' = code
      /\ sent \in Seq(Request) /\ sent' = Append(sent, r)
    BY DEF ChangeLanguage, SetString, Inv, TypeOK, DownIsEmpty, StartIsClosed
<1>4. CodesOf(sent') = Append(CodesOf(sent), code)
    BY <1>2, <1>3, CodesOfAppend
<1> QED
    BY <1>1, <1>3, <1>4 DEF Register!Write, Up

LEMMA PersistFlushes ==
    ASSUME Inv, NEW result \in Results, Persist(result)
    PROVE  Register!Flush \/ Register!Refuse
<1>1. /\ sent \in Seq(Request) /\ sent # <<>> /\ sent' = Tail(sent)
      /\ store' = IF result = "stored" THEN Head(sent).code ELSE store
      /\ UNCHANGED <<phase, cache>>
    BY DEF Persist, Inv, TypeOK
<1>2. /\ CodesOf(sent) # <<>>
      /\ Head(CodesOf(sent)) = Head(sent).code
      /\ CodesOf(sent') = Tail(CodesOf(sent))
    BY <1>1, CodesOfTail
<1> QED
    BY <1>1, <1>2 DEF Register!Flush, Register!Refuse, Up

(* A main() that fails after its setString stops the register. *)
LEMMA AcknowledgeStops ==
    ASSUME Inv, Acknowledge
    PROVE  Register!Stop \/ UNCHANGED RegisterVars
<1>1. CASE phase = "starting" /\ Head(acks).thrown
    <2>1. /\ sent \in Seq(Request) /\ acks \in Seq(Request) /\ acks # <<>>
          /\ UNCHANGED <<sent, store>> /\ phase' = "failed"
        BY <1>1 DEF Inv, TypeOK, Acknowledge
    <2>2. Len(sent) \in Nat /\ Len(acks) \in Nat \ {0}
        BY <2>1
    <2>3. Len(sent) = 0
        BY <1>1, <2>2 DEF Inv, StartIsClosed
    <2>4. CodesOf(sent') = <<>>
        BY <2>1, <2>3, EmptySeq, CodesOfEmpty
    <2> QED
        BY <1>1, <2>1, <2>4 DEF Register!Stop, Up
<1>2. CASE ~(phase = "starting" /\ Head(acks).thrown)
    BY <1>2 DEF Acknowledge, RegisterVars, Up
<1> QED
    BY <1>1, <1>2

(* A process that runs is stopped; one whose main() failed has stopped. *)
LEMMA KillStops ==
    ASSUME Inv, Kill
    PROVE  Register!Stop \/ UNCHANGED RegisterVars
<1>1. CodesOf(sent') = <<>>
    BY CodesOfEmpty DEF Kill
<1>2. CASE phase = "failed"
    <2>1. CodesOf(sent) = <<>>
        BY <1>2, CodesOfEmpty DEF Inv, DownIsEmpty
    <2> QED
        BY <1>1, <1>2, <2>1 DEF Kill, RegisterVars, Up
<1>3. CASE phase \in {"starting", "running"}
    BY <1>1, <1>3 DEF Kill, Register!Stop, Up
<1> QED
    BY <1>2, <1>3 DEF Kill, Inv, TypeOK

LEMMA RegisterStep ==
    ASSUME Inv, [Next]_vars
    PROVE  [Register!Next]_RegisterVars
<1>1. ASSUME NEW code \in Codes, Launch(code)
      PROVE  Register!Next
    BY <1>1, LaunchStarts DEF Register!Next
<1>2. ASSUME NEW language \in Languages, ChangeLanguage(language)
      PROVE  Register!Next
    BY <1>2, ChangeWrites DEF Register!Next
<1>3. ASSUME NEW result \in Results, Persist(result)
      PROVE  Register!Next
    BY <1>3, PersistFlushes DEF Register!Next
<1>4. CASE Kill \/ Acknowledge
    BY <1>4, KillStops, AcknowledgeStops DEF Register!Next
<1>5. CASE ClosePage
    <2>1. sent \in Seq(Request) /\ sent' = Unmount(sent)
        BY <1>5 DEF ClosePage, Inv, TypeOK
    <2>2. CodesOf(sent') = CodesOf(sent)
        BY <2>1, UnmountFacts
    <2> QED
        BY <1>5, <2>2 DEF ClosePage, RegisterVars, Up
<1>6. CASE LaunchFails \/ RunApp \/ OpenPage
    BY <1>6 DEF LaunchFails, RunApp, OpenPage, RegisterVars, Up
<1>7. CASE UNCHANGED vars
    BY <1>7 DEF vars, RegisterVars, Up
<1> QED
    BY <1>1, <1>2, <1>3, <1>4, <1>5, <1>6, <1>7 DEF Next

(***************************************************************************)
(* The preferences under main(), the language page and kills at any step   *)
(* implement a register written behind its user: in particular the default *)
(* never replaces a language that was stored.                              *)
(***************************************************************************)
THEOREM PreferencesImplementRegister == Spec => IsWriteBehind
<1>1. Init => Register!Init
    BY CodesOfEmpty DEF Init, Register!Init, Up
<1>2. Inv /\ [Next]_vars => [Register!Next]_RegisterVars
    BY RegisterStep
<1> QED
    BY <1>1, <1>2, Invariance, PTL
       DEF Spec, IsWriteBehind, Register!Spec, RegisterVars

=============================================================================
