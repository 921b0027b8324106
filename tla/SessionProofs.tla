---------------------------- MODULE SessionProofs ----------------------------
(***************************************************************************)
(* Signing in and out keeps its properties for any accounts, any height of *)
(* the stack and any number of requests, fetches and changes under way.    *)
(* What holds once everything has settled must be known before: the last   *)
(* change on the stream is the current user; a request whose page is open  *)
(* finds that page where it left it; until a handler has raced, only the   *)
(* settings page can lie under another page of the session; and as long as *)
(* such a page is there after a sign-out, or a settings page shows another *)
(* user's profile, a request that was carried out or a fetch is still      *)
(* under way, which will replace the page or the profile.                  *)
(***************************************************************************)
EXTENDS Session, SequenceTheorems, FiniteSetTheorems, TLAPS

SessionPages == {"home", "settings", "inner"}

(* The root page is at the bottom. *)
RootFirst == \A i \in 1 .. Len(stack) : stack[i] = "root" => i = 1

(* The stream of users ends with the current one. *)
RootListens ==
    /\ ~Has("root") => events = <<>>
    /\ Has("root") /\ events = <<>> =>
          rootView = IF user = NULL THEN "login" ELSE "home"
    /\ events # <<>> => events[Len(events)] = user

OwnPage(r) == IF r.user = NULL THEN "settings" ELSE "sheet"

(* A handler whose page is open finds it where it was. *)
RequestsOwnPage ==
    \A r \in requests : r.at = "open" =>
        r.pos \in 1 .. Len(stack) /\ stack[r.pos] = OwnPage(r)

(* Below the top there are only the root, login pages, and the settings    *)
(* page if one of its inner pages is on top.                               *)
PlainBelow ==
    ~raced => \A i \in 1 .. Len(stack) : i < Len(stack) =>
        \/ stack[i] \in {"root", "login"}
        \/ /\ stack[i] = "settings" /\ stack[Len(stack)] = "inner"
           /\ i = Len(stack) - 1

SomeDone == \E r \in requests : r.done = TRUE

(* After a sign-out the pages of the session have gone or are about to. *)
SessionEnds ==
    ~raced /\ user = NULL /\ ~SomeDone =>
        \A i \in 1 .. Len(stack) : stack[i] \notin SessionPages

(* The settings page has the user's profile, or will have it or go. *)
ProfileFollows ==
    ~raced /\ ~crossed /\ user # NULL /\ Has("settings") =>
        provider = user \/ fetches # {} \/ SomeDone

Inv ==
    /\ TypeOK
    /\ stack # <<>>
    /\ IsFiniteSet(requests)
    /\ IsFiniteSet(fetches)
    /\ SheetOnTop
    /\ RootFirst
    /\ RootListens
    /\ RequestsOwnPage
    /\ PlainBelow
    /\ SessionEnds
    /\ ProfileFollows

-----------------------------------------------------------------------------
(* Sequences. *)

LEMMA AppendFacts ==
    ASSUME NEW T, NEW s \in Seq(T), NEW x \in T
    PROVE  /\ Append(s, x) \in Seq(T)
           /\ Append(s, x) # <<>>
           /\ Len(s) \in Nat
           /\ Len(Append(s, x)) = Len(s) + 1
           /\ \A i \in 1 .. Len(s) : Append(s, x)[i] = s[i]
           /\ Append(s, x)[Len(s) + 1] = x
OBVIOUS

LEMMA NotEmpty ==
    ASSUME NEW T, NEW s \in Seq(T), s # <<>>
    PROVE  /\ Len(s) \in Nat \ {0}
           /\ Len(s) \in 1 .. Len(s)
           /\ 1 \in 1 .. Len(s)
           /\ \A i \in 1 .. Len(s) : s[i] \in T
<1>1. Len(s) \in Nat \ {0}
    BY EmptySeq
<1> QED
    BY <1>1, ElementOfSeq

LEMMA TailFacts ==
    ASSUME NEW T, NEW s \in Seq(T), s # <<>>
    PROVE  /\ Head(s) \in T
           /\ Tail(s) \in Seq(T)
           /\ Tail(s) = <<>> => s[Len(s)] = Head(s)
           /\ Tail(s) # <<>> => Tail(s)[Len(Tail(s))] = s[Len(s)]
<1>1. /\ Head(s) \in T /\ Tail(s) \in Seq(T) /\ Len(Tail(s)) = Len(s) - 1
      /\ \A i \in 1 .. Len(Tail(s)) : Tail(s)[i] = s[i + 1]
      /\ Len(s) \in Nat \ {0}
    BY HeadTailProperties, NotEmpty
<1>2. Head(s) = s[1]
    OBVIOUS
<1>3. Tail(s) = <<>> => s[Len(s)] = Head(s)
    <2>1. Tail(s) = <<>> => Len(s) = 1
        BY <1>1, EmptySeq
    <2> QED
        BY <1>2, <2>1
<1>4. Tail(s) # <<>> => Tail(s)[Len(Tail(s))] = s[Len(s)]
    <2>1. Tail(s) # <<>> => Len(Tail(s)) \in 1 .. Len(Tail(s))
        BY <1>1, NotEmpty
    <2>2. Len(Tail(s)) + 1 = Len(s)
        BY <1>1
    <2> QED
        BY <1>1, <2>1, <2>2
<1> QED
    BY <1>1, <1>3, <1>4

LEMMA PopFacts ==
    ASSUME NEW T, NEW s \in Seq(T), s # <<>>
    PROVE  /\ Pop(s) \in Seq(T)
           /\ Len(Pop(s)) = Len(s) - 1
           /\ \A i \in 1 .. Len(s) - 1 : Pop(s)[i] = s[i]
<1>1. Len(s) \in Nat \ {0} /\ \A i \in 1 .. Len(s) : s[i] \in T
    BY NotEmpty
<1> DEFINE n == Len(s) - 1
<1>2. n \in Nat /\ \A i \in 1 .. n : s[i] \in T
    BY <1>1
<1>3. Pop(s) = SubSeq(s, 1, n)
    BY DEF Pop
<1> HIDE DEF n
<1>4. /\ SubSeq(s, 1, n) \in Seq(T)
      /\ Len(SubSeq(s, 1, n)) = IF 1 <= n THEN n - 1 + 1 ELSE 0
      /\ \A i \in 1 .. n - 1 + 1 : SubSeq(s, 1, n)[i] = s[1 + i - 1]
    BY <1>2, SubSeqProperties
<1>5. /\ Len(SubSeq(s, 1, n)) = n
      /\ \A i \in 1 .. n : SubSeq(s, 1, n)[i] = s[i]
    BY <1>2, <1>4
<1> QED
    BY <1>3, <1>4, <1>5 DEF n

(* pushReplacement keeps the height, and every page but the top one. *)
LEMMA ReplacementFacts ==
    ASSUME NEW T, NEW s \in Seq(T), s # <<>>, NEW x \in T
    PROVE  /\ PushReplacement(s, x) \in Seq(T)
           /\ PushReplacement(s, x) # <<>>
           /\ Len(PushReplacement(s, x)) = Len(s)
           /\ \A i \in 1 .. Len(s) : i < Len(s) =>
                 PushReplacement(s, x)[i] = s[i]
           /\ PushReplacement(s, x)[Len(s)] = x
<1> DEFINE p == Pop(s)
<1>1. /\ p \in Seq(T) /\ Len(p) = Len(s) - 1
      /\ \A i \in 1 .. Len(s) - 1 : p[i] = s[i]
    BY PopFacts
<1>2. Len(s) \in Nat \ {0}
    BY NotEmpty
<1>3. PushReplacement(s, x) = Append(p, x)
    BY DEF PushReplacement
<1> HIDE DEF p
<1>4. /\ Append(p, x) \in Seq(T) /\ Append(p, x) # <<>>
      /\ Len(Append(p, x)) = Len(p) + 1
      /\ \A i \in 1 .. Len(p) : Append(p, x)[i] = p[i]
      /\ Append(p, x)[Len(p) + 1] = x
    BY <1>1, AppendFacts
<1>5. Len(p) + 1 = Len(s)
    BY <1>1, <1>2
<1>6. \A i \in 1 .. Len(s) : i < Len(s) => i \in 1 .. Len(s) - 1
    BY <1>2
<1> QED
    BY <1>1, <1>3, <1>4, <1>5, <1>6

-----------------------------------------------------------------------------
(* Identities of requests and fetches. *)

LEMMA ImageFinite ==
    ASSUME NEW A, IsFiniteSet(A), NEW B, NEW f \in [A -> B]
    PROVE  /\ IsFiniteSet({f[x] : x \in A})
           /\ Cardinality({f[x] : x \in A}) <= Cardinality(A)
<1> DEFINE T == {f[x] : x \in A}
<1>1. f \in [A -> T]
    OBVIOUS
<1>2. \A t \in T : \E x \in A : f[x] = t
    OBVIOUS
<1>3. f \in Surjection(A, T)
    BY <1>1, <1>2 DEF Surjection
<1> QED
    BY <1>3, FS_Surjection

(* Below the bound there is a free identity. *)
LEMMA NewIdExists ==
    ASSUME NEW A, IsFiniteSet(A), NEW bound \in Nat, Cardinality(A) < bound,
           \A x \in A : x.id \in Nat
    PROVE  NewId(A, bound) \in Nat /\ \A x \in A : x.id # NewId(A, bound)
<1> DEFINE f == [x \in A |-> x.id]
           I == {f[x] : x \in A}
<1>1. f \in [A -> Nat]
    OBVIOUS
<1>2. IsFiniteSet(I) /\ Cardinality(I) <= Cardinality(A)
    <2> HIDE DEF f
    <2> QED
        BY <1>1, ImageFinite
<1>3. \A n : n \notin I => \A x \in A : x.id # n
    OBVIOUS
<1> HIDE DEF f, I
<1>4. Cardinality(A) \in Nat /\ Cardinality(I) \in Nat
    BY <1>2, FS_CardinalityType
<1>5. Cardinality(1 .. bound) = bound
    <2>1. 1 \in Int /\ bound \in Int /\ (1 > bound => bound = 0)
        OBVIOUS
    <2>2. Cardinality(1 .. bound) = IF 1 > bound THEN 0 ELSE bound - 1 + 1
        BY <2>1, FS_Interval
    <2> QED
        BY <2>1, <2>2
<1>6. ~(1 .. bound \subseteq I)
    <2> DEFINE a == Cardinality(A)
               c == Cardinality(I)
    <2>1. a \in Nat /\ c \in Nat /\ c <= a /\ a < bound
        BY <1>2, <1>4
    <2> HIDE DEF a, c
    <2>2. ~(bound <= c)
        BY <2>1
    <2> HIDE DEF a
    <2>3. 1 .. bound \subseteq I => Cardinality(1 .. bound) <= c
        BY <1>2, FS_Subset DEF c
    <2> QED
        BY <1>5, <2>2, <2>3
<1>7. \E n \in 1 .. bound : \A x \in A : x.id # n
    BY <1>3, <1>6
<1>8. /\ NewId(A, bound) \in 1 .. bound
      /\ \A x \in A : x.id # NewId(A, bound)
    BY <1>7 DEF NewId
<1> QED
    BY <1>8

-----------------------------------------------------------------------------
(* The requests under way, as pages leave. *)

LEMMA RequestFields ==
    ASSUME NEW r \in Request
    PROVE  /\ r.id \in Nat /\ r.user \in Users \cup {NULL}
           /\ r.pos \in Nat /\ r.at \in {"open", "leaving", "gone"}
           /\ r.done \in BOOLEAN
BY DEF Request

LEMMA LeavingFacts ==
    ASSUME NEW rs \in SUBSET Request, IsFiniteSet(rs)
    PROVE  /\ Leaving(rs) \subseteq Request
           /\ IsFiniteSet(Leaving(rs))
           /\ \A t \in Leaving(rs) : t.at = "open" =>
                 t \in rs /\ t.pos # Len(stack)
           /\ \A r \in rs : r.done = TRUE =>
                 \E t \in Leaving(rs) : t.done = TRUE
<1> DEFINE F(r) == IF r.pos = Len(stack) /\ r.at = "open"
                   THEN [r EXCEPT !.at = "leaving"] ELSE r
           f == [r \in rs |-> F(r)]
<1>1. ASSUME NEW r \in rs
      PROVE  /\ F(r) \in Request /\ F(r).done = r.done
             /\ F(r).at = "open" => F(r) = r /\ r.pos # Len(stack)
    <2>1. r \in Request
        OBVIOUS
    <2>2. CASE r.pos = Len(stack) /\ r.at = "open"
        <3>1. F(r) = [r EXCEPT !.at = "leaving"]
            BY <2>2
        <3> QED
            BY <2>1, <3>1 DEF Request
    <2>3. CASE ~(r.pos = Len(stack) /\ r.at = "open")
        <3>1. F(r) = r
            BY <2>3
        <3> QED
            BY <2>1, <2>3, <3>1
    <2> QED
        BY <2>2, <2>3
<1>2. Leaving(rs) = {F(r) : r \in rs}
    BY DEF Leaving
<1>3. f \in [rs -> Request] /\ Leaving(rs) = {f[r] : r \in rs}
    BY <1>1, <1>2
<1>4. IsFiniteSet(Leaving(rs))
    <2>1. f \in [rs -> Request]
        BY <1>3
    <2> HIDE DEF f
    <2>2. IsFiniteSet({f[r] : r \in rs})
        BY <2>1, ImageFinite
    <2> QED
        BY <1>3, <2>2
<1> HIDE DEF F, f
<1> QED
    BY <1>1, <1>2, <1>4

Forgotten(rs) ==
    {[r EXCEPT !.at = IF @ = "leaving" THEN "gone" ELSE @] : r \in rs}

(* A finished transition opens no page and undoes no request. *)
LEMMA ForgottenFacts ==
    ASSUME NEW rs \in SUBSET Request, IsFiniteSet(rs)
    PROVE  /\ Forgotten(rs) \subseteq Request
           /\ IsFiniteSet(Forgotten(rs))
           /\ \A t \in Forgotten(rs) : t.at = "open" => t \in rs
           /\ \A r \in rs : r.done = TRUE =>
                 \E t \in Forgotten(rs) : t.done = TRUE
<1> DEFINE F(r) == [r EXCEPT !.at = IF r.at = "leaving" THEN "gone" ELSE r.at]
           f == [r \in rs |-> F(r)]
<1>1. ASSUME NEW r \in rs
      PROVE  /\ F(r) \in Request /\ F(r).done = r.done
             /\ F(r).at = "open" => F(r) = r
    <2>1. r \in Request
        OBVIOUS
    <2>2. CASE r.at = "leaving"
        <3>1. F(r) = [r EXCEPT !.at = "gone"]
            BY <2>2
        <3> QED
            BY <2>1, <3>1 DEF Request
    <2>3. CASE r.at # "leaving"
        <3>1. F(r) = r
            BY <2>1, <2>3 DEF Request
        <3> QED
            BY <2>1, <3>1
    <2> QED
        BY <2>2, <2>3
<1>2. Forgotten(rs) = {F(r) : r \in rs}
    BY DEF Forgotten
<1>3. f \in [rs -> Request] /\ Forgotten(rs) = {f[r] : r \in rs}
    BY <1>1, <1>2
<1>4. IsFiniteSet(Forgotten(rs))
    <2>1. f \in [rs -> Request]
        BY <1>3
    <2> HIDE DEF f
    <2>2. IsFiniteSet({f[r] : r \in rs})
        BY <2>1, ImageFinite
    <2> QED
        BY <1>3, <2>2
<1> HIDE DEF F, f
<1> QED
    BY <1>1, <1>2, <1>4

-----------------------------------------------------------------------------
(* The stack. *)

LEMMA StackNow ==
    ASSUME Inv
    PROVE  /\ stack \in Seq(Pages) /\ stack # <<>>
           /\ Len(stack) \in Nat \ {0}
           /\ Len(stack) \in 1 .. Len(stack)
           /\ \A i \in 1 .. Len(stack) : stack[i] \in Pages
           /\ \A page : On(page) <=> stack[Len(stack)] = page
<1>1. stack \in Seq(Pages) /\ stack # <<>>
    BY DEF Inv, TypeOK
<1>2. \A page : On(page) <=> stack[Len(stack)] = page
    BY <1>1 DEF On, Top
<1> QED
    BY <1>1, <1>2, NotEmpty

LEMMA SameStack ==
    ASSUME stack' = stack
    PROVE  /\ SheetOnTop => SheetOnTop'
           /\ RootFirst => RootFirst'
           /\ PlainBelow /\ raced' = raced => PlainBelow'
           /\ \A page : Has(page)' <=> Has(page)
BY DEF SheetOnTop, RootFirst, PlainBelow, Has

(* Steps that leave the stream, the session and the root alone. *)
LEMMA SameStream ==
    ASSUME RootListens, \A page : Has(page)' <=> Has(page),
           events' = events, user' = user, rootView' = rootView
    PROVE  RootListens'
BY DEF RootListens

LEMMA InitInv == Init => Inv
<1> SUFFICES ASSUME Init PROVE Inv
    OBVIOUS
<1>1. /\ stack = <<"root">> /\ rootView = "spinner"
      /\ user \in Users \cup {NULL} /\ events = <<user>>
      /\ requests = {} /\ error = FALSE /\ provider = NULL
      /\ fetches = {} /\ raced = FALSE /\ crossed = FALSE
    BY DEF Init
<1>2. /\ stack \in Seq(Pages) /\ stack # <<>> /\ Len(stack) = 1
      /\ stack[1] = "root"
    BY <1>1 DEF Pages
<1>3. /\ events \in Seq(Users \cup {NULL}) /\ events # <<>>
      /\ Len(events) = 1 /\ events[1] = user
    BY <1>1
<1>4. TypeOK
    BY <1>1, <1>2, <1>3 DEF TypeOK
<1>5. \A i \in 1 .. Len(stack) : i = 1 /\ ~(i < Len(stack))
    BY <1>2
<1>6. SheetOnTop /\ RootFirst /\ PlainBelow
    BY <1>2, <1>5 DEF SheetOnTop, RootFirst, PlainBelow
<1>7. 1 \in 1 .. Len(stack)
    BY <1>2
<1>8. Has("root") /\ ~Has("settings")
    BY <1>2, <1>5, <1>7 DEF Has
<1>9. RootListens
    BY <1>3, <1>8 DEF RootListens
<1>10. RequestsOwnPage
    BY <1>1 DEF RequestsOwnPage
<1>11. SessionEnds
    BY <1>2, <1>5 DEF SessionEnds, SessionPages
<1>12. ProfileFollows
    BY <1>8 DEF ProfileFollows
<1>13. IsFiniteSet(requests) /\ IsFiniteSet(fetches)
    BY <1>1, FS_EmptySet
<1> QED
    BY <1>2, <1>4, <1>6, <1>9, <1>10, <1>11, <1>12, <1>13 DEF Inv

LEMMA RootEventInv ==
    ASSUME Inv, RootEvent
    PROVE  Inv'
<1>1. /\ events # <<>> /\ events' = Tail(events)
      /\ rootView' = IF Head(events) # NULL THEN "home" ELSE "login"
      /\ stack' = stack /\ user' = user /\ requests' = requests
      /\ error' = error /\ provider' = provider /\ fetches' = fetches
      /\ raced' = raced /\ crossed' = crossed
    BY DEF RootEvent
<1>2. TypeOK /\ RootListens
    BY DEF Inv
<1>3. events \in Seq(Users \cup {NULL})
    BY <1>2 DEF TypeOK
<1>4. /\ events' \in Seq(Users \cup {NULL})
      /\ events' = <<>> => events[Len(events)] = Head(events)
      /\ events' # <<>> => events'[Len(events')] = events[Len(events)]
    BY <1>1, <1>3, TailFacts
<1>5. TypeOK'
    BY <1>1, <1>2, <1>4 DEF TypeOK
<1>6. Has("root") /\ events[Len(events)] = user
    BY <1>1, <1>2 DEF RootListens
<1>7. \A page : Has(page)' <=> Has(page)
    BY <1>1, SameStack
<1>8. RootListens'
    BY <1>1, <1>4, <1>6, <1>7 DEF RootListens
<1>9. SheetOnTop' /\ RootFirst' /\ PlainBelow'
    BY <1>1, SameStack DEF Inv
<1>10. RequestsOwnPage'
    BY <1>1 DEF Inv, RequestsOwnPage, OwnPage
<1>11. SessionEnds' /\ ProfileFollows'
    BY <1>1, <1>7 DEF Inv, SessionEnds, ProfileFollows, SomeDone
<1> QED
    BY <1>1, <1>5, <1>8, <1>9, <1>10, <1>11 DEF Inv

(* The new stream starts with the current user. *)
LEMMA ChangeLocaleInv ==
    ASSUME Inv, ChangeLocale
    PROVE  Inv'
<1>1. /\ Has("root") /\ rootView' = "spinner" /\ events' = <<user>>
      /\ stack' = stack /\ user' = user /\ requests' = requests
      /\ error' = error /\ provider' = provider /\ fetches' = fetches
      /\ raced' = raced /\ crossed' = crossed
    BY DEF ChangeLocale
<1>2. TypeOK /\ user \in Users \cup {NULL}
    BY DEF Inv, TypeOK
<1>3. /\ events' \in Seq(Users \cup {NULL}) /\ events' # <<>>
      /\ Len(events') = 1 /\ events'[1] = user
    BY <1>1, <1>2
<1>4. TypeOK'
    BY <1>1, <1>2, <1>3 DEF TypeOK
<1>5. \A page : Has(page)' <=> Has(page)
    BY <1>1, SameStack
<1>6. RootListens'
    BY <1>1, <1>3, <1>5 DEF RootListens
<1>7. SheetOnTop' /\ RootFirst' /\ PlainBelow'
    BY <1>1, SameStack DEF Inv
<1>8. RequestsOwnPage'
    BY <1>1 DEF Inv, RequestsOwnPage, OwnPage
<1>9. SessionEnds' /\ ProfileFollows'
    BY <1>1, <1>5 DEF Inv, SessionEnds, ProfileFollows, SomeDone
<1> QED
    BY <1>1, <1>4, <1>6, <1>7, <1>8, <1>9 DEF Inv

(* A page pushed on top leaves everything below as it was. *)
LEMMA PushFacts ==
    ASSUME Inv, NEW page \in {"sheet", "inner"}, stack' = Push(stack, page),
           requests' = requests
    PROVE  /\ stack' \in Seq(Pages) /\ stack' # <<>>
           /\ Len(stack') = Len(stack) + 1
           /\ \A i \in 1 .. Len(stack) : stack'[i] = stack[i]
           /\ stack'[Len(stack) + 1] = page
           /\ \A i \in 1 .. Len(stack') :
                 i \in 1 .. Len(stack) \/ i = Len(stack) + 1
           /\ \A x : x # page => (Has(x)' <=> Has(x))
           /\ RootFirst'
           /\ RequestsOwnPage'
<1>1. page \in Pages
    BY DEF Pages
<1>2. Len(stack) \in Nat \ {0} /\ stack \in Seq(Pages)
    BY StackNow
<1>3. /\ stack' \in Seq(Pages) /\ stack' # <<>>
      /\ Len(stack') = Len(stack) + 1
      /\ \A i \in 1 .. Len(stack) : stack'[i] = stack[i]
      /\ stack'[Len(stack) + 1] = page
    BY <1>1, <1>2, AppendFacts DEF Push
<1>4. /\ \A i \in 1 .. Len(stack') :
             i \in 1 .. Len(stack) \/ i = Len(stack) + 1
      /\ \A i \in 1 .. Len(stack) : i \in 1 .. Len(stack')
    BY <1>2, <1>3
<1>5. \A x : x # page => (Has(x)' <=> Has(x))
    BY <1>3, <1>4 DEF Has
<1>6. RootFirst'
    BY <1>3, <1>4 DEF Inv, RootFirst
<1>7. RequestsOwnPage'
    <2> SUFFICES ASSUME NEW r \in requests, r.at = "open"
                 PROVE  r.pos \in 1 .. Len(stack')
                        /\ stack'[r.pos] = OwnPage(r)
        BY DEF RequestsOwnPage, OwnPage
    <2>1. r.pos \in 1 .. Len(stack) /\ stack[r.pos] = OwnPage(r)
        BY DEF Inv, RequestsOwnPage
    <2> QED
        BY <1>3, <1>4, <2>1
<1> QED
    BY <1>3, <1>4, <1>5, <1>6, <1>7

LEMMA OpenSheetInv ==
    ASSUME Inv, OpenSheet
    PROVE  Inv'
<1>1. /\ Shows("login") /\ stack' = Push(stack, "sheet") /\ error' = FALSE
      /\ rootView' = rootView /\ user' = user /\ events' = events
      /\ requests' = requests /\ provider' = provider /\ fetches' = fetches
      /\ raced' = raced /\ crossed' = crossed
    BY DEF OpenSheet
<1>2. /\ stack' \in Seq(Pages) /\ stack' # <<>>
      /\ Len(stack') = Len(stack) + 1
      /\ \A i \in 1 .. Len(stack) : stack'[i] = stack[i]
      /\ stack'[Len(stack) + 1] = "sheet"
      /\ \A i \in 1 .. Len(stack') :
             i \in 1 .. Len(stack) \/ i = Len(stack) + 1
      /\ \A x : x # "sheet" => (Has(x)' <=> Has(x))
      /\ RootFirst' /\ RequestsOwnPage'
    BY <1>1, PushFacts
<1>3. stack[Len(stack)] \in {"root", "login"}
    BY <1>1, StackNow DEF Shows
<1>4. Len(stack) \in Nat \ {0}
    BY StackNow
<1>5. TypeOK'
    BY <1>1, <1>2 DEF Inv, TypeOK
<1>6. SheetOnTop'
    BY <1>2, <1>3 DEF Inv, SheetOnTop
<1>7. RootListens'
    BY <1>1, <1>2 DEF Inv, RootListens
<1>8. PlainBelow'
    <2> SUFFICES ASSUME ~raced, NEW i \in 1 .. Len(stack), i < Len(stack')
                 PROVE  stack[i] \in {"root", "login"}
        BY <1>1, <1>2 DEF PlainBelow
    <2>1. CASE i = Len(stack)
        BY <1>3, <2>1
    <2>2. CASE i # Len(stack)
        <3>1. i < Len(stack)
            BY <1>4, <2>2
        <3> QED
            BY <1>3, <3>1 DEF Inv, PlainBelow
    <2> QED
        BY <2>1, <2>2
<1>9. SessionEnds'
    BY <1>1, <1>2 DEF Inv, SessionEnds, SessionPages, SomeDone
<1>10. ProfileFollows'
    BY <1>1, <1>2 DEF Inv, ProfileFollows, SomeDone
<1> QED
    BY <1>1, <1>2, <1>5, <1>6, <1>7, <1>8, <1>9, <1>10 DEF Inv

LEMMA OpenInnerInv ==
    ASSUME Inv, OpenInner
    PROVE  Inv'
<1>1. /\ On("settings") /\ stack' = Push(stack, "inner")
      /\ rootView' = rootView /\ user' = user /\ events' = events
      /\ requests' = requests /\ error' = error /\ provider' = provider
      /\ fetches' = fetches /\ raced' = raced /\ crossed' = crossed
    BY DEF OpenInner
<1>2. /\ stack' \in Seq(Pages) /\ stack' # <<>>
      /\ Len(stack') = Len(stack) + 1
      /\ \A i \in 1 .. Len(stack) : stack'[i] = stack[i]
      /\ stack'[Len(stack) + 1] = "inner"
      /\ \A i \in 1 .. Len(stack') :
             i \in 1 .. Len(stack) \/ i = Len(stack) + 1
      /\ \A x : x # "inner" => (Has(x)' <=> Has(x))
      /\ RootFirst' /\ RequestsOwnPage'
    BY <1>1, PushFacts
<1>3. /\ stack[Len(stack)] = "settings" /\ Len(stack) \in Nat \ {0}
      /\ Len(stack) \in 1 .. Len(stack)
    BY <1>1, StackNow
<1>4. TypeOK'
    BY <1>1, <1>2 DEF Inv, TypeOK
<1>5. SheetOnTop'
    BY <1>2, <1>3 DEF Inv, SheetOnTop
<1>6. RootListens'
    BY <1>1, <1>2 DEF Inv, RootListens
<1>7. PlainBelow'
    <2> SUFFICES ASSUME ~raced, NEW i \in 1 .. Len(stack)
                 PROVE  \/ stack[i] \in {"root", "login"}
                        \/ stack[i] = "settings" /\ i = Len(stack)
        <3>1. Len(stack') - 1 = Len(stack)
            BY <1>2, <1>3
        <3>2. \A i \in 1 .. Len(stack') :
                i < Len(stack') => i \in 1 .. Len(stack)
            BY <1>2, <1>3
        <3> QED
            BY <1>1, <1>2, <3>1, <3>2 DEF PlainBelow
    <2>1. CASE i = Len(stack)
        BY <1>3, <2>1
    <2>2. CASE i # Len(stack)
        <3>1. i < Len(stack)
            BY <1>3, <2>2
        <3> QED
            BY <1>3, <3>1 DEF Inv, PlainBelow
    <2> QED
        BY <2>1, <2>2
<1>8. SessionEnds'
    <2>1. ~raced /\ user = NULL => SomeDone
        BY <1>3 DEF Inv, SessionEnds, SessionPages
    <2> QED
        BY <1>1, <2>1 DEF SessionEnds, SomeDone
<1>9. ProfileFollows'
    BY <1>1, <1>2 DEF Inv, ProfileFollows, SomeDone
<1> QED
    BY <1>1, <1>2, <1>4, <1>5, <1>6, <1>7, <1>8, <1>9 DEF Inv

(* A request is sent from the page on top, by a handler of that page. *)
LEMMA SendInv ==
    ASSUME Inv, NEW u \in Users \cup {NULL}, Idle, Send(u),
           stack[Len(stack)] = IF u = NULL THEN "settings" ELSE "sheet",
           error' \in BOOLEAN,
           stack' = stack, rootView' = rootView, user' = user,
           events' = events, provider' = provider, fetches' = fetches,
           raced' = raced, crossed' = crossed
    PROVE  Inv'
<1> DEFINE q == [id |-> NewId(requests, MaxRequests), user |-> u,
                 pos |-> Len(stack), at |-> "open", done |-> FALSE]
<1>1. requests' = requests \cup {q}
    BY DEF Send
<1>2. TypeOK /\ IsFiniteSet(requests)
    BY DEF Inv
<1>3. requests \subseteq Request
    BY <1>2 DEF TypeOK
<1>4. Len(stack) \in Nat \ {0} /\ Len(stack) \in 1 .. Len(stack)
    BY StackNow
<1>5. NewId(requests, MaxRequests) \in Nat
    <2>1. MaxRequests \in Nat
        BY SessionConstants
    <2>2. Cardinality(requests) < MaxRequests
        BY DEF Idle
    <2>3. \A x \in requests : x.id \in Nat
        BY <1>3, RequestFields
    <2> QED
        BY <1>2, <2>1, <2>2, <2>3, NewIdExists
<1>6. /\ q \in Request /\ q.user = u /\ q.pos = Len(stack)
      /\ q.done = FALSE
    BY <1>4, <1>5 DEF Request
<1> HIDE DEF q
<1>7. requests' \subseteq Request /\ IsFiniteSet(requests')
    BY <1>1, <1>2, <1>3, <1>6, FS_AddElement
<1>8. TypeOK'
    BY <1>2, <1>7 DEF TypeOK
<1>9. SheetOnTop' /\ RootFirst' /\ PlainBelow'
    BY SameStack DEF Inv
<1>10. RootListens'
    BY SameStack, SameStream DEF Inv
<1>11. RequestsOwnPage'
    BY <1>1, <1>4, <1>6 DEF Inv, RequestsOwnPage, OwnPage
<1>12. SomeDone => SomeDone'
    BY <1>1 DEF SomeDone
<1>13. SessionEnds'
    BY <1>12 DEF Inv, SessionEnds
<1>14. ProfileFollows'
    BY <1>12, SameStack DEF Inv, ProfileFollows
<1>15. IsFiniteSet(fetches') /\ stack' # <<>>
    BY DEF Inv
<1> QED
    BY <1>7, <1>8, <1>9, <1>10, <1>11, <1>13, <1>14, <1>15 DEF Inv

LEMMA SignInInv ==
    ASSUME Inv, NEW u \in Users, SignIn(u)
    PROVE  Inv'
<1>1. u # NULL
    BY SessionConstants
<1>2. stack[Len(stack)] = "sheet"
    BY StackNow DEF SignIn
<1>3. /\ Idle /\ Send(u) /\ error' = FALSE
      /\ stack' = stack /\ rootView' = rootView /\ user' = user
      /\ events' = events /\ provider' = provider /\ fetches' = fetches
      /\ raced' = raced /\ crossed' = crossed
    BY DEF SignIn
<1> QED
    BY <1>1, <1>2, <1>3, SendInv

LEMMA LogoutInv ==
    ASSUME Inv, Logout
    PROVE  Inv'
<1>1. stack[Len(stack)] = "settings"
    BY StackNow DEF Logout
<1>2. /\ Idle /\ Send(NULL) /\ error' = error
      /\ stack' = stack /\ rootView' = rootView /\ user' = user
      /\ events' = events /\ provider' = provider /\ fetches' = fetches
      /\ raced' = raced /\ crossed' = crossed
    BY DEF Logout
<1>3. error \in BOOLEAN
    BY DEF Inv, TypeOK
<1> QED
    BY <1>1, <1>2, <1>3, SendInv

(* A request carried out is done; nothing is settled until it goes on. *)
LEMMA AuthenticateInv ==
    ASSUME Inv, NEW r \in requests, Authenticate(r)
    PROVE  Inv'
<1> DEFINE q == [r EXCEPT !.done = TRUE]
<1>1. /\ requests' = (requests \ {r}) \cup {q}
      /\ user' = r.user
      /\ events' = IF Has("root") THEN Append(events, r.user) ELSE events
      /\ stack' = stack /\ rootView' = rootView /\ error' = error
      /\ provider' = provider /\ fetches' = fetches
      /\ raced' = raced /\ crossed' = crossed
    BY DEF Authenticate, SetUser
<1>2. TypeOK /\ IsFiniteSet(requests) /\ RootListens
    BY DEF Inv
<1>3. r \in Request /\ requests \subseteq Request
    BY <1>2 DEF TypeOK
<1>4. /\ q \in Request /\ q.done = TRUE /\ q.user = r.user
      /\ q.pos = r.pos /\ q.at = r.at
    BY <1>3 DEF Request
<1> HIDE DEF q
<1>5. r.user \in Users \cup {NULL}
    BY <1>3, RequestFields
<1>6. requests' \subseteq Request /\ IsFiniteSet(requests')
    BY <1>1, <1>2, <1>3, <1>4, FS_AddElement, FS_RemoveElement
<1>7. events \in Seq(Users \cup {NULL})
    BY <1>2 DEF TypeOK
<1>8. /\ Append(events, r.user) \in Seq(Users \cup {NULL})
      /\ Append(events, r.user) # <<>>
      /\ Append(events, r.user)[Len(Append(events, r.user))] = r.user
    BY <1>5, <1>7, AppendFacts
<1>9. TypeOK'
    BY <1>1, <1>2, <1>5, <1>6, <1>7, <1>8 DEF TypeOK
<1>10. Has("root")' <=> Has("root")
    BY <1>1, SameStack
<1>11. RootListens'
    <2>1. CASE Has("root")
        BY <1>1, <1>8, <1>10, <2>1 DEF RootListens
    <2>2. CASE ~Has("root")
        BY <1>1, <1>2, <1>10, <2>2 DEF RootListens
    <2> QED
        BY <2>1, <2>2
<1>12. SheetOnTop' /\ RootFirst' /\ PlainBelow'
    BY <1>1, SameStack DEF Inv
<1>13. RequestsOwnPage'
    BY <1>1, <1>4 DEF Inv, RequestsOwnPage, OwnPage
<1>14. SomeDone'
    BY <1>1, <1>4 DEF SomeDone
<1>15. SessionEnds' /\ ProfileFollows'
    BY <1>14 DEF SessionEnds, ProfileFollows
<1>16. IsFiniteSet(fetches') /\ stack' # <<>>
    BY <1>1 DEF Inv
<1> QED
    BY <1>6, <1>9, <1>11, <1>12, <1>13, <1>15, <1>16 DEF Inv

LEMMA RefuseInv ==
    ASSUME Inv, NEW r \in requests, Refuse(r)
    PROVE  Inv'
<1>1. /\ ~r.done /\ requests' = requests \ {r}
      /\ error' = (error \/ (r.user # NULL /\ r.at = "open"))
      /\ stack' = stack /\ rootView' = rootView /\ user' = user
      /\ events' = events /\ provider' = provider /\ fetches' = fetches
      /\ raced' = raced /\ crossed' = crossed
    BY DEF Refuse
<1>2. TypeOK /\ IsFiniteSet(requests)
    BY DEF Inv
<1>3. IsFiniteSet(requests')
    BY <1>1, <1>2, FS_RemoveElement
<1>4. TypeOK'
    <2>1. error' \in BOOLEAN
        BY <1>1
    <2> QED
        BY <1>1, <1>2, <2>1 DEF TypeOK
<1>5. SheetOnTop' /\ RootFirst' /\ PlainBelow'
    BY <1>1, SameStack DEF Inv
<1>6. RootListens'
    BY <1>1, SameStack, SameStream DEF Inv
<1>7. RequestsOwnPage'
    BY <1>1 DEF Inv, RequestsOwnPage, OwnPage
<1>8. SomeDone => SomeDone'
    BY <1>1 DEF SomeDone
<1>9. SessionEnds'
    BY <1>1, <1>8 DEF Inv, SessionEnds
<1>10. ProfileFollows'
    BY <1>1, <1>8, SameStack DEF Inv, ProfileFollows
<1>11. IsFiniteSet(fetches') /\ stack' # <<>>
    BY <1>1 DEF Inv
<1> QED
    BY <1>3, <1>4, <1>5, <1>6, <1>7, <1>9, <1>10, <1>11 DEF Inv

(***************************************************************************)
(* pushReplacementNamed: the top page goes with its handlers' context, and *)
(* the stream loses its listener if that page was the root.                *)
(***************************************************************************)
LEMMA ReplaceFacts ==
    ASSUME Inv, NEW page \in {"home", "login", "settings"},
           NEW rs \in SUBSET requests, Replace(page, rs, events),
           rootView' = rootView, user' = user
    PROVE  /\ stack' \in Seq(Pages) /\ stack' # <<>>
           /\ Len(stack') = Len(stack)
           /\ \A i \in 1 .. Len(stack) : i < Len(stack) => stack'[i] = stack[i]
           /\ stack'[Len(stack)] = page
           /\ \A i \in 1 .. Len(stack) : i < Len(stack) \/ i = Len(stack)
           /\ events' \in Seq(Users \cup {NULL})
           /\ requests' \subseteq Request /\ IsFiniteSet(requests')
           /\ \A r \in rs : r.done = TRUE => SomeDone'
           /\ SheetOnTop' /\ RootFirst' /\ RootListens' /\ RequestsOwnPage'
           /\ ~raced /\ stack[Len(stack)] # "inner" =>
                 /\ PlainBelow'
                 /\ \A i \in 1 .. Len(stack) : i < Len(stack) =>
                       stack'[i] \in {"root", "login"}
<1>1. /\ stack' = PushReplacement(stack, page)
      /\ requests' = Leaving(rs)
      /\ events' = IF On("root") THEN <<>> ELSE events
    BY DEF Replace
<1>2. TypeOK /\ IsFiniteSet(requests)
    BY DEF Inv
<1>3. /\ stack \in Seq(Pages) /\ stack # <<>>
      /\ Len(stack) \in Nat \ {0} /\ Len(stack) \in 1 .. Len(stack)
      /\ On("root") <=> stack[Len(stack)] = "root"
    BY StackNow
<1>4. page \in Pages
    BY DEF Pages
<1>5. /\ stack' \in Seq(Pages) /\ stack' # <<>>
      /\ Len(stack') = Len(stack)
      /\ \A i \in 1 .. Len(stack) : i < Len(stack) => stack'[i] = stack[i]
      /\ stack'[Len(stack)] = page
    <2> DEFINE t == PushReplacement(stack, page)
    <2>1. stack \in Seq(Pages) /\ stack # <<>> /\ page \in Pages
        BY <1>3, <1>4
    <2>2. /\ t \in Seq(Pages) /\ t # <<>>
          /\ Len(t) = Len(stack)
          /\ \A i \in 1 .. Len(stack) : i < Len(stack) => t[i] = stack[i]
          /\ t[Len(stack)] = page
        BY ONLY <2>1, ReplacementFacts
    <2> HIDE DEF t
    <2>3. stack' = t
        BY <1>1 DEF t
    <2> QED
        BY <2>2, <2>3
<1>6. \A i \in 1 .. Len(stack) : i < Len(stack) \/ i = Len(stack)
    BY <1>3
<1>7. events' \in Seq(Users \cup {NULL})
    <2>1. events \in Seq(Users \cup {NULL})
        BY <1>2 DEF TypeOK
    <2> QED
        BY <1>1, <2>1, EmptySeq
<1>8. rs \in SUBSET Request /\ IsFiniteSet(rs)
    BY <1>2, FS_Subset DEF TypeOK
<1>9. /\ requests' \subseteq Request /\ IsFiniteSet(requests')
      /\ \A t \in requests' : t.at = "open" => t \in rs /\ t.pos # Len(stack)
      /\ \A r \in rs : r.done = TRUE => SomeDone'
    BY <1>1, <1>8, LeavingFacts DEF SomeDone
<1>10. SheetOnTop'
    BY <1>5, <1>6 DEF Inv, SheetOnTop
<1>11. RootFirst'
    BY <1>5, <1>6 DEF Inv, RootFirst
<1>12. RootListens'
    <2>1. CASE On("root")
        <3>1. Len(stack) = 1
            BY <1>3, <2>1 DEF Inv, RootFirst
        <3>2. \A i \in 1 .. Len(stack') : i = Len(stack)
            BY <1>5, <3>1
        <3>3. ~Has("root")' /\ events' = <<>>
            BY <1>1, <1>5, <2>1, <3>2 DEF Has
        <3> QED
            BY <3>3 DEF RootListens
    <2>2. CASE ~On("root")
        <3>1. Has("root")' <=> Has("root")
            BY <1>3, <1>5, <1>6, <2>2 DEF Has
        <3> QED
            BY <1>1, <2>2, <3>1 DEF Inv, RootListens
    <2> QED
        BY <2>1, <2>2
<1>13. RequestsOwnPage'
    <2> SUFFICES ASSUME NEW t \in requests', t.at = "open"
                 PROVE  t.pos \in 1 .. Len(stack')
                        /\ stack'[t.pos] = OwnPage(t)
        BY DEF RequestsOwnPage, OwnPage
    <2>1. t \in requests /\ t.pos # Len(stack)
        BY <1>9
    <2>2. t.pos \in 1 .. Len(stack) /\ stack[t.pos] = OwnPage(t)
        BY <2>1 DEF Inv, RequestsOwnPage
    <2>3. t.pos < Len(stack)
        BY <1>6, <2>1, <2>2
    <2> QED
        BY <1>5, <2>2, <2>3
<1>14. ASSUME ~raced, stack[Len(stack)] # "inner"
       PROVE  /\ PlainBelow'
              /\ \A i \in 1 .. Len(stack) : i < Len(stack) =>
                    stack'[i] \in {"root", "login"}
    <2>1. \A i \in 1 .. Len(stack) : i < Len(stack) =>
            stack[i] \in {"root", "login"}
        BY <1>14 DEF Inv, PlainBelow
    <2>2. \A i \in 1 .. Len(stack) : i < Len(stack) =>
            stack'[i] \in {"root", "login"}
        BY <1>5, <2>1
    <2>3. PlainBelow'
        BY <1>5, <2>2 DEF PlainBelow
    <2> QED
        BY <2>2, <2>3
<1> QED
    BY <1>5, <1>6, <1>7, <1>9, <1>10, <1>11, <1>12, <1>13, <1>14

(***************************************************************************)
(* The handler goes on.  If it does not race, its own page is replaced, so *)
(* no page of another session is left and no settings page either.         *)
(***************************************************************************)
LEMMA ContinueInv ==
    ASSUME Inv, NEW r \in requests, Continue(r)
    PROVE  Inv'
<1> DEFINE page == IF r.user # NULL THEN "home" ELSE "login"
<1>1. /\ IF r.at = "gone"
         THEN requests' = requests \ {r} /\ UNCHANGED <<stack, events>>
         ELSE Replace(page, requests \ {r}, events)
      /\ raced' = (raced \/ user # r.user \/ r.at # "open"
                         \/ r.pos # Len(stack))
      /\ rootView' = rootView /\ user' = user /\ error' = error
      /\ provider' = provider /\ fetches' = fetches /\ crossed' = crossed
    BY DEF Continue
<1>2. TypeOK /\ IsFiniteSet(requests) /\ IsFiniteSet(fetches)
    BY DEF Inv
<1>3. raced' \in BOOLEAN
    BY <1>1
<1>4. CASE r.at = "gone"
    <2>1. /\ requests' = requests \ {r} /\ stack' = stack
          /\ events' = events /\ raced' = TRUE
        BY <1>1, <1>4
    <2>2. TypeOK'
        BY <1>1, <1>2, <2>1 DEF TypeOK
    <2>3. IsFiniteSet(requests') /\ IsFiniteSet(fetches') /\ stack' # <<>>
        BY <1>1, <1>2, <2>1, FS_RemoveElement DEF Inv
    <2>4. SheetOnTop' /\ RootFirst'
        BY <2>1, SameStack DEF Inv
    <2>5. RootListens'
        BY <1>1, <2>1, SameStack, SameStream DEF Inv
    <2>6. RequestsOwnPage'
        BY <2>1 DEF Inv, RequestsOwnPage, OwnPage
    <2>7. PlainBelow' /\ SessionEnds' /\ ProfileFollows'
        BY <2>1 DEF PlainBelow, SessionEnds, ProfileFollows
    <2> QED
        BY <2>2, <2>3, <2>4, <2>5, <2>6, <2>7 DEF Inv
<1>5. CASE r.at # "gone"
    <2>1. Replace(page, requests \ {r}, events) /\ page \in {"home", "login"}
        BY <1>1, <1>5
    <2>0. /\ page \in {"home", "login", "settings"}
          /\ requests \ {r} \in SUBSET requests
        BY <2>1
    <2> HIDE DEF page
    <2>2. /\ stack' \in Seq(Pages) /\ stack' # <<>>
          /\ Len(stack') = Len(stack)
          /\ stack'[Len(stack)] = page
          /\ \A i \in 1 .. Len(stack) : i < Len(stack) \/ i = Len(stack)
          /\ events' \in Seq(Users \cup {NULL})
          /\ requests' \subseteq Request /\ IsFiniteSet(requests')
          /\ SheetOnTop' /\ RootFirst' /\ RootListens' /\ RequestsOwnPage'
          /\ ~raced /\ stack[Len(stack)] # "inner" =>
                /\ PlainBelow'
                /\ \A i \in 1 .. Len(stack) : i < Len(stack) =>
                      stack'[i] \in {"root", "login"}
        BY <1>1, <2>0, <2>1, ReplaceFacts
    <2>3. TypeOK'
        BY <1>1, <1>2, <1>3, <2>2 DEF TypeOK
    <2>4. ~raced' => /\ ~raced /\ user = r.user
                     /\ stack[Len(stack)] # "inner"
        <3>1. ~raced' => /\ ~raced /\ user = r.user
                         /\ r.at = "open" /\ r.pos = Len(stack)
            BY <1>1
        <3>2. r.at = "open" => stack[r.pos] \in {"settings", "sheet"}
            BY DEF Inv, RequestsOwnPage, OwnPage
        <3> QED
            BY <3>1, <3>2
    <2>5. PlainBelow'
        <3>1. CASE raced'
            BY <3>1 DEF PlainBelow
        <3>2. CASE ~raced'
            BY <2>2, <2>4, <3>2
        <3> QED
            BY <3>1, <3>2
    <2>6. SessionEnds'
        <3> SUFFICES ASSUME ~raced', user = NULL, NEW i \in 1 .. Len(stack)
                     PROVE  stack'[i] \notin SessionPages
            BY <1>1, <2>2 DEF SessionEnds
        <3>1. page = "login"
            BY <2>4 DEF page
        <3>2. stack'[i] \in {"root", "login"}
            BY <2>2, <2>4, <3>1
        <3> QED
            BY <3>2 DEF SessionPages
    <2>7. ProfileFollows'
        <3> SUFFICES ASSUME ~raced', NEW i \in 1 .. Len(stack)
                     PROVE  stack'[i] # "settings"
            BY <2>2 DEF ProfileFollows, Has
        <3>1. CASE i < Len(stack)
            BY <2>2, <2>4, <3>1
        <3>2. CASE i = Len(stack)
            BY <2>1, <2>2, <3>2
        <3> QED
            BY <2>2, <3>1, <3>2
    <2> QED
        BY <1>1, <1>2, <2>2, <2>3, <2>5, <2>6, <2>7 DEF Inv
<1> QED
    BY <1>4, <1>5

LEMMA TapHomeInv ==
    ASSUME Inv, TapHome
    PROVE  Inv'
<1>1. /\ Shows("home") \/ On("settings")
      /\ Replace("home", requests, events)
      /\ raced' = (raced \/ user = NULL)
      /\ rootView' = rootView /\ user' = user /\ error' = error
      /\ provider' = provider /\ fetches' = fetches /\ crossed' = crossed
    BY DEF TapHome
<1>2. TypeOK /\ IsFiniteSet(fetches)
    BY DEF Inv
<1>3. "home" \in {"home", "login", "settings"} /\ requests \in SUBSET requests
    OBVIOUS
<1>4. /\ stack' \in Seq(Pages) /\ stack' # <<>>
      /\ Len(stack') = Len(stack)
      /\ stack'[Len(stack)] = "home"
      /\ \A i \in 1 .. Len(stack) : i < Len(stack) \/ i = Len(stack)
      /\ events' \in Seq(Users \cup {NULL})
      /\ requests' \subseteq Request /\ IsFiniteSet(requests')
      /\ SheetOnTop' /\ RootFirst' /\ RootListens' /\ RequestsOwnPage'
      /\ ~raced /\ stack[Len(stack)] # "inner" =>
            /\ PlainBelow'
            /\ \A i \in 1 .. Len(stack) : i < Len(stack) =>
                  stack'[i] \in {"root", "login"}
    BY <1>1, <1>3, ReplaceFacts
<1>5. stack[Len(stack)] # "inner"
    BY <1>1, StackNow DEF Shows
<1>6. raced' \in BOOLEAN /\ (~raced' => ~raced /\ user # NULL)
    BY <1>1
<1>7. TypeOK'
    BY <1>1, <1>2, <1>4, <1>6 DEF TypeOK
<1>8. PlainBelow'
    <2>1. CASE raced'
        BY <2>1 DEF PlainBelow
    <2>2. CASE ~raced'
        BY <1>4, <1>5, <1>6, <2>2
    <2> QED
        BY <2>1, <2>2
<1>9. SessionEnds'
    BY <1>1, <1>6 DEF SessionEnds
<1>10. ProfileFollows'
    <2> SUFFICES ASSUME ~raced', NEW i \in 1 .. Len(stack)
                 PROVE  stack'[i] # "settings"
        BY <1>4 DEF ProfileFollows, Has
    <2>1. CASE i < Len(stack)
        BY <1>4, <1>5, <1>6, <2>1
    <2>2. CASE i = Len(stack)
        BY <1>4, <2>2
    <2> QED
        BY <1>4, <2>1, <2>2
<1> QED
    BY <1>1, <1>2, <1>4, <1>7, <1>8, <1>9, <1>10 DEF Inv

LEMMA TapSettingsInv ==
    ASSUME Inv, TapSettings
    PROVE  Inv'
<1> DEFINE f == [id |-> NewId(fetches, MaxFetches), user |-> user]
<1>1. /\ Shows("home") \/ On("settings")
      /\ Cardinality(fetches) < MaxFetches
      /\ Replace("settings", requests, events)
      /\ fetches' = IF user = NULL THEN fetches ELSE fetches \cup {f}
      /\ raced' = (raced \/ user = NULL)
      /\ rootView' = rootView /\ user' = user /\ error' = error
      /\ provider' = provider /\ crossed' = crossed
    BY DEF TapSettings
<1>2. TypeOK /\ IsFiniteSet(fetches)
    BY DEF Inv
<1>3. /\ "settings" \in {"home", "login", "settings"}
      /\ requests \in SUBSET requests
    OBVIOUS
<1>4. /\ stack' \in Seq(Pages) /\ stack' # <<>>
      /\ events' \in Seq(Users \cup {NULL})
      /\ requests' \subseteq Request /\ IsFiniteSet(requests')
      /\ SheetOnTop' /\ RootFirst' /\ RootListens' /\ RequestsOwnPage'
      /\ ~raced /\ stack[Len(stack)] # "inner" => PlainBelow'
    BY <1>1, <1>3, ReplaceFacts
<1>5. stack[Len(stack)] # "inner"
    BY <1>1, StackNow DEF Shows
<1>6. raced' \in BOOLEAN /\ (~raced' => ~raced /\ user # NULL)
    BY <1>1
<1>7. fetches \subseteq Fetch /\ user \in Users \cup {NULL}
    BY <1>2 DEF TypeOK
<1>8. NewId(fetches, MaxFetches) \in Nat
    <2>1. MaxFetches \in Nat
        BY SessionConstants
    <2>2. \A x \in fetches : x.id \in Nat
        BY <1>7 DEF Fetch
    <2> QED
        BY <1>1, <1>2, <2>1, <2>2, NewIdExists
<1>9. user # NULL => f \in Fetch
    BY <1>7, <1>8 DEF Fetch
<1> HIDE DEF f
<1>10. fetches' \subseteq Fetch /\ IsFiniteSet(fetches')
    BY <1>1, <1>2, <1>7, <1>9, FS_AddElement
<1>11. TypeOK'
    BY <1>1, <1>2, <1>4, <1>6, <1>10 DEF TypeOK
<1>12. PlainBelow'
    <2>1. CASE raced'
        BY <2>1 DEF PlainBelow
    <2>2. CASE ~raced'
        BY <1>4, <1>5, <1>6, <2>2
    <2> QED
        BY <2>1, <2>2
<1>13. SessionEnds'
    BY <1>1, <1>6 DEF SessionEnds
<1>14. ProfileFollows'
    BY <1>1, <1>6 DEF ProfileFollows
<1> QED
    BY <1>4, <1>10, <1>11, <1>12, <1>13, <1>14 DEF Inv

LEMMA FetchReturnsInv ==
    ASSUME Inv, NEW f \in fetches, NEW ok \in BOOLEAN, FetchReturns(f, ok)
    PROVE  Inv'
<1>1. /\ fetches' = fetches \ {f}
      /\ provider' = IF ok THEN f.user ELSE provider
      /\ crossed' = (~ok \/ f.user # user)
      /\ stack' = stack /\ rootView' = rootView /\ user' = user
      /\ events' = events /\ requests' = requests /\ error' = error
      /\ raced' = raced
    BY DEF FetchReturns
<1>2. TypeOK /\ IsFiniteSet(fetches)
    BY DEF Inv
<1>3. f.user \in Users
    BY <1>2 DEF TypeOK, Fetch
<1>4. crossed' \in BOOLEAN /\ (~crossed' => ok /\ f.user = user)
    BY <1>1
<1>5. TypeOK'
    BY <1>1, <1>2, <1>3, <1>4 DEF TypeOK
<1>6. IsFiniteSet(fetches')
    BY <1>1, <1>2, FS_RemoveElement
<1>7. SheetOnTop' /\ RootFirst' /\ PlainBelow'
    BY <1>1, SameStack DEF Inv
<1>8. RootListens'
    BY <1>1, SameStack, SameStream DEF Inv
<1>9. RequestsOwnPage'
    BY <1>1 DEF Inv, RequestsOwnPage, OwnPage
<1>10. SessionEnds'
    BY <1>1 DEF Inv, SessionEnds, SomeDone
<1>11. ProfileFollows'
    BY <1>1, <1>4 DEF ProfileFollows
<1> QED
    BY <1>1, <1>5, <1>6, <1>7, <1>8, <1>9, <1>10, <1>11 DEF Inv

LEMMA BackInv ==
    ASSUME Inv, Back
    PROVE  Inv'
<1>1. /\ Len(stack) > 1 /\ stack' = Pop(stack)
      /\ requests' = Leaving(requests)
      /\ rootView' = rootView /\ user' = user /\ events' = events
      /\ error' = error /\ provider' = provider /\ fetches' = fetches
      /\ raced' = raced /\ crossed' = crossed
    BY DEF Back
<1>2. TypeOK /\ IsFiniteSet(requests) /\ IsFiniteSet(fetches)
    BY DEF Inv
<1>3. stack \in Seq(Pages) /\ stack # <<>> /\ Len(stack) \in Nat \ {0}
    BY StackNow
<1>4. /\ stack' \in Seq(Pages) /\ Len(stack') = Len(stack) - 1
      /\ \A i \in 1 .. Len(stack) - 1 : stack'[i] = stack[i]
    BY <1>1, <1>3, PopFacts
<1>5. /\ \A i \in 1 .. Len(stack') : /\ stack'[i] = stack[i]
                                    /\ i \in 1 .. Len(stack)
                                    /\ i < Len(stack)
      /\ \A i \in 1 .. Len(stack) : i < Len(stack) => i \in 1 .. Len(stack')
    BY <1>3, <1>4
<1>6. stack' # <<>> /\ 1 \in 1 .. Len(stack')
    <2>1. Len(<<>>) = 0
        OBVIOUS
    <2> QED
        BY <1>1, <1>3, <1>4, <2>1
<1>7. \A page : Has(page)' => Has(page)
    BY <1>5 DEF Has
<1>8. Has("root")' <=> Has("root")
    <2>1. Has("root") => stack[1] = "root"
        BY DEF Inv, RootFirst, Has
    <2>2. stack'[1] = stack[1]
        BY <1>5, <1>6
    <2>3. stack[1] = "root" => Has("root")'
        BY <1>6, <2>2 DEF Has
    <2> QED
        BY <1>7, <2>1, <2>3
<1>9. requests \in SUBSET Request
    BY <1>2 DEF TypeOK
<1>10. /\ requests' \subseteq Request /\ IsFiniteSet(requests')
       /\ \A t \in requests' : t.at = "open" =>
              t \in requests /\ t.pos # Len(stack)
       /\ \A r \in requests : r.done = TRUE =>
              \E t \in requests' : t.done = TRUE
    BY <1>1, <1>2, <1>9, LeavingFacts
<1>11. TypeOK'
    BY <1>1, <1>2, <1>4, <1>10 DEF TypeOK
<1>12. SheetOnTop'
    <2>1. \A i \in 1 .. Len(stack') : stack'[i] # "sheet"
        BY <1>3, <1>5 DEF Inv, SheetOnTop
    <2> QED
        BY <2>1 DEF SheetOnTop
<1>13. RootFirst'
    BY <1>5 DEF Inv, RootFirst
<1>14. RootListens'
    BY <1>1, <1>8 DEF Inv, RootListens
<1>15. RequestsOwnPage'
    <2> SUFFICES ASSUME NEW t \in requests', t.at = "open"
                 PROVE  t.pos \in 1 .. Len(stack')
                        /\ stack'[t.pos] = OwnPage(t)
        BY DEF RequestsOwnPage, OwnPage
    <2>1. t \in requests /\ t.pos # Len(stack)
        BY <1>10
    <2>2. t.pos \in 1 .. Len(stack) /\ stack[t.pos] = OwnPage(t)
        BY <2>1 DEF Inv, RequestsOwnPage
    <2>3. t.pos \in 1 .. Len(stack')
        BY <1>3, <1>4, <2>1, <2>2
    <2> QED
        BY <1>5, <2>2, <2>3
<1>16. PlainBelow'
    <2> SUFFICES ASSUME ~raced, NEW i \in 1 .. Len(stack'), i < Len(stack')
                 PROVE  stack'[i] \in {"root", "login"}
        BY <1>1 DEF PlainBelow
    <2>1. /\ stack'[i] = stack[i] /\ i \in 1 .. Len(stack)
          /\ i < Len(stack)
        BY <1>5
    <2>2. i # Len(stack) - 1
        BY <1>3, <1>4
    <2> QED
        BY <2>1, <2>2 DEF Inv, PlainBelow
<1>17. SomeDone => SomeDone'
    BY <1>10 DEF SomeDone
<1>18. SessionEnds'
    BY <1>1, <1>5, <1>17 DEF Inv, SessionEnds
<1>19. ProfileFollows'
    BY <1>1, <1>7, <1>17 DEF Inv, ProfileFollows
<1> QED
    BY <1>1, <1>2, <1>6, <1>10, <1>11, <1>12, <1>13, <1>14, <1>15, <1>16,
       <1>18, <1>19 DEF Inv

LEMMA TransitionEndsInv ==
    ASSUME Inv, TransitionEnds
    PROVE  Inv'
<1>1. /\ requests' = {[r EXCEPT !.at = IF @ = "leaving" THEN "gone" ELSE @]
                         : r \in requests}
      /\ stack' = stack /\ rootView' = rootView /\ user' = user
      /\ events' = events /\ error' = error /\ provider' = provider
      /\ fetches' = fetches /\ raced' = raced /\ crossed' = crossed
    BY DEF TransitionEnds
<1>2. TypeOK /\ IsFiniteSet(requests) /\ IsFiniteSet(fetches)
    BY DEF Inv
<1>3. requests \in SUBSET Request
    BY <1>2 DEF TypeOK
<1>4. /\ requests' \subseteq Request /\ IsFiniteSet(requests')
      /\ \A t \in requests' : t.at = "open" => t \in requests
      /\ \A r \in requests : r.done = TRUE =>
             \E t \in requests' : t.done = TRUE
    <2>1. requests' = Forgotten(requests)
        BY <1>1 DEF Forgotten
    <2> QED
        BY <1>2, <1>3, <2>1, ForgottenFacts
<1>5. TypeOK'
    BY <1>1, <1>2, <1>4 DEF TypeOK
<1>6. SheetOnTop' /\ RootFirst' /\ PlainBelow'
    BY <1>1, SameStack DEF Inv
<1>7. RootListens'
    BY <1>1, SameStack, SameStream DEF Inv
<1>8. RequestsOwnPage'
    <2> SUFFICES ASSUME NEW t \in requests', t.at = "open"
                 PROVE  t.pos \in 1 .. Len(stack)
                        /\ stack[t.pos] = OwnPage(t)
        BY <1>1 DEF RequestsOwnPage, OwnPage
    <2>1. t \in requests
        BY <1>4
    <2> QED
        BY <2>1 DEF Inv, RequestsOwnPage
<1>9. SomeDone => SomeDone'
    BY <1>4 DEF SomeDone
<1>10. SessionEnds'
    BY <1>1, <1>9 DEF Inv, SessionEnds
<1>11. ProfileFollows'
    BY <1>1, <1>9, SameStack DEF Inv, ProfileFollows
<1>12. IsFiniteSet(fetches') /\ stack' # <<>>
    BY <1>1 DEF Inv
<1> QED
    BY <1>4, <1>5, <1>6, <1>7, <1>8, <1>10, <1>11, <1>12 DEF Inv

LEMMA StutterInv ==
    ASSUME Inv, UNCHANGED vars
    PROVE  Inv'
<1>1. /\ stack' = stack /\ rootView' = rootView /\ user' = user
      /\ events' = events /\ requests' = requests /\ error' = error
      /\ provider' = provider /\ fetches' = fetches
      /\ raced' = raced /\ crossed' = crossed
    BY DEF vars
<1>2. TypeOK'
    BY <1>1 DEF Inv, TypeOK
<1>3. SheetOnTop' /\ RootFirst' /\ PlainBelow'
    BY <1>1, SameStack DEF Inv
<1>4. RootListens'
    BY <1>1, SameStack, SameStream DEF Inv
<1>5. RequestsOwnPage'
    BY <1>1 DEF Inv, RequestsOwnPage, OwnPage
<1>6. SessionEnds'
    BY <1>1 DEF Inv, SessionEnds, SomeDone
<1>7. ProfileFollows'
    BY <1>1, SameStack DEF Inv, ProfileFollows, SomeDone
<1> QED
    BY <1>1, <1>2, <1>3, <1>4, <1>5, <1>6, <1>7 DEF Inv

LEMMA NextInv == Inv /\ [Next]_vars => Inv'
<1> SUFFICES ASSUME Inv, [Next]_vars PROVE Inv'
    OBVIOUS
<1>1. CASE RootEvent
    BY <1>1, RootEventInv
<1>2. CASE OpenSheet
    BY <1>2, OpenSheetInv
<1>3. CASE \E u \in Users : SignIn(u)
    BY <1>3, SignInInv
<1>4. CASE Logout
    BY <1>4, LogoutInv
<1>5. CASE \E r \in requests : Authenticate(r) \/ Refuse(r) \/ Continue(r)
    BY <1>5, AuthenticateInv, RefuseInv, ContinueInv
<1>6. CASE TapHome
    BY <1>6, TapHomeInv
<1>7. CASE TapSettings
    BY <1>7, TapSettingsInv
<1>8. CASE \E f \in fetches, ok \in BOOLEAN : FetchReturns(f, ok)
    BY <1>8, FetchReturnsInv
<1>9. CASE OpenInner
    BY <1>9, OpenInnerInv
<1>10. CASE Back
    BY <1>10, BackInv
<1>11. CASE TransitionEnds
    BY <1>11, TransitionEndsInv
<1>12. CASE UNCHANGED vars
    BY <1>12, StutterInv
<1>13. CASE ChangeLocale
    BY <1>13, ChangeLocaleInv
<1> QED
    BY <1>1, <1>2, <1>3, <1>4, <1>5, <1>6, <1>7, <1>8, <1>9, <1>10, <1>11,
       <1>12, <1>13 DEF Next

-----------------------------------------------------------------------------

(* The invariant the properties follow from. *)
THEOREM Invariance == Spec => []Inv
BY InitInv, NextInv, PTL DEF Spec

(* Every variable of the session keeps its type. *)
THEOREM TypeCorrect == Spec => []TypeOK
<1>1. Inv => TypeOK
    BY DEF Inv
<1> QED
    BY <1>1, Invariance, PTL

(***************************************************************************)
(* The login and register sheets are never buried under another page, by   *)
(* whatever handler navigates.                                             *)
(***************************************************************************)
THEOREM SheetsStayOnTop == Spec => []SheetOnTop
<1>1. Inv => SheetOnTop
    BY DEF Inv
<1> QED
    BY <1>1, Invariance, PTL

(***************************************************************************)
(* The StreamBuilder of the root page agrees with FirebaseAuth once it has *)
(* got all changes of the user.                                            *)
(***************************************************************************)
THEOREM RootAgrees == Spec => []RootFollowsUser
<1>1. Inv => RootFollowsUser
    BY DEF Inv, RootListens, RootFollowsUser
<1> QED
    BY <1>1, Invariance, PTL

(***************************************************************************)
(* After a sign-out whose handler did not race, nothing of the session is  *)
(* left on the stack for Back to find.                                     *)
(***************************************************************************)
THEOREM SessionIsLeft == Spec => []NoPrivatePageLeft
<1>1. Inv => NoPrivatePageLeft
    <2> SUFFICES ASSUME Inv, user = NULL, events = <<>>, requests = {}, ~raced,
                        NEW i \in 1 .. Len(stack)
                 PROVE  ~Private(i)
        BY DEF NoPrivatePageLeft
    <2>1. stack[i] \notin SessionPages
        BY DEF Inv, SessionEnds, SomeDone
    <2>2. stack[i] = "root" => rootView = "login"
        BY DEF Inv, RootListens, Has
    <2> QED
        BY <2>1, <2>2 DEF Private, SessionPages
<1> QED
    BY <1>1, Invariance, PTL

(***************************************************************************)
(* The settings page shows the profile of the user who is signed in, once  *)
(* requests and fetches are back, across any sequence of users, unless a   *)
(* handler raced or the last fetch failed or was another user's.           *)
(***************************************************************************)
THEOREM SettingsShowUser == Spec => []ProfileOfUser
<1>1. Inv => ProfileOfUser
    BY DEF Inv, ProfileFollows, ProfileOfUser, SomeDone
<1> QED
    BY <1>1, Invariance, PTL

(***************************************************************************)
(* A handler that does not race replaces its own page and lands where it   *)
(* meant to: the home page after a sign-in, the login page after a         *)
(* sign-out, with nothing below but the root and login pages.              *)
(***************************************************************************)
Lands(r) ==
    /\ stack[Len(stack)] = OwnPage(r)
    /\ Len(stack') = Len(stack)
    /\ stack'[Len(stack)] = IF r.user = NULL THEN "login" ELSE "home"
    /\ \A i \in 1 .. Len(stack) : i < Len(stack) =>
          stack'[i] = stack[i] /\ stack[i] \in {"root", "login"}

THEOREM HandlersLand ==
    Spec => [][\A r \in requests : Continue(r) /\ ~raced' => Lands(r)]_vars
<1>1. ASSUME Inv, NEW r \in requests, Continue(r), ~raced'
      PROVE  Lands(r)
    <2> DEFINE page == IF r.user # NULL THEN "home" ELSE "login"
    <2>1. /\ ~raced /\ r.at = "open" /\ r.pos = Len(stack)
          /\ rootView' = rootView /\ user' = user
        BY <1>1 DEF Continue
    <2>2. stack[Len(stack)] = OwnPage(r) /\ stack[Len(stack)] # "inner"
        BY <1>1, <2>1 DEF Inv, RequestsOwnPage, OwnPage
    <2>3. Replace(page, requests \ {r}, events)
        BY <1>1, <2>1 DEF Continue
    <2>4. /\ page \in {"home", "login", "settings"}
          /\ requests \ {r} \in SUBSET requests
        OBVIOUS
    <2> HIDE DEF page
    <2>5. /\ Len(stack') = Len(stack)
          /\ stack'[Len(stack)] = page
          /\ \A i \in 1 .. Len(stack) : i < Len(stack) => stack'[i] = stack[i]
          /\ \A i \in 1 .. Len(stack) : i < Len(stack) =>
                stack'[i] \in {"root", "login"}
        BY <1>1, <2>1, <2>2, <2>3, <2>4, ReplaceFacts
    <2> QED
        BY <2>2, <2>5 DEF Lands, page
<1>2. Inv /\ [Next]_vars =>
        [\A r \in requests : Continue(r) /\ ~raced' => Lands(r)]_vars
    BY <1>1
<1> QED
    BY <1>2, Invariance, PTL DEF Spec

-----------------------------------------------------------------------------
(* Handlers are told apart, and each goes on until its own answer. *)

Distinct(set) == \A x, y \in set : x.id = y.id => x = y

(* t is the handler r, perhaps carried out, its page perhaps further gone. *)
Same(t, r) ==
    /\ t.id = r.id /\ t.user = r.user /\ t.pos = r.pos
    /\ r.done = TRUE => t.done = TRUE
    /\ t.at = "open" => r.at = "open"
    /\ r.at = "gone" => t.at = "gone"

(* The handlers ts are the handlers rs. *)
SameAll(ts, rs) ==
    /\ \A r \in rs : \E t \in ts : Same(t, r)
    /\ \A t \in ts : \E r \in rs : Same(t, r)

LEMMA LeavingSame ==
    ASSUME NEW rs \in SUBSET Request
    PROVE  /\ SameAll(Leaving(rs), rs)
           /\ Distinct(rs) => Distinct(Leaving(rs))
<1> DEFINE F(r) == IF r.pos = Len(stack) /\ r.at = "open"
                   THEN [r EXCEPT !.at = "leaving"] ELSE r
<1>1. ASSUME NEW r \in rs
      PROVE  Same(F(r), r)
    <2>1. r \in Request
        OBVIOUS
    <2>2. CASE r.pos = Len(stack) /\ r.at = "open"
        <3>1. F(r) = [r EXCEPT !.at = "leaving"]
            BY <2>2
        <3> QED
            BY <2>1, <2>2, <3>1 DEF Request, Same
    <2>3. CASE ~(r.pos = Len(stack) /\ r.at = "open")
        <3>1. F(r) = r
            BY <2>3
        <3> QED
            BY <3>1 DEF Same
    <2> QED
        BY <2>2, <2>3
<1>2. Leaving(rs) = {F(r) : r \in rs}
    BY DEF Leaving
<1> HIDE DEF F
<1>3. SameAll(Leaving(rs), rs)
    BY <1>1, <1>2 DEF SameAll
<1>4. ASSUME Distinct(rs), NEW x \in Leaving(rs), NEW y \in Leaving(rs), x.id = y.id
      PROVE  x = y
    <2>1. PICK a \in rs : x = F(a)
        BY <1>2
    <2>2. PICK b \in rs : y = F(b)
        BY <1>2
    <2>3. a.id = x.id /\ b.id = y.id
        BY <1>1, <2>1, <2>2 DEF Same
    <2>4. a = b
        BY <1>4, <2>3 DEF Distinct
    <2> QED
        BY <2>1, <2>2, <2>4
<1>5. Distinct(rs) => Distinct(Leaving(rs))
    BY <1>4 DEF Distinct
<1> QED
    BY <1>3, <1>5

LEMMA ForgottenSame ==
    ASSUME NEW rs \in SUBSET Request
    PROVE  /\ SameAll(Forgotten(rs), rs)
           /\ Distinct(rs) => Distinct(Forgotten(rs))
<1> DEFINE F(r) == [r EXCEPT !.at = IF r.at = "leaving" THEN "gone" ELSE r.at]
<1>1. ASSUME NEW r \in rs
      PROVE  Same(F(r), r)
    <2>1. r \in Request
        OBVIOUS
    <2>2. CASE r.at = "leaving"
        <3>1. F(r) = [r EXCEPT !.at = "gone"]
            BY <2>2
        <3> QED
            BY <2>1, <2>2, <3>1 DEF Request, Same
    <2>3. CASE r.at # "leaving"
        <3>1. F(r) = r
            BY <2>1, <2>3 DEF Request
        <3> QED
            BY <3>1 DEF Same
    <2> QED
        BY <2>2, <2>3
<1>2. Forgotten(rs) = {F(r) : r \in rs}
    BY DEF Forgotten
<1> HIDE DEF F
<1>3. SameAll(Forgotten(rs), rs)
    BY <1>1, <1>2 DEF SameAll
<1>4. ASSUME Distinct(rs), NEW x \in Forgotten(rs), NEW y \in Forgotten(rs), x.id = y.id
      PROVE  x = y
    <2>1. PICK a \in rs : x = F(a)
        BY <1>2
    <2>2. PICK b \in rs : y = F(b)
        BY <1>2
    <2>3. a.id = x.id /\ b.id = y.id
        BY <1>1, <2>1, <2>2 DEF Same
    <2>4. a = b
        BY <1>4, <2>3 DEF Distinct
    <2> QED
        BY <2>1, <2>2, <2>4
<1>5. Distinct(rs) => Distinct(Forgotten(rs))
    BY <1>4 DEF Distinct
<1> QED
    BY <1>3, <1>5

(* A step leaves all handlers under way, but for the one it ends. *)
Goes(r) == Refuse(r) \/ Continue(r)

GoesOn(r) == \E t \in requests' : Same(t, r)

LEMMA AllGoOn ==
    ASSUME NEW rs \in SUBSET requests, SameAll(requests', rs)
    PROVE  \A r \in rs : GoesOn(r)
BY DEF SameAll, GoesOn

LEMMA RequestsStep ==
    ASSUME Inv, Distinct(requests), [Next]_vars
    PROVE  /\ Distinct(requests')
           /\ \A r \in requests : Goes(r) \/ GoesOn(r)
<1>0. requests \subseteq Request /\ IsFiniteSet(requests)
    BY DEF Inv, TypeOK
<1>a. ASSUME NEW r \in requests
      PROVE  Same(r, r)
    BY DEF Same
<1>1. CASE requests' = requests
    BY <1>1, <1>a DEF GoesOn
<1>2. CASE \E u \in Users \cup {NULL} : Idle /\ Send(u)
    <2> PICK u \in Users \cup {NULL} : Idle /\ Send(u)
        BY <1>2
    <2> DEFINE q == [id |-> NewId(requests, MaxRequests), user |-> u,
                     pos |-> Len(stack), at |-> "open", done |-> FALSE]
    <2>1. requests' = requests \cup {q} /\ q.id = NewId(requests, MaxRequests)
        BY DEF Send
    <2>2. /\ MaxRequests \in Nat /\ Cardinality(requests) < MaxRequests
          /\ \A r \in requests : r.id \in Nat
        BY <1>0, SessionConstants, RequestFields DEF Idle
    <2>3. \A r \in requests : r.id # NewId(requests, MaxRequests)
        BY <1>0, <2>2, NewIdExists
    <2> HIDE DEF q
    <2>4. Distinct(requests')
        BY <2>1, <2>3 DEF Distinct
    <2> QED
        BY <1>a, <2>1, <2>4 DEF GoesOn
<1>3. CASE \E r \in requests : Authenticate(r)
    <2> PICK r \in requests : Authenticate(r)
        BY <1>3
    <2> DEFINE q == [r EXCEPT !.done = TRUE]
    <2>1. requests' = (requests \ {r}) \cup {q}
        BY DEF Authenticate
    <2>2. Same(q, r)
        BY <1>0 DEF Request, Same
    <2>3. q.id = r.id
        BY <2>2 DEF Same
    <2> HIDE DEF q
    <2>4. Distinct(requests')
        BY <2>1, <2>3 DEF Distinct
    <2> QED
        BY <1>a, <2>1, <2>2, <2>4 DEF GoesOn
<1>4. CASE \E r \in requests : Refuse(r)
    <2> PICK r \in requests : Refuse(r)
        BY <1>4
    <2>1. requests' = requests \ {r}
        BY DEF Refuse
    <2> QED
        BY <1>a, <2>1 DEF Distinct, Goes, GoesOn
<1>5. CASE \E r \in requests : Continue(r)
    <2> PICK r \in requests : Continue(r)
        BY <1>5
    <2> DEFINE rs == requests \ {r}
    <2>1. requests' = rs \/ requests' = Leaving(rs)
        BY DEF Continue, Replace
    <2>2. rs \in SUBSET Request /\ Distinct(rs)
        BY <1>0 DEF Distinct
    <2>3. Distinct(Leaving(rs)) /\ SameAll(Leaving(rs), rs)
        <3> HIDE DEF rs
        <3> QED
            BY <2>2, LeavingSame
    <2>4. Distinct(requests')
        BY <2>1, <2>2, <2>3
    <2>5. \A x \in rs : GoesOn(x)
        BY <1>a, <2>1, <2>3 DEF SameAll, GoesOn
    <2> QED
        BY <2>4, <2>5 DEF Goes
<1>6. CASE requests' = Leaving(requests)
    BY <1>0, <1>6, LeavingSame, AllGoOn
<1>7. CASE requests' = Forgotten(requests)
    BY <1>0, <1>7, ForgottenSame, AllGoOn
<1>8. \/ requests' = requests
      \/ \E u \in Users \cup {NULL} : Idle /\ Send(u)
      \/ \E r \in requests : Authenticate(r) \/ Refuse(r) \/ Continue(r)
      \/ requests' = Leaving(requests)
      \/ requests' = Forgotten(requests)
    BY DEF Next, vars, RootEvent, ChangeLocale, OpenSheet, SignIn, Logout,
           TapHome, TapSettings, Replace, FetchReturns, OpenInner, Back,
           TransitionEnds, Forgotten
<1> QED
    BY <1>1, <1>2, <1>3, <1>4, <1>5, <1>6, <1>7, <1>8

(* The ids tell the handlers apart. *)
LEMMA HandlersDistinct == Spec => []Distinct(requests)
<1>1. Init => Distinct(requests)
    BY DEF Init, Distinct
<1>2. Inv /\ Distinct(requests) /\ [Next]_vars => Distinct(requests)'
    BY RequestsStep DEF Distinct
<1> QED
    BY <1>1, <1>2, Invariance, PTL DEF Spec

(***************************************************************************)
(* No handler is lost and none is confused with another: whatever happens  *)
(* to its page and to the session, each sign-in and sign-out under way     *)
(* stays exactly one handler, keeps its user and the position of its page, *)
(* is not undone, and never finds a page that has gone open again, until   *)
(* FirebaseAuth refuses it or it continues itself.                         *)
(***************************************************************************)
THEOREM HandlersComplete ==
    Spec => [][\A r \in requests :
                  \/ Goes(r)
                  \/ \E t \in requests' :
                        /\ Same(t, r)
                        /\ \A q \in requests' : q.id = r.id => q = t]_vars
<1>1. ASSUME Inv, Distinct(requests), [Next]_vars, NEW r \in requests
      PROVE  \/ Goes(r)
             \/ \E t \in requests' :
                   /\ Same(t, r)
                   /\ \A q \in requests' : q.id = r.id => q = t
    <2>1. Distinct(requests') /\ (Goes(r) \/ GoesOn(r))
        BY <1>1, RequestsStep
    <2> QED
        BY <2>1 DEF GoesOn, Same, Distinct
<1>2. Inv /\ Distinct(requests) /\ [Next]_vars =>
        [\A r \in requests :
            \/ Goes(r)
            \/ \E t \in requests' :
                  /\ Same(t, r)
                  /\ \A q \in requests' : q.id = r.id => q = t]_vars
    BY <1>1
<1> QED
    BY <1>2, Invariance, HandlersDistinct, PTL DEF Spec

=============================================================================
