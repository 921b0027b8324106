---------------------------- MODULE ProfileProofs ----------------------------
(***************************************************************************)
(* The profile page and its editor keep their properties for any texts and *)
(* any number of saves under way.  None of them is inductive alone.  That  *)
(* no save is blind needs that every open save belongs to the editor on    *)
(* top and that the e-mail field is empty while the load is under way;     *)
(* that the document is complete needs it of the saves that will become    *)
(* the document; and that the profile page is up to date in the end needs  *)
(* to be said while saves are under way: what it shows is what a read      *)
(* would show, unless a save that is to refresh it has not finished.       *)
(***************************************************************************)
EXTENDS Profile, SequenceTheorems, FiniteSetTheorems, TLAPS

S == <<"settings">>
D == <<"settings", "detail">>
E == <<"settings", "detail", "editor">>
P == <<"settings", "detail", "editor", "picker">>

Stacks == {<<>>, S, D, E, P}

Filled(d) == d.name # "" /\ d.email = Address

(* An open save is of the editor on the stack. *)
NoOrphanSave == ~Below("editor") => \A s \in UnderWay : s.at # "open"

(* The e-mail field is filled by the load alone. *)
LoadInEditor == loading => Below("editor") /\ email = ""

SavesFilled == \A s \in UnderWay : Filled(s.data)

(* The profile page follows what a read shows, or will be refreshed. *)
Settled ==
    /\ Below("detail")
    /\ fetches = 0
    /\ ~outdated
    /\ \A s \in UnderWay : ~s.page

DetailFollows == Settled => shown = LocalDoc

Inv ==
    /\ TypeOK
    /\ IsFiniteSet(updates)
    /\ NoOrphanSave
    /\ LoadInEditor
    /\ NoBlindSave
    /\ SavesFilled
    /\ DocumentComplete
    /\ DetailFollows

-----------------------------------------------------------------------------
(* The pages. *)

LEMMA AppendFacts ==
    ASSUME NEW T, NEW s \in Seq(T), NEW x \in T
    PROVE  /\ Append(s, x) \in Seq(T)
           /\ Len(Append(s, x)) = Len(s) + 1
           /\ \A i \in 1 .. Len(s) : Append(s, x)[i] = s[i]
           /\ Append(s, x)[Len(s) + 1] = x
OBVIOUS

PageNames == {"settings", "detail", "editor", "picker"}

LEMMA StackFacts ==
    /\ S # <<>> /\ Len(S) = 1 /\ Top(S) = "settings"
    /\ D # <<>> /\ Len(D) = 2 /\ Top(D) = "detail"
    /\ E # <<>> /\ Len(E) = 3 /\ Top(E) = "editor"
    /\ P # <<>> /\ Len(P) = 4 /\ Top(P) = "picker"
    /\ Pop(S) = <<>> /\ Pop(D) = S /\ Pop(E) = D /\ Pop(P) = E
    /\ Push(S, "detail") = D /\ Push(D, "editor") = E
    /\ Push(E, "picker") = P
    /\ \A page \in {"detail", "editor"} :
          ~ \E i \in 1 .. Len(<<>>) : <<>>[i] = page
    /\ \A page \in {"detail", "editor"} : ~ \E i \in 1 .. Len(S) : S[i] = page
    /\ \E i \in 1 .. Len(D) : D[i] = "detail"
    /\ ~ \E i \in 1 .. Len(D) : D[i] = "editor"
    /\ \E i \in 1 .. Len(E) : E[i] = "detail"
    /\ \E i \in 1 .. Len(E) : E[i] = "editor"
    /\ \E i \in 1 .. Len(P) : P[i] = "detail"
    /\ \E i \in 1 .. Len(P) : P[i] = "editor"
<1>1. /\ S \in Seq(PageNames)
      /\ S # <<>> /\ Len(S) = 1 /\ S[1] = "settings"
    BY DEF S, PageNames
<1>2. /\ D \in Seq(PageNames)
      /\ D # <<>> /\ Len(D) = 2 /\ D[1] = "settings" /\ D[2] = "detail"
    BY DEF D, PageNames
<1>3. /\ E \in Seq(PageNames)
      /\ E # <<>> /\ Len(E) = 3
      /\ E[1] = "settings" /\ E[2] = "detail" /\ E[3] = "editor"
    BY DEF E, PageNames
<1>4. Pop(S) = <<>>
    BY <1>1, SubSeqEmpty DEF Pop
<1>5. Pop(D) = S
    <2>1. /\ SubSeq(D, 1, 1) \in Seq(PageNames)
          /\ Len(SubSeq(D, 1, 1)) = 1
          /\ SubSeq(D, 1, 1)[1] = D[1]
        BY <1>2, SubSeqProperties
    <2>2. SubSeq(D, 1, 1) = S
        BY <2>1, <1>1, <1>2, SeqEqual
    <2> QED
        BY <1>2, <2>2 DEF Pop
<1>6. Pop(E) = D
    <2>1. /\ SubSeq(E, 1, 2) \in Seq(PageNames)
          /\ Len(SubSeq(E, 1, 2)) = 2
          /\ SubSeq(E, 1, 2)[1] = E[1] /\ SubSeq(E, 1, 2)[2] = E[2]
        BY <1>3, SubSeqProperties
    <2>2. SubSeq(E, 1, 2) = D
        BY <2>1, <1>2, <1>3, SeqEqual
    <2> QED
        BY <1>3, <2>2 DEF Pop
<1>7. Push(S, "detail") = D
    <2>1. /\ Append(S, "detail") \in Seq(PageNames)
          /\ Len(Append(S, "detail")) = 2
          /\ Append(S, "detail")[1] = S[1]
          /\ Append(S, "detail")[2] = "detail"
        <3>1. "detail" \in PageNames
            BY DEF PageNames
        <3>2. /\ Append(S, "detail") \in Seq(PageNames)
              /\ Len(Append(S, "detail")) = Len(S) + 1
              /\ \A i \in 1 .. Len(S) : Append(S, "detail")[i] = S[i]
              /\ Append(S, "detail")[Len(S) + 1] = "detail"
            BY <1>1, <3>1, AppendFacts
        <3> QED
            BY <1>1, <3>2
    <2> QED
        BY <2>1, <1>1, <1>2, SeqEqual DEF Push
<1>8. Push(D, "editor") = E
    <2>1. /\ Append(D, "editor") \in Seq(PageNames)
          /\ Len(Append(D, "editor")) = 3
          /\ Append(D, "editor")[1] = D[1]
          /\ Append(D, "editor")[2] = D[2]
          /\ Append(D, "editor")[3] = "editor"
        <3>1. "editor" \in PageNames
            BY DEF PageNames
        <3>2. /\ Append(D, "editor") \in Seq(PageNames)
              /\ Len(Append(D, "editor")) = Len(D) + 1
              /\ \A i \in 1 .. Len(D) : Append(D, "editor")[i] = D[i]
              /\ Append(D, "editor")[Len(D) + 1] = "editor"
            BY <1>2, <3>1, AppendFacts
        <3> QED
            BY <1>2, <3>2
    <2> QED
        BY <2>1, <1>2, <1>3, SeqEqual DEF Push
<1>p. /\ P \in Seq(PageNames)
      /\ P # <<>> /\ Len(P) = 4
      /\ P[1] = "settings" /\ P[2] = "detail" /\ P[3] = "editor"
      /\ P[4] = "picker"
    BY DEF P, PageNames
<1>q. Pop(P) = E
    <2>1. /\ SubSeq(P, 1, 3) \in Seq(PageNames)
          /\ Len(SubSeq(P, 1, 3)) = 3
          /\ SubSeq(P, 1, 3)[1] = P[1] /\ SubSeq(P, 1, 3)[2] = P[2]
          /\ SubSeq(P, 1, 3)[3] = P[3]
        <3>1. /\ P \in Seq(PageNames) /\ 1 \in Int /\ 3 \in Int
              /\ \A i \in 1 .. 3 : P[i] \in PageNames
            BY <1>p DEF PageNames
        <3>2. /\ SubSeq(P, 1, 3) \in Seq(PageNames)
              /\ Len(SubSeq(P, 1, 3)) = IF 1 <= 3 THEN 3 - 1 + 1 ELSE 0
              /\ \A i \in 1 .. 3 - 1 + 1 : SubSeq(P, 1, 3)[i] = P[1 + i - 1]
            BY ONLY <3>1, SubSeqProperties
        <3> QED
            BY <3>2
    <2>2. SubSeq(P, 1, 3) = E
        BY <2>1, <1>3, <1>p, SeqEqual
    <2> QED
        BY <1>p, <2>2 DEF Pop
<1>r. Push(E, "picker") = P
    <2>1. /\ Append(E, "picker") \in Seq(PageNames)
          /\ Len(Append(E, "picker")) = 4
          /\ Append(E, "picker")[1] = E[1]
          /\ Append(E, "picker")[2] = E[2]
          /\ Append(E, "picker")[3] = E[3]
          /\ Append(E, "picker")[4] = "picker"
        <3>1. "picker" \in PageNames
            BY DEF PageNames
        <3>2. /\ Append(E, "picker") \in Seq(PageNames)
              /\ Len(Append(E, "picker")) = Len(E) + 1
              /\ \A i \in 1 .. Len(E) : Append(E, "picker")[i] = E[i]
              /\ Append(E, "picker")[Len(E) + 1] = "picker"
            <4>1. E \in Seq(PageNames) /\ "picker" \in PageNames
                BY <1>3, <3>1
            <4> QED
                BY ONLY <4>1, AppendFacts
        <3> QED
            BY <1>3, <3>2
    <2> QED
        BY <2>1, <1>3, <1>p, SeqEqual DEF Push
<1>9. \A page \in {"detail", "editor"} :
        ~ \E i \in 1 .. Len(<<>>) : <<>>[i] = page
    OBVIOUS
<1>10. /\ \A page \in {"detail", "editor"} :
              ~ \E i \in 1 .. Len(S) : S[i] = page
       /\ ~ \E i \in 1 .. Len(D) : D[i] = "editor"
    BY <1>1, <1>2
<1>11. /\ 2 \in 1 .. Len(D) /\ 2 \in 1 .. Len(E) /\ 3 \in 1 .. Len(E)
       /\ 2 \in 1 .. Len(P) /\ 3 \in 1 .. Len(P)
    BY <1>2, <1>3, <1>p
<1> QED
    BY <1>1, <1>2, <1>3, <1>4, <1>5, <1>6, <1>7, <1>8, <1>9, <1>10, <1>11,
       <1>p, <1>q, <1>r
    DEF Top

(* The pages of a stack are told from its shape. *)
LEMMA ShapeFacts ==
    ASSUME NEW s \in Stacks
    PROVE  /\ (s # <<>> /\ Top(s) = "picker") <=> s = P
           /\ (s # <<>> /\ Top(s) = "editor") <=> s = E
           /\ (s # <<>> /\ Top(s) = "detail") <=> s = D
           /\ (s # <<>> /\ Top(s) = "settings") <=> s = S
           /\ (\E i \in 1 .. Len(s) : s[i] = "detail") <=> s \in {D, E, P}
           /\ (\E i \in 1 .. Len(s) : s[i] = "editor") <=> s \in {E, P}
           /\ s # <<>> => Pop(s) \in Stacks \ {P}
           /\ s # <<>> /\ Pop(s) = E => s = P
           /\ s # <<>> /\ Pop(s) = D => s = E
           /\ s = P => Pop(s) = E
           /\ S # D /\ S # E /\ D # E /\ P # S /\ P # D /\ P # E
<1>1. S # D /\ S # E /\ D # E /\ P # S /\ P # D /\ P # E
    BY StackFacts
<1>2. CASE s = <<>>
    BY <1>1, <1>2, StackFacts DEF Stacks
<1>3. CASE s = S
    BY <1>1, <1>3, StackFacts DEF Stacks
<1>4. CASE s = D
    BY <1>1, <1>4, StackFacts DEF Stacks
<1>5. CASE s = E
    BY <1>1, <1>5, StackFacts DEF Stacks
<1>6. CASE s = P
    BY <1>1, <1>6, StackFacts DEF Stacks
<1> QED
    BY <1>2, <1>3, <1>4, <1>5, <1>6 DEF Stacks

-----------------------------------------------------------------------------
(* Finite sets, and the identity of a new save. *)

LEMMA ImageFinite ==
    ASSUME NEW A, IsFiniteSet(A), NEW B, NEW f \in [A -> B]
    PROVE  IsFiniteSet({f[x] : x \in A})
<1> DEFINE T == {f[x] : x \in A}
<1>1. f \in [A -> T]
    OBVIOUS
<1>2. \A t \in T : \E x \in A : f[x] = t
    OBVIOUS
<1>3. f \in Surjection(A, T)
    BY <1>1, <1>2 DEF Surjection
<1> QED
    BY <1>3, FS_Surjection

LEMMA SaveIdsFinite ==
    ASSUME sets \in Seq(Save), updates \subseteq Save, IsFiniteSet(updates)
    PROVE  IsFiniteSet(SaveIds) /\ Cardinality(SaveIds) \in Nat
<1> DEFINE a == [i \in 1 .. Len(sets) |-> sets[i].id]
           b == [s \in updates |-> s.id]
<1>1. Len(sets) \in Nat /\ \A i \in 1 .. Len(sets) : sets[i] \in Save
    OBVIOUS
<1>2. a \in [1 .. Len(sets) -> Nat]
    BY <1>1 DEF Save
<1>3. b \in [updates -> Nat]
    BY DEF Save
<1>4. IsFiniteSet(1 .. Len(sets))
    BY <1>1, FS_Interval
<1>5. IsFiniteSet({a[i] : i \in 1 .. Len(sets)})
    <2> HIDE DEF a
    <2> QED
        BY <1>2, <1>4, ImageFinite
<1>6. IsFiniteSet({b[s] : s \in updates})
    <2> HIDE DEF b
    <2> QED
        BY <1>3, ImageFinite
<1>7. SaveIds = {a[i] : i \in 1 .. Len(sets)} \cup {b[s] : s \in updates}
    BY DEF SaveIds
<1> HIDE DEF a, b
<1>8. IsFiniteSet(SaveIds)
    BY <1>5, <1>6, <1>7, FS_Union
<1> QED
    BY <1>8, FS_CardinalityType

LEMMA NewIdExists ==
    ASSUME sets \in Seq(Save), updates \subseteq Save, IsFiniteSet(updates),
           fetches \in Nat, Cardinality(SaveIds) + fetches < MaxPending
    PROVE  NewId \in Nat /\ NewId \notin SaveIds
<1>1. IsFiniteSet(SaveIds) /\ Cardinality(SaveIds) \in Nat
    BY SaveIdsFinite
<1>2. MaxPending \in Nat /\ Cardinality(SaveIds) < MaxPending
    <2> DEFINE c == Cardinality(SaveIds)
    <2>1. c \in Nat /\ c + fetches < MaxPending
        BY <1>1
    <2>2. MaxPending \in Nat
        BY ProfileConstants
    <2> HIDE DEF c
    <2>3. c < MaxPending
        BY <2>1, <2>2
    <2> QED
        BY <2>2, <2>3 DEF c
<1>3. Cardinality(1 .. MaxPending) = MaxPending
    BY <1>2, <1>1, FS_Interval
<1>4. ~(1 .. MaxPending \subseteq SaveIds)
    BY <1>1, <1>2, <1>3, FS_Subset
<1>5. \E n \in 1 .. MaxPending : n \notin SaveIds
    BY <1>4
<1> QED
    BY <1>2, <1>5 DEF NewId

-----------------------------------------------------------------------------
(* The saves under way, as pages leave. *)

LEMMA SaveFields ==
    ASSUME NEW s \in Save
    PROVE  /\ s.id \in Nat /\ s.data \in Document
           /\ s.at \in {"open", "leaving", "gone"}
           /\ s.text \in Texts \cup {""}
           /\ s.page \in BOOLEAN
BY DEF Save

LEMMA FreezeFacts ==
    ASSUME NEW s \in Save, name \in Texts \cup {""}
    PROVE  /\ Freeze(s) \in Save
           /\ Freeze(s).data = s.data
           /\ Freeze(s).at = s.at
           /\ Freeze(s).page = s.page
BY DEF Freeze, Save

LEMMA AfterPopFacts ==
    ASSUME NEW s \in Save, ~(On("editor") /\ On("detail"))
    PROVE  /\ AfterPop(s) \in Save
           /\ AfterPop(s).data = s.data
           /\ On("editor") => AfterPop(s).at # "open"
           /\ ~On("editor") => AfterPop(s).at = s.at
           /\ ~On("detail") => AfterPop(s).page = s.page
<1>1. CASE On("editor")
    <2>1. AfterPop(s)
            = [s EXCEPT !.at = IF s.at = "open" THEN "leaving" ELSE s.at]
        BY <1>1 DEF AfterPop
    <2> QED
        BY <1>1, <2>1 DEF Save
<1>2. CASE On("detail")
    <2>1. AfterPop(s) = [s EXCEPT !.page = FALSE]
        BY <1>2 DEF AfterPop
    <2> QED
        BY <1>2, <2>1 DEF Save
<1>3. CASE ~On("editor") /\ ~On("detail")
    <2>1. AfterPop(s) = s
        BY <1>3 DEF AfterPop
    <2> QED
        BY <1>3, <2>1
<1> QED
    BY <1>1, <1>2, <1>3

LEMMA ForgetFacts ==
    ASSUME NEW s \in Save
    PROVE  /\ Forget(s) \in Save
           /\ Forget(s).data = s.data
           /\ Forget(s).page = s.page
           /\ Forget(s).at = "open" => s.at = "open"
BY DEF Forget, Save

(* The pages of the current stack. *)
LEMMA PagesNow ==
    ASSUME TypeOK
    PROVE  /\ stack \in Stacks
           /\ On("picker") <=> stack = P
           /\ On("editor") <=> stack = E
           /\ On("detail") <=> stack = D
           /\ On("settings") <=> stack = S
           /\ Below("detail") <=> stack \in {D, E, P}
           /\ Below("editor") <=> stack \in {E, P}
           /\ ~(On("editor") /\ On("detail"))
<1>1. stack \in Stacks
    BY DEF TypeOK, Stacks, S, D, E, P
<1> QED
    BY <1>1, ShapeFacts DEF On, Below

(* The pages of the next stack. *)
LEMMA PagesNext ==
    ASSUME stack' \in Stacks
    PROVE  /\ Below("detail")' <=> stack' \in {D, E, P}
           /\ Below("editor")' <=> stack' \in {E, P}
BY ShapeFacts DEF Below

-----------------------------------------------------------------------------
(* Navigator.pop: no save of a popped editor is open any more; each keeps  *)
(* its data, and its page unless that is what was popped.                  *)

LEMMA PopTopFacts ==
    ASSUME Inv, stack # <<>>, NEW saves \in SUBSET updates, NEW calls \in Nat,
           PopTop(saves, calls), doc' = doc
    PROVE  /\ sets' \in Seq(Save) /\ updates' \subseteq Save
           /\ IsFiniteSet(updates')
           /\ stack' \in Stacks \ {P}
           /\ stack' = D => stack = E
           /\ stack' = E <=> stack = P
           /\ fetches' \in Nat /\ (stack \in {E, P} => fetches' = calls)
           /\ loading' = (loading /\ stack # E)
           /\ \A t \in UnderWay' : \E s \in UnderWay :
                 /\ t.data = s.data
                 /\ t.at = "open" => s.at = "open" /\ stack # E
           /\ stack \in {E, P} =>
                \A s \in UnderWay \ (updates \ saves) :
                    \E t \in UnderWay' : t.page = s.page
           /\ LocalDoc' = LocalDoc
<1>0. TypeOK /\ IsFiniteSet(updates)
    BY DEF Inv
<1>1. /\ stack' = Pop(stack)
      /\ sets' = [i \in 1 .. Len(sets) |-> AfterPop(Freeze(sets[i]))]
      /\ updates' = {AfterPop(s) : s \in saves}
      /\ fetches' = IF On("detail") THEN 0 ELSE calls
      /\ loading' = (loading /\ ~On("editor"))
    BY DEF PopTop
<1>2. /\ name \in Texts \cup {""} /\ sets \in Seq(Save)
      /\ updates \subseteq Save
    BY <1>0 DEF TypeOK
<1>3. Len(sets) \in Nat /\ \A i \in 1 .. Len(sets) : sets[i] \in Save
    BY <1>2, LenProperties, ElementOfSeq
<1>4. ~(On("editor") /\ On("detail"))
    BY <1>0, PagesNow
<1>5. \A i \in 1 .. Len(sets) :
        /\ AfterPop(Freeze(sets[i])) \in Save
        /\ AfterPop(Freeze(sets[i])).data = sets[i].data
        /\ On("editor") => AfterPop(Freeze(sets[i])).at # "open"
        /\ ~On("editor") => AfterPop(Freeze(sets[i])).at = sets[i].at
        /\ ~On("detail") => AfterPop(Freeze(sets[i])).page = sets[i].page
    <2> SUFFICES ASSUME NEW x \in Save
                 PROVE  /\ AfterPop(Freeze(x)) \in Save
                        /\ AfterPop(Freeze(x)).data = x.data
                        /\ On("editor") => AfterPop(Freeze(x)).at # "open"
                        /\ ~On("editor") => AfterPop(Freeze(x)).at = x.at
                        /\ ~On("detail") => AfterPop(Freeze(x)).page = x.page
        BY <1>3
    <2>1. /\ Freeze(x) \in Save
          /\ Freeze(x).data = x.data
          /\ Freeze(x).at = x.at
          /\ Freeze(x).page = x.page
        BY <1>2, FreezeFacts
    <2> QED
        BY <1>4, <2>1, AfterPopFacts
<1>6. \A s \in saves :
        /\ AfterPop(s) \in Save
        /\ AfterPop(s).data = s.data
        /\ On("editor") => AfterPop(s).at # "open"
        /\ ~On("editor") => AfterPop(s).at = s.at
        /\ ~On("detail") => AfterPop(s).page = s.page
    BY <1>2, <1>4, AfterPopFacts
<1>7. sets' \in [1 .. Len(sets) -> Save]
    BY <1>1, <1>5
<1>8. sets' \in Seq(Save) /\ Len(sets') = Len(sets)
    BY <1>3, <1>7
<1>9. \A i \in 1 .. Len(sets) : sets'[i] = AfterPop(Freeze(sets[i]))
    BY <1>1
<1>10. updates' \subseteq Save
    BY <1>1, <1>6
<1>11. IsFiniteSet(updates')
    <2> DEFINE f == [s \in saves |-> AfterPop(s)]
    <2>1. IsFiniteSet(saves)
        BY <1>0, FS_Subset
    <2>2. f \in [saves -> Save]
        BY <1>6
    <2>3. updates' = {f[s] : s \in saves}
        BY <1>1
    <2> HIDE DEF f
    <2> QED
        BY <2>1, <2>2, <2>3, ImageFinite
<1>12. stack \in Stacks /\ stack' \in Stacks \ {P}
    BY <1>0, <1>1, PagesNow, ShapeFacts
<1>13. (stack' = D => stack = E) /\ (stack' = E <=> stack = P)
    BY <1>1, <1>12, ShapeFacts
<1>14. fetches' \in Nat /\ (stack \in {E, P} => fetches' = calls)
    <2>1. stack \in {E, P} => ~On("detail")
        BY <1>0, PagesNow, ShapeFacts, <1>12
    <2> QED
        BY <1>1, <2>1
<1>15. loading' = (loading /\ stack # E)
    BY <1>0, <1>1, PagesNow
<1>16. \A t \in UnderWay' : \E s \in UnderWay :
            /\ t.data = s.data
            /\ t.at = "open" => s.at = "open" /\ stack # E
    <2>1. On("editor") <=> stack = E
        BY <1>0, PagesNow
    <2>2. SUFFICES ASSUME NEW t \in UnderWay'
                   PROVE  \E s \in UnderWay :
                            /\ t.data = s.data
                            /\ On("editor") => t.at # "open"
                            /\ ~On("editor") => t.at = s.at
        BY <2>1
    <2>3. CASE \E i \in 1 .. Len(sets) : t = sets'[i]
        BY <2>3, <1>5, <1>9 DEF UnderWay
    <2>4. CASE t \in updates'
        BY <2>4, <1>1, <1>6 DEF UnderWay
    <2> QED
        BY <2>3, <2>4, <1>8 DEF UnderWay
<1>17. ASSUME stack \in {E, P}, NEW s \in UnderWay \ (updates \ saves)
       PROVE  \E t \in UnderWay' : t.page = s.page
    <2>1. ~On("detail")
        BY <1>0, <1>12, <1>17, PagesNow, ShapeFacts
    <2>2. CASE \E i \in 1 .. Len(sets) : s = sets[i]
        BY <2>1, <2>2, <1>5, <1>8, <1>9 DEF UnderWay
    <2>3. CASE s \in saves
        BY <2>1, <2>3, <1>1, <1>6 DEF UnderWay
    <2> QED
        BY <2>2, <2>3 DEF UnderWay
<1>18. LocalDoc' = LocalDoc
    <2>1. CASE sets = <<>>
        <3>1. sets' = <<>>
            BY <2>1, <1>8, EmptySeq
        <3> QED
            BY <2>1, <3>1 DEF LocalDoc
    <2>2. CASE sets # <<>>
        <3>0. Len(sets) \in Nat \ {0}
            BY <2>2, <1>2, EmptySeq
        <3>1. Len(sets) \in 1 .. Len(sets) /\ sets' # <<>>
            BY <3>0, <1>8, EmptySeq
        <3>2. sets'[Len(sets)].data = sets[Len(sets)].data
            BY <3>1, <1>5, <1>9
        <3>3. sets'[Len(sets')].data = sets[Len(sets)].data
            BY <3>2, <1>8
        <3> QED
            BY <2>2, <3>1, <3>3 DEF LocalDoc
    <2> QED
        BY <2>1, <2>2
<1> QED
    BY <1>8, <1>10, <1>11, <1>12, <1>13, <1>14, <1>15, <1>16, <1>17, <1>18

-----------------------------------------------------------------------------
(* The initial states, and each action. *)

LEMMA InitInv == Init => Inv
<1> SUFFICES ASSUME Init PROVE Inv
    OBVIOUS
<1>1. /\ stack = S /\ fetches = 0 /\ name = "" /\ email = ""
      /\ loading = FALSE /\ sets = <<>> /\ updates = {} /\ outdated = FALSE
      /\ shown = NULL /\ displayName = NULL
      /\ doc = NULL \/ doc \in [name : Texts, email : {Address}]
    BY DEF Init, S
<1>2. sets \in Seq(Save) /\ Len(sets) = 0
    BY <1>1, EmptySeq
<1>3. TypeOK
    <2>1. doc \in Document \cup {NULL}
        BY <1>1 DEF Document
    <2> QED
        BY <1>1, <1>2, <2>1 DEF TypeOK, S
<1>4. UnderWay = {}
    <2>1. 1 .. Len(sets) = {}
        BY <1>2
    <2> QED
        BY <1>1, <2>1 DEF UnderWay
<1>5. ~Below("editor") /\ ~Below("detail")
    BY <1>1, <1>3, PagesNow, ShapeFacts DEF Stacks
<1>6. DocumentComplete
    BY <1>1, ProfileConstants DEF DocumentComplete
<1>7. IsFiniteSet(updates)
    BY <1>1, FS_EmptySet
<1>8. NoOrphanSave /\ SavesFilled /\ NoBlindSave
    BY <1>4 DEF NoOrphanSave, SavesFilled, NoBlindSave
<1>9. LoadInEditor /\ DetailFollows
    BY <1>1, <1>5 DEF LoadInEditor, DetailFollows, Settled
<1> QED
    BY <1>3, <1>6, <1>7, <1>8, <1>9 DEF Inv

(* What the saves say is kept by every step that leaves them alone. *)
LEMMA SameSaves ==
    ASSUME UNCHANGED <<doc, sets, updates>>
    PROVE  /\ UnderWay' = UnderWay
           /\ LocalDoc' = LocalDoc
           /\ SavesFilled => SavesFilled'
           /\ DocumentComplete => DocumentComplete'
           /\ IsFiniteSet(updates) => IsFiniteSet(updates')
<1>1. doc' = doc /\ sets' = sets /\ updates' = updates
    OBVIOUS
<1>2. UnderWay' = UnderWay /\ LocalDoc' = LocalDoc
    BY <1>1 DEF UnderWay, LocalDoc
<1>3. SavesFilled => SavesFilled'
    BY <1>2 DEF SavesFilled, Filled
<1>4. DocumentComplete => DocumentComplete'
    BY <1>1 DEF DocumentComplete
<1> QED
    BY <1>1, <1>2, <1>3, <1>4

LEMMA LocalDocType ==
    ASSUME TypeOK
    PROVE  LocalDoc \in Document \cup {NULL}
<1>1. doc \in Document \cup {NULL} /\ sets \in Seq(Save)
    BY DEF TypeOK
<1>2. CASE sets = <<>>
    BY <1>1, <1>2 DEF LocalDoc
<1>3. CASE sets # <<>>
    <2>1. Len(sets) \in Nat \ {0}
        BY <1>1, <1>3, EmptySeq
    <2>2. sets[Len(sets)] \in Save
        BY <1>1, <2>1, ElementOfSeq
    <2>3. sets[Len(sets)].data \in Document
        BY <2>2, SaveFields
    <2> QED
        BY <1>3, <2>3 DEF LocalDoc
<1> QED
    BY <1>2, <1>3

LEMMA OpenDetailInv ==
    ASSUME Inv, OpenDetail
    PROVE  Inv'
<1>1. /\ stack' = Push(stack, "detail") /\ On("settings")
      /\ shown' = NULL /\ fetches' = 1 /\ outdated' = FALSE
      /\ doc' = doc /\ displayName' = displayName /\ name' = name
      /\ email' = email /\ loading' = loading /\ sets' = sets
      /\ updates' = updates
    BY DEF OpenDetail, editor
<1>2. TypeOK
    BY DEF Inv
<1>3. stack = S /\ stack' = D /\ stack' \in Stacks
    BY <1>1, <1>2, PagesNow, StackFacts DEF Stacks
<1>4. TypeOK'
    BY <1>1, <1>2, <1>3 DEF TypeOK, Stacks, S, D, E, P
<1>5. ~Below("editor") /\ ~Below("editor")'
    BY <1>2, <1>3, PagesNow, PagesNext, StackFacts
<1>6. NoOrphanSave' /\ NoBlindSave'
    BY <1>1, <1>5, SameSaves DEF Inv, NoOrphanSave, NoBlindSave
<1>7. LoadInEditor'
    BY <1>1, <1>5 DEF Inv, LoadInEditor
<1>8. DetailFollows'
    BY <1>1 DEF DetailFollows, Settled
<1> QED
    BY <1>1, <1>4, <1>6, <1>7, <1>8, SameSaves DEF Inv

LEMMA FetchReturnsInv ==
    ASSUME Inv, NEW ok \in BOOLEAN, FetchReturns(ok)
    PROVE  Inv'
<1>1. /\ fetches > 0 /\ fetches' = fetches - 1
      /\ shown' = IF ok THEN LocalDoc ELSE NULL
      /\ outdated' = ~ok
      /\ stack' = stack /\ doc' = doc /\ displayName' = displayName
      /\ name' = name /\ email' = email /\ loading' = loading
      /\ sets' = sets /\ updates' = updates
    BY DEF FetchReturns, editor
<1>2. TypeOK
    BY DEF Inv
<1>3. LocalDoc \in Document \cup {NULL}
    BY <1>2, LocalDocType
<1>4. TypeOK'
    <2>0. fetches \in Nat
        BY <1>2 DEF TypeOK
    <2>1. fetches' \in Nat
        BY <1>1, <2>0
    <2>2. shown' \in Document \cup {NULL}
        BY <1>1, <1>3
    <2> QED
        BY <1>1, <1>2, <2>1, <2>2 DEF TypeOK
<1>5. Below("editor")' = Below("editor")
    BY <1>1 DEF Below
<1>6. NoOrphanSave' /\ NoBlindSave'
    BY <1>1, <1>5, SameSaves DEF Inv, NoOrphanSave, NoBlindSave
<1>7. LoadInEditor'
    BY <1>1, <1>5 DEF Inv, LoadInEditor
<1>8. DetailFollows'
    <2>1. CASE ok
        BY <2>1, <1>1, SameSaves DEF DetailFollows, Settled
    <2>2. CASE ~ok
        BY <2>2, <1>1 DEF DetailFollows, Settled
    <2> QED
        BY <2>1, <2>2
<1> QED
    BY <1>1, <1>4, <1>6, <1>7, <1>8, SameSaves DEF Inv

LEMMA OpenEditorInv ==
    ASSUME Inv, OpenEditor
    PROVE  Inv'
<1>1. /\ stack' = Push(stack, "editor") /\ On("detail")
      /\ name' = "" /\ email' = "" /\ loading' = TRUE
      /\ shown' = shown /\ fetches' = fetches /\ outdated' = outdated
      /\ doc' = doc /\ displayName' = displayName /\ sets' = sets
      /\ updates' = updates
    BY DEF OpenEditor
<1>2. TypeOK
    BY DEF Inv
<1>3. stack = D /\ stack' = E /\ stack' \in Stacks
    BY <1>1, <1>2, PagesNow, StackFacts DEF Stacks
<1>4. TypeOK'
    BY <1>1, <1>2, <1>3 DEF TypeOK, Stacks, S, D, E, P
<1>5. /\ ~Below("editor") /\ Below("editor")'
      /\ Below("detail") /\ Below("detail")'
    BY <1>2, <1>3, PagesNow, PagesNext, StackFacts
<1>6. NoOrphanSave' /\ NoBlindSave'
    BY <1>1, <1>5, SameSaves DEF Inv, NoOrphanSave, NoBlindSave
<1>7. LoadInEditor'
    BY <1>1, <1>5 DEF LoadInEditor
<1>8. DetailFollows'
    BY <1>1, <1>5, SameSaves DEF Inv, DetailFollows, Settled
<1> QED
    BY <1>1, <1>4, <1>6, <1>7, <1>8, SameSaves DEF Inv

LEMMA LoadReturnsInv ==
    ASSUME Inv, NEW ok \in BOOLEAN, LoadReturns(ok)
    PROVE  Inv'
<1>1. /\ loading /\ loading' = FALSE
      /\ name' = IF ok /\ LocalDoc # NULL THEN LocalDoc.name ELSE name
      /\ email' = IF ok THEN Address ELSE email
      /\ stack' = stack /\ doc' = doc /\ displayName' = displayName
      /\ shown' = shown /\ fetches' = fetches /\ sets' = sets
      /\ updates' = updates /\ outdated' = outdated
    BY DEF LoadReturns
<1>2. TypeOK
    BY DEF Inv
<1>3. LocalDoc # NULL => LocalDoc.name \in Texts \cup {""}
    BY <1>2, LocalDocType DEF Document
<1>4. TypeOK'
    <2>1. name' \in Texts \cup {""}
        BY <1>1, <1>2, <1>3 DEF TypeOK
    <2> QED
        BY <1>1, <1>2, <2>1 DEF TypeOK
<1>5. /\ Below("editor")' = Below("editor")
      /\ Below("detail")' = Below("detail")
    BY <1>1 DEF Below
<1>6. NoOrphanSave' /\ NoBlindSave' /\ LoadInEditor'
    BY <1>1, <1>5, SameSaves DEF Inv, NoOrphanSave, NoBlindSave, LoadInEditor
<1>7. DetailFollows'
    BY <1>1, <1>5, SameSaves DEF Inv, DetailFollows, Settled
<1> QED
    BY <1>1, <1>4, <1>6, <1>7, SameSaves DEF Inv

LEMMA TypeInv ==
    ASSUME Inv, NEW text \in Texts \cup {""}, Type(text)
    PROVE  Inv'
<1>1. /\ name' = text /\ email' = email /\ loading' = loading
      /\ stack' = stack /\ doc' = doc /\ displayName' = displayName
      /\ shown' = shown /\ fetches' = fetches /\ sets' = sets
      /\ updates' = updates /\ outdated' = outdated
    BY DEF Type
<1>2. TypeOK'
    BY <1>1 DEF Inv, TypeOK
<1>3. /\ Below("editor")' = Below("editor")
      /\ Below("detail")' = Below("detail")
    BY <1>1 DEF Below
<1>4. NoOrphanSave' /\ NoBlindSave' /\ LoadInEditor'
    BY <1>1, <1>3, SameSaves DEF Inv, NoOrphanSave, NoBlindSave, LoadInEditor
<1>5. DetailFollows'
    BY <1>1, <1>3, SameSaves DEF Inv, DetailFollows, Settled
<1> QED
    BY <1>1, <1>2, <1>4, <1>5, SameSaves DEF Inv

(* The date picker comes and goes above the editor. *)
LEMMA OpenPickerInv ==
    ASSUME Inv, OpenPicker
    PROVE  Inv'
<1>1. /\ stack' = Push(stack, "picker") /\ On("editor")
      /\ name' = name /\ email' = email /\ loading' = loading
      /\ shown' = shown /\ fetches' = fetches /\ outdated' = outdated
      /\ doc' = doc /\ displayName' = displayName /\ sets' = sets
      /\ updates' = updates
    BY DEF OpenPicker, editor
<1>2. TypeOK
    BY DEF Inv
<1>3. stack = E /\ stack' = P /\ stack' \in Stacks
    BY <1>1, <1>2, PagesNow, StackFacts DEF Stacks
<1>4. TypeOK'
    BY <1>1, <1>2, <1>3 DEF TypeOK, Stacks, S, D, E, P
<1>5. /\ Below("editor") /\ Below("editor")'
      /\ Below("detail") /\ Below("detail")'
    BY <1>2, <1>3, PagesNow, PagesNext
<1>6. NoOrphanSave' /\ NoBlindSave' /\ LoadInEditor'
    BY <1>1, <1>5, SameSaves DEF Inv, NoOrphanSave, NoBlindSave, LoadInEditor
<1>7. DetailFollows'
    BY <1>1, <1>5, SameSaves DEF Inv, DetailFollows, Settled
<1> QED
    BY <1>1, <1>4, <1>6, <1>7, SameSaves DEF Inv

LEMMA ConfirmDateInv ==
    ASSUME Inv, NEW text \in Texts, ConfirmDate(text)
    PROVE  Inv'
<1>1. /\ stack' = Pop(stack) /\ On("picker")
      /\ name' = text /\ email' = email /\ loading' = loading
      /\ shown' = shown /\ fetches' = fetches /\ outdated' = outdated
      /\ doc' = doc /\ displayName' = displayName /\ sets' = sets
      /\ updates' = updates
    BY DEF ConfirmDate
<1>2. TypeOK
    BY DEF Inv
<1>3. stack = P /\ stack' = E /\ stack' \in Stacks
    BY <1>1, <1>2, PagesNow, StackFacts DEF Stacks
<1>4. TypeOK'
    BY <1>1, <1>2, <1>3 DEF TypeOK, Stacks, S, D, E, P
<1>5. /\ Below("editor") /\ Below("editor")'
      /\ Below("detail") /\ Below("detail")'
    BY <1>2, <1>3, PagesNow, PagesNext
<1>6. NoOrphanSave' /\ NoBlindSave' /\ LoadInEditor'
    BY <1>1, <1>5, SameSaves DEF Inv, NoOrphanSave, NoBlindSave, LoadInEditor
<1>7. DetailFollows'
    BY <1>1, <1>5, SameSaves DEF Inv, DetailFollows, Settled
<1> QED
    BY <1>1, <1>4, <1>6, <1>7, SameSaves DEF Inv

(* A new save is complete, of the editor on top, and refreshes the page. *)
LEMMA UpdateProfileInv ==
    ASSUME Inv, UpdateProfile
    PROVE  Inv'
<1> DEFINE r == [id |-> NewId, at |-> "open", text |-> "",
                 data |-> [name |-> name, email |-> email],
                 page |-> Below("detail")]
<1>1. /\ On("editor") /\ name # "" /\ email # ""
      /\ Cardinality(SaveIds) + fetches < MaxPending
      /\ sets' = Append(sets, r)
      /\ stack' = stack /\ doc' = doc /\ displayName' = displayName
      /\ shown' = shown /\ fetches' = fetches /\ name' = name
      /\ email' = email /\ loading' = loading
      /\ updates' = updates /\ outdated' = outdated
    BY DEF UpdateProfile, Valid, editor
<1>2. TypeOK /\ IsFiniteSet(updates)
    BY DEF Inv
<1>3. /\ sets \in Seq(Save) /\ updates \subseteq Save /\ fetches \in Nat
      /\ name \in Texts \cup {""} /\ email \in {"", Address}
    BY <1>2 DEF TypeOK
<1>4. Below("detail") = TRUE
    <2>1. Below("detail")
        BY <1>1, <1>2, PagesNow
    <2> QED
        BY <2>1 DEF Below
<1>5. /\ r \in Save /\ r.page = TRUE
      /\ r.data.name = name /\ r.data.email = email
    <2>1. NewId \in Nat
        BY <1>1, <1>2, <1>3, NewIdExists
    <2>2. [name |-> name, email |-> email] \in Document
        BY <1>3 DEF Document
    <2> QED
        BY <1>4, <2>1, <2>2 DEF Save
<1> HIDE DEF r
<1>6. /\ sets' \in Seq(Save) /\ Len(sets') = Len(sets) + 1
      /\ Len(sets) \in Nat
      /\ \A i \in 1 .. Len(sets) : sets'[i] = sets[i]
      /\ sets'[Len(sets) + 1] = r
    <2>1. Len(sets) \in Nat
        BY <1>3, LenProperties
    <2>2. /\ Append(sets, r) \in Seq(Save)
          /\ Len(Append(sets, r)) = Len(sets) + 1
          /\ \A i \in 1 .. Len(sets) : Append(sets, r)[i] = sets[i]
          /\ Append(sets, r)[Len(sets) + 1] = r
        <3>1. r \in Save /\ sets \in Seq(Save)
            BY <1>3, <1>5
        <3> QED
            BY ONLY <3>1, AppendFacts
    <2> QED
        BY <1>1, <2>1, <2>2
<1>7. r \in UnderWay' /\ \A t \in UnderWay' : t = r \/ t \in UnderWay
    <2>1. Len(sets) + 1 \in 1 .. Len(sets')
        BY <1>6
    <2>2. \A i \in 1 .. Len(sets') : i \in 1 .. Len(sets) \/ i = Len(sets) + 1
        BY <1>6
    <2>3. r \in UnderWay'
        BY <1>6, <2>1 DEF UnderWay
    <2>4. ASSUME NEW t \in UnderWay' PROVE t = r \/ t \in UnderWay
        BY <1>1, <1>6, <2>2 DEF UnderWay
    <2> QED
        BY <2>3, <2>4
<1>8. TypeOK'
    BY <1>1, <1>2, <1>6 DEF TypeOK
<1>9. Below("editor")'
    <2>1. Below("editor")
        BY <1>1, <1>2, PagesNow
    <2> QED
        BY <1>1, <2>1 DEF Below
<1>10. NoOrphanSave'
    BY <1>9 DEF NoOrphanSave
<1>11. loading' = FALSE
    <2>1. loading \in BOOLEAN
        BY <1>2 DEF TypeOK
    <2> QED
        BY <1>1, <2>1 DEF Inv, LoadInEditor
<1>12. NoBlindSave' /\ LoadInEditor'
    BY <1>11 DEF NoBlindSave, LoadInEditor
<1>13. SavesFilled'
    <2>1. Filled(r.data)
        BY <1>1, <1>3, <1>5 DEF Filled
    <2>2. \A t \in UnderWay : Filled(t.data)
        BY DEF Inv, SavesFilled
    <2>3. \A t \in UnderWay' : Filled(t.data)
        BY <1>7, <2>1, <2>2
    <2> QED
        BY <2>3 DEF SavesFilled, Filled
<1>14. DocumentComplete'
    BY <1>1 DEF Inv, DocumentComplete
<1>15. DetailFollows'
    BY <1>5, <1>7 DEF DetailFollows, Settled
<1> QED
    BY <1>1, <1>2, <1>8, <1>10, <1>12, <1>13, <1>14, <1>15 DEF Inv

(***************************************************************************)
(* The oldest save goes on: its data becomes the document, or else a       *)
(* request failed.  A read shows what it did.                              *)
(***************************************************************************)
LEMMA SetReturnsInv ==
    ASSUME Inv, NEW ok \in BOOLEAN, SetReturns(ok)
    PROVE  Inv' /\ (ok => LocalDoc' = LocalDoc)
<1> DEFINE s == Head(sets)
           now == IF s.at = "open" THEN name ELSE s.text
           u == [s EXCEPT !.text = now]
<1>1. /\ sets # <<>>
      /\ doc' = IF ok THEN s.data ELSE doc
      /\ updates' = IF ok THEN updates \cup {u} ELSE updates
      /\ sets' = Tail(sets)
      /\ outdated' = (outdated \/ ~ok)
      /\ stack' = stack /\ displayName' = displayName /\ shown' = shown
      /\ fetches' = fetches /\ name' = name /\ email' = email
      /\ loading' = loading
    BY DEF SetReturns, editor
<1>2. TypeOK /\ IsFiniteSet(updates)
    BY DEF Inv
<1>3. /\ sets \in Seq(Save) /\ updates \subseteq Save
      /\ name \in Texts \cup {""}
    BY <1>2 DEF TypeOK
<1>4. /\ Len(sets) \in Nat \ {0}
      /\ sets' \in Seq(Save) /\ Len(sets') = Len(sets) - 1
      /\ \A i \in 1 .. Len(sets') : sets'[i] = sets[i + 1]
    BY <1>1, <1>3, EmptySeq, HeadTailProperties
<1>5. s = sets[1] /\ s \in Save
    <2>1. Head(sets) \in Save
        BY <1>1, <1>3, HeadTailProperties
    <2>2. Head(sets) = sets[1]
        OBVIOUS
    <2> QED
        BY <2>1, <2>2
<1>6. s \in UnderWay
    <2>1. 1 \in 1 .. Len(sets)
        BY <1>4
    <2> QED
        BY <1>5, <2>1 DEF UnderWay
<1>7. /\ u \in Save
      /\ u.data = s.data /\ u.at = s.at /\ u.page = s.page
    <2> HIDE DEF s
    <2>1. now \in Texts \cup {""}
        BY <1>3, <1>5, SaveFields
    <2> HIDE DEF now
    <2> QED
        BY <1>5, <2>1 DEF Save
<1> HIDE DEF s, now, u
<1>8. Filled(s.data)
    BY <1>6 DEF Inv, SavesFilled
<1>9. \A t \in UnderWay' :
        \E x \in UnderWay : t.data = x.data /\ t.at = x.at
    <2> SUFFICES ASSUME NEW t \in UnderWay'
                 PROVE  \E x \in UnderWay : t.data = x.data /\ t.at = x.at
        OBVIOUS
    <2>1. CASE \E i \in 1 .. Len(sets') : t = sets'[i]
        <3>1. PICK i \in 1 .. Len(sets') : t = sets'[i]
            BY <2>1
        <3>2. i + 1 \in 1 .. Len(sets) /\ t = sets[i + 1]
            BY <1>4, <3>1
        <3> QED
            BY <3>2 DEF UnderWay
    <2>2. CASE t \in updates
        BY <2>2 DEF UnderWay
    <2>3. CASE t = u
        BY <2>3, <1>6, <1>7
    <2> QED
        BY <1>1, <2>1, <2>2, <2>3 DEF UnderWay
<1>10. ASSUME ok, NEW x \in UnderWay
       PROVE  \E t \in UnderWay' : t.page = x.page
    <2>1. u \in UnderWay'
        BY <1>1, <1>10 DEF UnderWay
    <2>2. CASE x = s
        BY <2>1, <2>2, <1>7
    <2>3. CASE \E i \in 2 .. Len(sets) : x = sets[i]
        <3>1. PICK i \in 2 .. Len(sets) : x = sets[i]
            BY <2>3
        <3>2. i - 1 \in 1 .. Len(sets') /\ (i - 1) + 1 = i
            BY <1>4, <3>1
        <3>3. x = sets'[i - 1]
            BY <1>4, <3>1, <3>2
        <3> QED
            BY <3>2, <3>3 DEF UnderWay
    <2>4. CASE x \in updates
        BY <1>1, <1>10, <2>4 DEF UnderWay
    <2>5. \A i \in 1 .. Len(sets) : i = 1 \/ i \in 2 .. Len(sets)
        BY <1>4
    <2> QED
        BY <1>5, <2>2, <2>3, <2>4, <2>5 DEF UnderWay
<1>11. ok => LocalDoc' = LocalDoc
    <2>1. CASE Len(sets) = 1
        <3>1. sets' = <<>>
            BY <2>1, <1>4, EmptySeq
        <3> QED
            BY <2>1, <3>1, <1>1, <1>5 DEF LocalDoc
    <2>2. CASE Len(sets) # 1
        <3>1. Len(sets') \in 1 .. Len(sets') /\ Len(sets') + 1 = Len(sets)
            BY <2>2, <1>4
        <3>2. sets'[Len(sets')] = sets[Len(sets)]
            BY <3>1, <1>4
        <3>3. sets' # <<>>
            BY <3>1, EmptySeq
        <3> QED
            BY <3>2, <3>3, <1>1 DEF LocalDoc
    <2> QED
        BY <2>1, <2>2
<1>12. TypeOK'
    <2>1. doc' \in Document \cup {NULL}
        BY <1>1, <1>2, <1>5, SaveFields DEF TypeOK
    <2>2. updates' \subseteq Save
        BY <1>1, <1>3, <1>7
    <2>3. outdated' \in BOOLEAN
        BY <1>1
    <2> QED
        BY <1>1, <1>2, <1>4, <2>1, <2>2, <2>3 DEF TypeOK
<1>13. IsFiniteSet(updates')
    BY <1>1, <1>2, FS_AddElement
<1>14. /\ Below("editor")' = Below("editor")
       /\ Below("detail")' = Below("detail")
    BY <1>1 DEF Below
<1>15. NoOrphanSave' /\ NoBlindSave'
    BY <1>1, <1>9, <1>14 DEF Inv, NoOrphanSave, NoBlindSave
<1>16. LoadInEditor'
    BY <1>1, <1>14 DEF Inv, LoadInEditor
<1>17. SavesFilled'
    BY <1>9 DEF Inv, SavesFilled, Filled
<1>18. DocumentComplete'
    BY <1>1, <1>8 DEF Inv, DocumentComplete, Filled
<1>19. DetailFollows'
    <2>1. CASE ok
        <3>1. Settled' => Settled
            BY <2>1, <1>1, <1>10, <1>14 DEF Settled
        <3> QED
            BY <2>1, <3>1, <1>1, <1>11 DEF Inv, DetailFollows
    <2>2. CASE ~ok
        BY <2>2, <1>1 DEF DetailFollows, Settled
    <2> QED
        BY <2>1, <2>2
<1> QED
    BY <1>11, <1>12, <1>13, <1>15, <1>16, <1>17, <1>18, <1>19 DEF Inv

(* A pop, whoever causes it, keeps all but the page's being up to date. *)
LEMMA PopTopInv ==
    ASSUME Inv, stack # <<>>, NEW saves \in SUBSET updates, NEW calls \in Nat,
           PopTop(saves, calls),
           doc' = doc, shown' = shown, name' = name, email' = email,
           displayName' \in Texts \cup {"", NULL}, outdated' \in BOOLEAN,
           DetailFollows'
    PROVE  Inv'
<1>1. /\ sets' \in Seq(Save) /\ updates' \subseteq Save
      /\ IsFiniteSet(updates') /\ stack' \in Stacks \ {P}
      /\ stack' = E <=> stack = P
      /\ fetches' \in Nat /\ loading' = (loading /\ stack # E)
      /\ \A t \in UnderWay' : \E s \in UnderWay :
            /\ t.data = s.data
            /\ t.at = "open" => s.at = "open" /\ stack # E
    BY PopTopFacts
<1>2. TypeOK'
    BY <1>1 DEF Inv, TypeOK, Stacks, S, D, E, P
<1>a. TypeOK /\ NoOrphanSave /\ LoadInEditor /\ NoBlindSave
    BY DEF Inv
<1>b. /\ Below("editor") <=> stack \in {E, P}
      /\ Below("editor")' <=> stack = P
    BY <1>1, <1>a, PagesNow, PagesNext
<1>3. NoOrphanSave' /\ LoadInEditor' /\ NoBlindSave'
    <2>1. NoOrphanSave'
        BY <1>1, <1>a, <1>b DEF NoOrphanSave
    <2>2. LoadInEditor'
        BY <1>1, <1>a, <1>b DEF LoadInEditor
    <2>3. NoBlindSave'
        BY <1>1, <1>a DEF NoBlindSave
    <2> QED
        BY <2>1, <2>2, <2>3
<1>4. SavesFilled'
    BY <1>1 DEF Inv, SavesFilled, Filled
<1>5. DocumentComplete'
    BY DEF Inv, DocumentComplete
<1> QED
    BY <1>1, <1>2, <1>3, <1>4, <1>5 DEF Inv

LEMMA UpdateReturnsInv ==
    ASSUME Inv, NEW s \in updates, NEW ok \in BOOLEAN, UpdateReturns(s, ok)
    PROVE  Inv' /\ LocalDoc' = LocalDoc
<1> DEFINE calls == IF ok /\ s.page THEN fetches + 1 ELSE fetches
           saves == updates \ {s}
<1>1. /\ IF ok /\ s.at # "gone" /\ stack # <<>>
         THEN PopTop(saves, calls)
         ELSE /\ updates' = saves
              /\ fetches' = calls
              /\ UNCHANGED <<stack, sets, loading>>
      /\ displayName' = IF ok THEN s.text ELSE displayName
      /\ outdated' = (outdated \/ ~ok)
      /\ doc' = doc /\ shown' = shown /\ name' = name /\ email' = email
    BY DEF UpdateReturns
<1>2. TypeOK /\ IsFiniteSet(updates)
    BY DEF Inv
<1>3. s \in Save /\ s \in UnderWay /\ fetches \in Nat
    BY <1>2 DEF TypeOK, UnderWay
<1>4. displayName' \in Texts \cup {"", NULL}
    BY <1>1, <1>2, <1>3, SaveFields DEF TypeOK
<1>5. calls \in Nat /\ (calls = 0 => fetches = 0 /\ ~(ok /\ s.page))
    BY <1>3
<1>6. outdated' \in BOOLEAN /\ (~outdated' => ok /\ ~outdated)
    BY <1>1
<1> HIDE DEF calls, saves
<1>7. CASE ok /\ s.at # "gone" /\ stack # <<>>
    <2>1. PopTop(saves, calls) /\ saves \in SUBSET updates
        BY <1>1, <1>7 DEF saves
    <2>2. /\ stack' \in Stacks \ {P} /\ (stack' = D => stack = E)
          /\ stack' = E <=> stack = P
          /\ stack \in {E, P} => fetches' = calls
          /\ stack \in {E, P} => \A x \in UnderWay \ (updates \ saves) :
                              \E t \in UnderWay' : t.page = x.page
          /\ LocalDoc' = LocalDoc
        BY <1>1, <1>5, <1>7, <2>1, PopTopFacts
    <2>3. Settled' => Settled
        <3> SUFFICES ASSUME Settled' PROVE Settled
            OBVIOUS
        <3>1. stack \in {E, P} /\ Below("detail")
            BY <1>2, <2>2, PagesNow, PagesNext DEF Settled
        <3>2. calls = 0 /\ ~outdated'
            BY <2>2, <3>1 DEF Settled
        <3>3. fetches = 0 /\ ~s.page /\ ~outdated
            BY <1>5, <1>6, <1>7, <3>2
        <3>4. ASSUME NEW x \in UnderWay PROVE ~x.page
            <4>1. CASE x = s
                BY <3>3, <4>1
            <4>2. CASE x # s
                <5>1. x \in UnderWay \ (updates \ saves)
                    BY <4>2 DEF saves
                <5>2. PICK t \in UnderWay' : t.page = x.page
                    BY <2>2, <3>1, <5>1
                <5>3. ~t.page
                    BY DEF Settled
                <5> QED
                    BY <5>2, <5>3
            <4> QED
                BY <4>1, <4>2
        <3> QED
            BY <3>1, <3>3, <3>4 DEF Settled
    <2>4. DetailFollows'
        BY <1>1, <2>2, <2>3 DEF Inv, DetailFollows
    <2> QED
        BY <1>1, <1>4, <1>5, <1>6, <1>7, <2>1, <2>2, <2>4, PopTopInv
<1>8. CASE ~(ok /\ s.at # "gone" /\ stack # <<>>)
    <2>1. /\ updates' = saves /\ fetches' = calls
          /\ stack' = stack /\ sets' = sets /\ loading' = loading
        BY <1>1, <1>8
    <2>2. /\ \A t \in UnderWay' : t \in UnderWay
          /\ \A x \in UnderWay : x = s \/ x \in UnderWay'
        BY <2>1 DEF UnderWay, saves
    <2>3. TypeOK'
        BY <1>1, <1>2, <1>4, <1>5, <1>6, <2>1 DEF TypeOK, saves
    <2>4. IsFiniteSet(updates')
        BY <1>2, <2>1, FS_RemoveElement DEF saves
    <2>5. /\ Below("editor")' = Below("editor")
          /\ Below("detail")' = Below("detail")
        BY <2>1 DEF Below
    <2>6. NoOrphanSave' /\ NoBlindSave'
        BY <2>1, <2>2, <2>5 DEF Inv, NoOrphanSave, NoBlindSave
    <2>7. LoadInEditor' /\ DocumentComplete'
        BY <1>1, <2>1, <2>5 DEF Inv, LoadInEditor, DocumentComplete
    <2>8. SavesFilled'
        BY <2>2 DEF Inv, SavesFilled, Filled
    <2>9. LocalDoc' = LocalDoc
        BY <1>1, <2>1 DEF LocalDoc
    <2>10. DetailFollows'
        <3>1. Settled' => Settled
            <4> SUFFICES ASSUME Settled' PROVE Settled
                OBVIOUS
            <4>1. calls = 0 /\ ~outdated' /\ Below("detail")
                BY <2>1, <2>5 DEF Settled
            <4>2. fetches = 0 /\ ~s.page /\ ~outdated
                BY <1>5, <1>6, <4>1
            <4>3. \A x \in UnderWay : ~x.page
                BY <2>2, <4>2 DEF Settled
            <4> QED
                BY <4>1, <4>2, <4>3 DEF Settled
        <3> QED
            BY <1>1, <2>9, <3>1 DEF Inv, DetailFollows
    <2> QED
        BY <2>3, <2>4, <2>6, <2>7, <2>8, <2>9, <2>10 DEF Inv
<1> QED
    BY <1>7, <1>8

LEMMA BackInv ==
    ASSUME Inv, Back
    PROVE  Inv' /\ LocalDoc' = LocalDoc
<1>1. /\ Len(stack) > 1 /\ PopTop(updates, fetches)
      /\ doc' = doc /\ displayName' = displayName /\ shown' = shown
      /\ name' = name /\ email' = email /\ outdated' = outdated
    BY DEF Back
<1>2. TypeOK
    BY DEF Inv
<1>3. /\ fetches \in Nat /\ displayName \in Texts \cup {"", NULL}
      /\ outdated \in BOOLEAN
    BY <1>2 DEF TypeOK
<1>4. stack # <<>>
    <2>1. Len(<<>>) = 0
        OBVIOUS
    <2> QED
        BY <1>1, <2>1
<1>5. /\ stack' \in Stacks \ {P} /\ (stack' = D => stack = E)
      /\ stack' = E <=> stack = P
      /\ stack \in {E, P} =>
            /\ fetches' = fetches
            /\ \A x \in UnderWay : \E t \in UnderWay' : t.page = x.page
      /\ LocalDoc' = LocalDoc
    <2>1. updates \in SUBSET updates /\ updates \ updates = {}
        OBVIOUS
    <2>2. UnderWay \ (updates \ updates) = UnderWay
        BY <2>1
    <2> QED
        BY <1>1, <1>3, <1>4, <2>1, <2>2, PopTopFacts
<1>6. Settled' => Settled
    <2> SUFFICES ASSUME Settled' PROVE Settled
        OBVIOUS
    <2>1. stack \in {E, P} /\ Below("detail")
        BY <1>2, <1>5, PagesNow, PagesNext DEF Settled
    <2>2. fetches = 0 /\ ~outdated
        BY <1>1, <1>5, <2>1 DEF Settled
    <2>3. \A x \in UnderWay : ~x.page
        BY <1>5, <2>1 DEF Settled
    <2> QED
        BY <2>1, <2>2, <2>3 DEF Settled
<1>7. DetailFollows'
    BY <1>1, <1>5, <1>6 DEF Inv, DetailFollows
<1> QED
    BY <1>1, <1>3, <1>4, <1>5, <1>7, PopTopInv

LEMMA TransitionEndsInv ==
    ASSUME Inv, TransitionEnds
    PROVE  Inv' /\ LocalDoc' = LocalDoc
<1>1. /\ sets' = [i \in 1 .. Len(sets) |-> Forget(sets[i])]
      /\ updates' = {Forget(s) : s \in updates}
      /\ stack' = stack /\ doc' = doc /\ displayName' = displayName
      /\ shown' = shown /\ fetches' = fetches /\ name' = name
      /\ email' = email /\ loading' = loading /\ outdated' = outdated
    BY DEF TransitionEnds, editor
<1>2. TypeOK /\ IsFiniteSet(updates)
    BY DEF Inv
<1>3. sets \in Seq(Save) /\ updates \subseteq Save
    BY <1>2 DEF TypeOK
<1>4. Len(sets) \in Nat /\ \A i \in 1 .. Len(sets) : sets[i] \in Save
    BY <1>3, LenProperties, ElementOfSeq
<1>5. \A x \in Save : /\ Forget(x) \in Save
                      /\ Forget(x).data = x.data
                      /\ Forget(x).page = x.page
                      /\ Forget(x).at = "open" => x.at = "open"
    BY ForgetFacts
<1>6. sets' \in [1 .. Len(sets) -> Save]
    BY <1>1, <1>4, <1>5
<1>7. sets' \in Seq(Save) /\ Len(sets') = Len(sets)
    BY <1>4, <1>6
<1>8. \A i \in 1 .. Len(sets) : sets'[i] = Forget(sets[i])
    BY <1>1
<1>9. updates' \subseteq Save
    BY <1>1, <1>3, <1>5
<1>10. IsFiniteSet(updates')
    <2> DEFINE f == [s \in updates |-> Forget(s)]
    <2>1. f \in [updates -> Save]
        BY <1>3, <1>5
    <2>2. updates' = {f[s] : s \in updates}
        BY <1>1
    <2> HIDE DEF f
    <2> QED
        BY <1>2, <2>1, <2>2, ImageFinite
<1>11. \A t \in UnderWay' :
        \E x \in UnderWay : t.data = x.data /\ (t.at = "open" => x.at = "open")
    BY <1>1, <1>3, <1>4, <1>5, <1>7, <1>8 DEF UnderWay
<1>12. \A x \in UnderWay : \E t \in UnderWay' : t.page = x.page
    BY <1>1, <1>3, <1>4, <1>5, <1>7, <1>8 DEF UnderWay
<1>13. LocalDoc' = LocalDoc
    <2>1. CASE sets = <<>>
        <3>1. sets' = <<>>
            BY <2>1, <1>7, EmptySeq
        <3> QED
            BY <2>1, <3>1, <1>1 DEF LocalDoc
    <2>2. CASE sets # <<>>
        <3>1. Len(sets) \in Nat \ {0}
            BY <2>2, <1>3, EmptySeq
        <3>2. Len(sets) \in 1 .. Len(sets) /\ sets' # <<>>
            BY <3>1, <1>7, EmptySeq
        <3>3. sets'[Len(sets)].data = sets[Len(sets)].data
            BY <3>2, <1>4, <1>5, <1>8
        <3>4. sets'[Len(sets')].data = sets[Len(sets)].data
            BY <3>3, <1>7
        <3> QED
            BY <2>2, <3>2, <3>4 DEF LocalDoc
    <2> QED
        BY <2>1, <2>2
<1>14. TypeOK'
    BY <1>1, <1>2, <1>7, <1>9 DEF TypeOK
<1>15. /\ Below("editor")' = Below("editor")
       /\ Below("detail")' = Below("detail")
    BY <1>1 DEF Below
<1>16. NoOrphanSave' /\ NoBlindSave'
    BY <1>1, <1>11, <1>15 DEF Inv, NoOrphanSave, NoBlindSave
<1>17. LoadInEditor' /\ DocumentComplete'
    BY <1>1, <1>15 DEF Inv, LoadInEditor, DocumentComplete
<1>18. SavesFilled'
    BY <1>11 DEF Inv, SavesFilled, Filled
<1>19. DetailFollows'
    <2>1. Settled' => Settled
        BY <1>1, <1>12, <1>15 DEF Settled
    <2> QED
        BY <1>1, <1>13, <2>1 DEF Inv, DetailFollows
<1> QED
    BY <1>10, <1>13, <1>14, <1>16, <1>17, <1>18, <1>19 DEF Inv

LEMMA StutterInv ==
    ASSUME Inv, UNCHANGED vars
    PROVE  Inv'
<1>1. /\ stack' = stack /\ doc' = doc /\ displayName' = displayName
      /\ shown' = shown /\ fetches' = fetches /\ name' = name
      /\ email' = email /\ loading' = loading /\ sets' = sets
      /\ updates' = updates /\ outdated' = outdated
    BY DEF vars
<1>2. TypeOK'
    BY <1>1 DEF Inv, TypeOK
<1>3. /\ Below("editor")' = Below("editor")
      /\ Below("detail")' = Below("detail")
    BY <1>1 DEF Below
<1>4. NoOrphanSave' /\ NoBlindSave' /\ LoadInEditor'
    BY <1>1, <1>3, SameSaves DEF Inv, NoOrphanSave, NoBlindSave, LoadInEditor
<1>5. DetailFollows'
    BY <1>1, <1>3, SameSaves DEF Inv, DetailFollows, Settled
<1> QED
    BY <1>1, <1>2, <1>4, <1>5, SameSaves DEF Inv

LEMMA NextInv == Inv /\ [Next]_vars => Inv'
<1> SUFFICES ASSUME Inv, [Next]_vars PROVE Inv'
    OBVIOUS
<1>1. CASE OpenDetail
    BY <1>1, OpenDetailInv
<1>2. CASE \E ok \in BOOLEAN : FetchReturns(ok)
    BY <1>2, FetchReturnsInv
<1>3. CASE OpenEditor
    BY <1>3, OpenEditorInv
<1>4. CASE \E ok \in BOOLEAN : LoadReturns(ok)
    BY <1>4, LoadReturnsInv
<1>5. CASE \E text \in Texts \cup {""} : Type(text)
    BY <1>5, TypeInv
<1>6. CASE UpdateProfile
    BY <1>6, UpdateProfileInv
<1>7. CASE \E ok \in BOOLEAN : SetReturns(ok)
    BY <1>7, SetReturnsInv
<1>8. CASE \E s \in updates, ok \in BOOLEAN : UpdateReturns(s, ok)
    BY <1>8, UpdateReturnsInv
<1>9. CASE Back
    BY <1>9, BackInv
<1>10. CASE TransitionEnds
    BY <1>10, TransitionEndsInv
<1>11. CASE UNCHANGED vars
    BY <1>11, StutterInv
<1>12. CASE OpenPicker
    BY <1>12, OpenPickerInv
<1>13. CASE \E text \in Texts : ConfirmDate(text)
    BY <1>13, ConfirmDateInv
<1> QED
    BY <1>1, <1>2, <1>3, <1>4, <1>5, <1>6, <1>7, <1>8, <1>9, <1>10, <1>11,
       <1>12, <1>13
    DEF Next

-----------------------------------------------------------------------------

(* The invariant the properties follow from. *)
THEOREM Invariance == Spec => []Inv
BY InitInv, NextInv, PTL DEF Spec

(* Every variable of the profile page and its editor keeps its type. *)
THEOREM TypeCorrect == Spec => []TypeOK
<1>1. Inv => TypeOK
    BY DEF Inv
<1> QED
    BY <1>1, Invariance, PTL

(***************************************************************************)
(* No editor saves while it is loading, although _updateProfile does not   *)
(* wait for the load.                                                      *)
(***************************************************************************)
THEOREM SavesAreLoaded == Spec => []NoBlindSave
<1>1. Inv => NoBlindSave
    BY DEF Inv
<1> QED
    BY <1>1, Invariance, PTL

(***************************************************************************)
(* The document profiles/<uid> is never incomplete, whichever sets succeed *)
(* and in whatever order the editors save.                                 *)
(***************************************************************************)
THEOREM DocumentStaysComplete == Spec => []DocumentComplete
<1>1. Inv => DocumentComplete
    BY DEF Inv
<1> QED
    BY <1>1, Invariance, PTL

(***************************************************************************)
(* Once nothing is under way, the profile page shows the stored document,  *)
(* or a request failed since its last refresh.                             *)
(***************************************************************************)
THEOREM DetailIsUpToDate == Spec => []DetailUpToDate
<1>1. Inv => DetailUpToDate
    <2> SUFFICES ASSUME Inv, Below("detail"), fetches = 0, UnderWay = {},
                        ~outdated
                 PROVE  shown = doc
        BY DEF DetailUpToDate
    <2>1. shown = LocalDoc
        BY DEF Inv, DetailFollows, Settled
    <2>2. sets \in Seq(Save)
        BY DEF Inv, TypeOK
    <2>3. sets = <<>>
        <3> SUFFICES ASSUME sets # <<>> PROVE FALSE
            OBVIOUS
        <3>1. Len(sets) \in Nat \ {0}
            BY <2>2, EmptySeq
        <3>2. 1 \in 1 .. Len(sets)
            BY <3>1
        <3>3. sets[1] \in UnderWay
            BY <3>2 DEF UnderWay
        <3> QED
            BY <3>3
    <2> QED
        BY <2>1, <2>3 DEF LocalDoc
<1> QED
    BY <1>1, Invariance, PTL

(***************************************************************************)
(* Read your writes: the document a read shows changes only when the       *)
(* editor saves, or when a set is rejected.  Neither the answers of the    *)
(* sets, nor the steps of _updateProfile after them, nor the pages that    *)
(* come and go meanwhile make it show an older profile.                    *)
(***************************************************************************)
THEOREM ReadYourWrites ==
    Spec => [][LocalDoc' # LocalDoc => UpdateProfile \/ SetReturns(FALSE)]_vars
<1>1. ASSUME Inv, [Next]_vars
      PROVE  LocalDoc' = LocalDoc \/ UpdateProfile \/ SetReturns(FALSE)
    <2>1. CASE UNCHANGED <<doc, sets, updates>>
        BY <2>1, SameSaves
    <2>2. CASE \E ok \in BOOLEAN : SetReturns(ok)
        BY <1>1, <2>2, SetReturnsInv
    <2>3. CASE \E s \in updates, ok \in BOOLEAN : UpdateReturns(s, ok)
        BY <1>1, <2>3, UpdateReturnsInv
    <2>4. CASE Back
        BY <1>1, <2>4, BackInv
    <2>5. CASE TransitionEnds
        BY <1>1, <2>5, TransitionEndsInv
    <2> QED
        BY <1>1, <2>1, <2>2, <2>3, <2>4, <2>5
        DEF Next, OpenDetail, FetchReturns, OpenEditor, LoadReturns, Type,
            OpenPicker, ConfirmDate, vars
<1>2. Inv /\ [Next]_vars =>
        [LocalDoc' # LocalDoc => UpdateProfile \/ SetReturns(FALSE)]_vars
    BY <1>1
<1> QED
    BY <1>2, Invariance, PTL DEF Spec

-----------------------------------------------------------------------------
(* Saves are told apart, and each goes on until its own answer. *)

Separate ==
    /\ \A i, j \in 1 .. Len(sets) : sets[i].id = sets[j].id => i = j
    /\ \A x, y \in updates : x.id = y.id => x = y
    /\ \A i \in 1 .. Len(sets), x \in updates : sets[i].id # x.id

(* t is the save s, perhaps a step on, its pages perhaps further gone. *)
Same(t, s) ==
    /\ t.id = s.id /\ t.data = s.data
    /\ t.at = "open" => s.at = "open"
    /\ s.at = "gone" => t.at = "gone"
    /\ t.page => s.page

(* The save s goes on; its set is not made again. *)
GoesOn(s) == \E t \in UnderWay' : Same(t, s) /\ (s \in updates => t \in updates')

(* The save s ends: its set is rejected, or its display name answered. *)
Ends(s) ==
    \/ sets # <<>> /\ s = Head(sets) /\ SetReturns(FALSE)
    \/ \E ok \in BOOLEAN : UpdateReturns(s, ok)

LEMMA FreezeSame ==
    ASSUME NEW s \in Save, name \in Texts \cup {""}
    PROVE  Freeze(s) \in Save /\ Same(Freeze(s), s)
BY DEF Freeze, Save, Same

LEMMA AfterPopSame ==
    ASSUME NEW s \in Save, ~(On("editor") /\ On("detail"))
    PROVE  Same(AfterPop(s), s)
<1>1. CASE On("editor")
    <2>1. AfterPop(s)
            = [s EXCEPT !.at = IF s.at = "open" THEN "leaving" ELSE s.at]
        BY <1>1 DEF AfterPop
    <2> QED
        BY <2>1 DEF Save, Same
<1>2. CASE On("detail")
    <2>1. AfterPop(s) = [s EXCEPT !.page = FALSE]
        BY <1>2 DEF AfterPop
    <2> QED
        BY <2>1 DEF Save, Same
<1>3. CASE ~On("editor") /\ ~On("detail")
    <2>1. AfterPop(s) = s
        BY <1>3 DEF AfterPop
    <2> QED
        BY <2>1 DEF Same
<1> QED
    BY <1>1, <1>2, <1>3

LEMMA ForgetSame ==
    ASSUME NEW s \in Save
    PROVE  Same(Forget(s), s)
BY DEF Forget, Save, Same

(* A step that only moves pages, and ends the saves not in rest. *)
LEMMA MovedPages ==
    ASSUME Separate, Len(sets) \in Nat, Len(sets') = Len(sets),
           \A i \in 1 .. Len(sets) : Same(sets'[i], sets[i]),
           NEW rest \in SUBSET updates, NEW f,
           updates' = {f[s] : s \in rest}, \A s \in rest : Same(f[s], s)
    PROVE  /\ Separate'
           /\ \A s \in UnderWay : s \in updates \ rest \/ GoesOn(s)
<1>1. ASSUME NEW i \in 1 .. Len(sets), NEW j \in 1 .. Len(sets),
             sets'[i].id = sets'[j].id
      PROVE  i = j
    <2>1. sets'[i].id = sets[i].id /\ sets'[j].id = sets[j].id
        BY DEF Same
    <2> QED
        BY <1>1, <2>1 DEF Separate
<1>2. ASSUME NEW x \in updates', NEW y \in updates', x.id = y.id
      PROVE  x = y
    <2>1. PICK a \in rest : x = f[a]
        OBVIOUS
    <2>2. PICK b \in rest : y = f[b]
        OBVIOUS
    <2>3. a.id = x.id /\ b.id = y.id /\ a \in updates /\ b \in updates
        BY <2>1, <2>2 DEF Same
    <2>4. a = b
        BY <1>2, <2>3 DEF Separate
    <2> QED
        BY <2>1, <2>2, <2>4
<1>3. ASSUME NEW i \in 1 .. Len(sets), NEW x \in updates'
      PROVE  sets'[i].id # x.id
    <2>1. PICK a \in rest : x = f[a]
        OBVIOUS
    <2>2. a.id = x.id /\ sets'[i].id = sets[i].id /\ a \in updates
        BY <2>1 DEF Same
    <2> QED
        BY <2>2 DEF Separate
<1>4. Separate'
    BY <1>1, <1>2, <1>3 DEF Separate
<1>5. ASSUME NEW i \in 1 .. Len(sets)
      PROVE  GoesOn(sets[i])
    <2>1. sets'[i] \in UnderWay' /\ Same(sets'[i], sets[i])
        BY DEF UnderWay
    <2>2. sets[i] \notin updates
        BY DEF Separate
    <2> QED
        BY <2>1, <2>2 DEF GoesOn
<1>6. ASSUME NEW s \in rest
      PROVE  GoesOn(s)
    <2>1. f[s] \in updates' /\ f[s] \in UnderWay' /\ Same(f[s], s)
        BY DEF UnderWay
    <2> QED
        BY <2>1 DEF GoesOn
<1>7. ASSUME NEW s \in UnderWay
      PROVE  s \in updates \ rest \/ GoesOn(s)
    <2>1. CASE s \in updates
        BY <2>1, <1>6
    <2>2. CASE s \notin updates
        <3>1. PICK i \in 1 .. Len(sets) : s = sets[i]
            BY <2>2 DEF UnderWay
        <3> QED
            BY <3>1, <1>5
    <2> QED
        BY <2>1, <2>2
<1> QED
    BY <1>4, <1>7

LEMMA PopTopSame ==
    ASSUME Inv, Separate, NEW rest \in SUBSET updates, NEW calls,
           PopTop(rest, calls)
    PROVE  /\ Separate'
           /\ \A s \in UnderWay : s \in updates \ rest \/ GoesOn(s)
<1> DEFINE f == [s \in rest |-> AfterPop(s)]
<1>1. /\ sets' = [i \in 1 .. Len(sets) |-> AfterPop(Freeze(sets[i]))]
      /\ updates' = {f[s] : s \in rest}
    BY DEF PopTop
<1>2. /\ name \in Texts \cup {""} /\ sets \in Seq(Save)
      /\ updates \subseteq Save
      /\ ~(On("editor") /\ On("detail"))
    BY PagesNow DEF Inv, TypeOK
<1>3. Len(sets) \in Nat /\ \A i \in 1 .. Len(sets) : sets[i] \in Save
    BY <1>2, LenProperties, ElementOfSeq
<1>4. Len(sets') = Len(sets)
    BY <1>1, <1>3
<1>5. ASSUME NEW i \in 1 .. Len(sets)
      PROVE  Same(sets'[i], sets[i])
    <2>1. Freeze(sets[i]) \in Save /\ Same(Freeze(sets[i]), sets[i])
        BY <1>2, <1>3, FreezeSame
    <2>2. Same(AfterPop(Freeze(sets[i])), Freeze(sets[i]))
        BY <1>2, <2>1, AfterPopSame
    <2>3. sets'[i] = AfterPop(Freeze(sets[i]))
        BY <1>1
    <2> QED
        BY <2>1, <2>2, <2>3 DEF Same
<1>6. \A s \in rest : Same(f[s], s)
    BY <1>2, AfterPopSame
<1> HIDE DEF f
<1> QED
    BY <1>1, <1>3, <1>4, <1>5, <1>6, MovedPages

LEMMA TransitionEndsSame ==
    ASSUME Inv, Separate, TransitionEnds
    PROVE  Separate' /\ \A s \in UnderWay : GoesOn(s)
<1> DEFINE f == [s \in updates |-> Forget(s)]
<1>1. /\ sets' = [i \in 1 .. Len(sets) |-> Forget(sets[i])]
      /\ updates' = {f[s] : s \in updates}
    BY DEF TransitionEnds
<1>2. sets \in Seq(Save) /\ updates \subseteq Save
    BY DEF Inv, TypeOK
<1>3. Len(sets) \in Nat /\ \A i \in 1 .. Len(sets) : sets[i] \in Save
    BY <1>2, LenProperties, ElementOfSeq
<1>4. Len(sets') = Len(sets)
    BY <1>1, <1>3
<1>5. \A i \in 1 .. Len(sets) : Same(sets'[i], sets[i])
    BY <1>1, <1>3, ForgetSame
<1>6. \A s \in updates : Same(f[s], s)
    BY <1>2, ForgetSame
<1> HIDE DEF f
<1>7. /\ Separate'
      /\ \A s \in UnderWay : s \in updates \ updates \/ GoesOn(s)
    BY <1>1, <1>3, <1>4, <1>5, <1>6, MovedPages
<1> QED
    BY <1>7

LEMMA UpdateReturnsSame ==
    ASSUME Inv, Separate, NEW s \in updates, NEW ok \in BOOLEAN,
           UpdateReturns(s, ok)
    PROVE  Separate' /\ \A x \in UnderWay : x = s \/ GoesOn(x)
<1> DEFINE calls == IF ok /\ s.page THEN fetches + 1 ELSE fetches
           rest == updates \ {s}
<1>1. \/ PopTop(rest, calls)
      \/ updates' = rest /\ sets' = sets
    BY DEF UpdateReturns
<1>2. rest \in SUBSET updates /\ updates \ rest = {s}
    OBVIOUS
<1>3. CASE PopTop(rest, calls)
    <2> HIDE DEF rest, calls
    <2>1. /\ Separate'
          /\ \A x \in UnderWay : x \in updates \ rest \/ GoesOn(x)
        BY <1>2, <1>3, PopTopSame
    <2> QED
        BY <1>2, <2>1
<1>4. CASE updates' = rest /\ sets' = sets
    <2>1. Separate'
        BY <1>4 DEF Separate
    <2>2. ASSUME NEW x \in UnderWay, x # s
          PROVE  GoesOn(x)
        <3>1. x \in UnderWay' /\ (x \in updates => x \in updates')
            BY <1>4, <2>2 DEF UnderWay
        <3> QED
            BY <3>1 DEF GoesOn, Same
    <2> QED
        BY <2>1, <2>2
<1> QED
    BY <1>1, <1>3, <1>4

LEMMA UpdateProfileSame ==
    ASSUME Inv, Separate, UpdateProfile
    PROVE  Separate' /\ \A s \in UnderWay : GoesOn(s)
<1> DEFINE r == [id |-> NewId, at |-> "open", text |-> "",
                 data |-> [name |-> name, email |-> email],
                 page |-> Below("detail")]
<1>1. /\ Cardinality(SaveIds) + fetches < MaxPending
      /\ sets' = Append(sets, r) /\ updates' = updates
    BY DEF UpdateProfile
<1>2. /\ sets \in Seq(Save) /\ updates \subseteq Save /\ fetches \in Nat
      /\ IsFiniteSet(updates)
    BY DEF Inv, TypeOK
<1>3. r.id \notin SaveIds
    BY <1>1, <1>2, NewIdExists
<1> HIDE DEF r
<1>4. /\ Len(sets) \in Nat /\ Len(sets') = Len(sets) + 1
      /\ \A i \in 1 .. Len(sets) : sets'[i] = sets[i]
      /\ sets'[Len(sets) + 1] = r
    BY <1>1, <1>2
<1>5. \A i \in 1 .. Len(sets') : i \in 1 .. Len(sets) \/ i = Len(sets) + 1
    BY <1>4
<1>6. /\ \A i \in 1 .. Len(sets) : sets[i].id # r.id
      /\ \A x \in updates : x.id # r.id
    BY <1>3 DEF SaveIds
<1>7. Separate'
    <2>1. ASSUME NEW i \in 1 .. Len(sets'), NEW j \in 1 .. Len(sets'),
                 sets'[i].id = sets'[j].id
          PROVE  i = j
        BY <1>4, <1>5, <1>6, <2>1 DEF Separate
    <2>2. ASSUME NEW i \in 1 .. Len(sets'), NEW x \in updates'
          PROVE  sets'[i].id # x.id
        BY <1>1, <1>4, <1>5, <1>6 DEF Separate
    <2> QED
        BY <1>1, <2>1, <2>2 DEF Separate
<1>8. ASSUME NEW s \in UnderWay
      PROVE  s \in UnderWay' /\ (s \in updates => s \in updates')
    <2>1. \A i \in 1 .. Len(sets) : i \in 1 .. Len(sets')
        BY <1>4
    <2> QED
        BY <1>1, <1>4, <2>1 DEF UnderWay
<1> QED
    BY <1>7, <1>8 DEF GoesOn, Same

LEMMA SetReturnsSame ==
    ASSUME Inv, Separate, NEW ok \in BOOLEAN, SetReturns(ok)
    PROVE  /\ Separate' /\ sets # <<>>
           /\ \A s \in UnderWay : (~ok /\ s = Head(sets)) \/ GoesOn(s)
<1> DEFINE h == Head(sets)
           now == IF h.at = "open" THEN name ELSE h.text
           u == [h EXCEPT !.text = now]
<1>1. /\ sets # <<>>
      /\ updates' = IF ok THEN updates \cup {u} ELSE updates
      /\ sets' = Tail(sets)
    BY DEF SetReturns
<1>2. sets \in Seq(Save) /\ updates \subseteq Save
    BY DEF Inv, TypeOK
<1>3. /\ Len(sets) \in Nat \ {0} /\ Len(sets') = Len(sets) - 1
      /\ \A i \in 1 .. Len(sets') : sets'[i] = sets[i + 1]
    BY <1>1, <1>2, EmptySeq, HeadTailProperties
<1>4. h = sets[1] /\ 1 \in 1 .. Len(sets) /\ h \in Save
    BY <1>1, <1>2, <1>3, HeadTailProperties
<1>5. Same(u, h)
    <2> HIDE DEF h, now
    <2> QED
        BY <1>4 DEF Save, Same
<1> HIDE DEF now, u
<1>6. \A i \in 1 .. Len(sets') : i + 1 \in 1 .. Len(sets) /\ i + 1 # 1
    BY <1>3
<1>7. \A x \in updates' : x \in updates \/ x = u
    BY <1>1
<1>8. u.id = sets[1].id
    BY <1>4, <1>5 DEF Same
<1> HIDE DEF h
<1>9. Separate'
    <2>1. ASSUME NEW i \in 1 .. Len(sets'), NEW j \in 1 .. Len(sets'),
                 sets'[i].id = sets'[j].id
          PROVE  i = j
        <3>1. sets[i + 1].id = sets[j + 1].id
            BY <1>3, <2>1
        <3>2. i + 1 = j + 1
            BY <1>6, <3>1 DEF Separate
        <3> QED
            BY <1>3, <3>2
    <2>2. ASSUME NEW i \in 1 .. Len(sets'), NEW x \in updates'
          PROVE  sets'[i].id # x.id
        <3>1. sets'[i].id = sets[i + 1].id
            BY <1>3
        <3>2. sets[i + 1].id # sets[1].id
            BY <1>4, <1>6 DEF Separate
        <3>3. \A y \in updates : sets[i + 1].id # y.id
            BY <1>6 DEF Separate
        <3> QED
            BY <1>7, <1>8, <3>1, <3>2, <3>3
    <2>3. ASSUME NEW x \in updates', NEW y \in updates', x.id = y.id
          PROVE  x = y
        <3>1. \A z \in updates : z.id # u.id
            BY <1>4, <1>8 DEF Separate
        <3> QED
            BY <1>7, <2>3, <3>1 DEF Separate
    <2> QED
        BY <2>1, <2>2, <2>3 DEF Separate
<1>10. ASSUME NEW s \in UnderWay
       PROVE  (~ok /\ s = h) \/ GoesOn(s)
    <2>1. CASE s \in updates
        <3>1. s \in updates' /\ s \in UnderWay'
            BY <1>1, <2>1 DEF UnderWay
        <3> QED
            BY <3>1 DEF GoesOn, Same
    <2>2. CASE s \notin updates /\ s = h /\ ok
        <3>1. u \in updates' /\ u \in UnderWay'
            BY <1>1, <2>2 DEF UnderWay
        <3> QED
            BY <1>5, <2>2, <3>1 DEF GoesOn
    <2>3. ASSUME s \notin updates, NEW i \in 2 .. Len(sets), s = sets[i]
          PROVE  GoesOn(s)
        <3>1. i - 1 \in 1 .. Len(sets') /\ (i - 1) + 1 = i
            BY <1>3
        <3>2. s = sets'[i - 1]
            BY <1>3, <2>3, <3>1
        <3>3. s \in UnderWay'
            BY <3>1, <3>2 DEF UnderWay
        <3> QED
            BY <2>3, <3>3 DEF GoesOn, Same
    <2>4. \A i \in 1 .. Len(sets) : i = 1 \/ i \in 2 .. Len(sets)
        BY <1>3
    <2> QED
        BY <1>4, <2>1, <2>2, <2>3, <2>4 DEF UnderWay
<1> QED
    BY <1>1, <1>9, <1>10 DEF h

LEMMA SavesStep ==
    ASSUME Inv, Separate, [Next]_vars
    PROVE  Separate' /\ \A s \in UnderWay : Ends(s) \/ GoesOn(s)
<1>1. CASE sets' = sets /\ updates' = updates
    <2>1. Separate'
        BY <1>1 DEF Separate
    <2>2. UnderWay' = UnderWay
        BY <1>1 DEF UnderWay
    <2> QED
        BY <1>1, <2>1, <2>2 DEF GoesOn, Same
<1>2. CASE \E ok \in BOOLEAN : SetReturns(ok)
    <2>1. PICK ok \in BOOLEAN : SetReturns(ok)
        BY <1>2
    <2>2. CASE ok = FALSE
        BY <2>1, <2>2, SetReturnsSame DEF Ends
    <2>3. CASE ok = TRUE
        BY <2>1, <2>3, SetReturnsSame
    <2> QED
        BY <2>2, <2>3
<1>3. CASE \E s \in updates, ok \in BOOLEAN : UpdateReturns(s, ok)
    BY <1>3, UpdateReturnsSame DEF Ends
<1>4. CASE Back
    <2>1. PopTop(updates, fetches) /\ updates \in SUBSET updates
        BY <1>4 DEF Back
    <2>2. /\ Separate'
          /\ \A s \in UnderWay : s \in updates \ updates \/ GoesOn(s)
        BY <2>1, PopTopSame
    <2> QED
        BY <2>2
<1>5. CASE TransitionEnds
    BY <1>5, TransitionEndsSame
<1>6. CASE UpdateProfile
    BY <1>6, UpdateProfileSame
<1> QED
    BY <1>1, <1>2, <1>3, <1>4, <1>5, <1>6
    DEF Next, OpenDetail, FetchReturns, OpenEditor, LoadReturns, Type,
            OpenPicker, ConfirmDate, vars

(* The ids tell the saves apart. *)
LEMMA SavesDistinct == Spec => []Separate
<1>1. Init => Separate
    <2> SUFFICES ASSUME Init PROVE Separate
        OBVIOUS
    <2>1. sets = <<>> /\ updates = {}
        BY DEF Init
    <2>2. 1 .. Len(sets) = {}
        BY <2>1
    <2> QED
        BY <2>1, <2>2 DEF Separate
<1>2. Inv /\ Separate /\ [Next]_vars => Separate'
    BY SavesStep
<1> QED
    BY <1>1, <1>2, Invariance, PTL DEF Spec

(***************************************************************************)
(* No save is lost and none is repeated: each stays under way with the     *)
(* data it sent, one that has been set is not set again, and an editor or  *)
(* a profile page that has gone is never found again, until the set is     *)
(* rejected in its turn or the answer to its own display name ends it.     *)
(***************************************************************************)
THEOREM SavesComplete ==
    Spec => [][\A s \in UnderWay : Ends(s) \/ GoesOn(s)]_vars
<1>1. Inv /\ Separate /\ [Next]_vars =>
        [\A s \in UnderWay : Ends(s) \/ GoesOn(s)]_vars
    BY SavesStep
<1> QED
    BY <1>1, Invariance, SavesDistinct, PTL DEF Spec

=============================================================================
