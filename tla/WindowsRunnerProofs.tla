------------------------ MODULE WindowsRunnerProofs ------------------------
(***************************************************************************)
(* The window, its engine and its class come and go together, whatever     *)
(* fails and however the window is closed.  The inductive invariant is an  *)
(* outline of the program: the stacks of calls the thread can be in, each  *)
(* with what then holds of object, window and engine.  Destroy runs in     *)
(* four places: before the window is created, within the WM_DESTROY of a   *)
(* window the user closes, in the destructor, and, when the destructor     *)
(* finds the window still there, within the WM_DESTROY that its own        *)
(* DestroyWindow sends.                                                    *)
(***************************************************************************)
EXTENDS WindowsRunner, SequenceTheorems, TLAPS

Constructed == object = "flutter" /\ count = 1

NoEngine  == controller = "null" /\ ~view
Running   == controller = "ready" /\ view
NoWindow  == hwnd = "none" /\ ~handle
Window    == hwnd = "alive" /\ handle
Dying     == hwnd = "dying" /\ ~handle

(* What the destructors may find: a window with its handle, or none. *)
Either == hwnd = "none" \/ Window

(* wWinMain up to the loop. *)
Starts ==
    \/ /\ todo = Main
       /\ object = "none" /\ count = 0 /\ NoWindow /\ NoEngine
    \/ /\ todo \in {
            <<"Create", "SetQuitOnClose", "GetMessage">>,
            <<"Destroy", "GetWindowClass", "CreateWindow", "OnCreate",
              "SetQuitOnClose", "GetMessage">>,
            <<"OnDestroy", "DestroyWindow", "UnregisterWindowClass",
              "GetWindowClass", "CreateWindow", "OnCreate",
              "SetQuitOnClose", "GetMessage">>,
            <<"DestroyWindow", "UnregisterWindowClass", "GetWindowClass",
              "CreateWindow", "OnCreate", "SetQuitOnClose", "GetMessage">>,
            <<"UnregisterWindowClass", "GetWindowClass", "CreateWindow",
              "OnCreate", "SetQuitOnClose", "GetMessage">>,
            <<"GetWindowClass", "CreateWindow", "OnCreate",
              "SetQuitOnClose", "GetMessage">>,
            <<"CreateWindow", "OnCreate", "SetQuitOnClose", "GetMessage">>}
       /\ Constructed /\ NoWindow /\ NoEngine
    \/ /\ todo = <<"OnCreate", "SetQuitOnClose", "GetMessage">>
       /\ Constructed /\ Window /\ NoEngine
    \/ /\ todo = <<"SetChildContent", "SetNextFrameCallback", "ForceRedraw",
                   "SetQuitOnClose", "GetMessage">>
       /\ Constructed /\ Window /\ Running
    \/ /\ todo \in {
            <<"SetNextFrameCallback", "ForceRedraw", "SetQuitOnClose",
              "GetMessage">>,
            <<"ForceRedraw", "SetQuitOnClose", "GetMessage">>,
            <<"SetQuitOnClose", "GetMessage">>}
       /\ Constructed /\ Window /\ Running /\ content

(* The loop, and what a closed window does in it. *)
Loops ==
    \/ /\ todo = <<"GetMessage">>
       /\ Constructed
       /\ \/ Window /\ Running /\ content
          \/ NoWindow /\ NoEngine
    \/ /\ todo = <<"WM_DESTROY", "WM_NCDESTROY", "GetMessage">>
       /\ Constructed /\ hwnd = "dying"
    \/ /\ todo \in {
            <<"Destroy", "PostQuitMessage", "WM_NCDESTROY", "GetMessage">>,
            <<"OnDestroy", "DestroyWindow", "UnregisterWindowClass",
              "PostQuitMessage", "WM_NCDESTROY", "GetMessage">>}
       /\ Constructed /\ Dying
    \/ /\ todo \in {
            <<"DestroyWindow", "UnregisterWindowClass", "PostQuitMessage",
              "WM_NCDESTROY", "GetMessage">>,
            <<"UnregisterWindowClass", "PostQuitMessage", "WM_NCDESTROY",
              "GetMessage">>,
            <<"PostQuitMessage", "WM_NCDESTROY", "GetMessage">>,
            <<"WM_NCDESTROY", "GetMessage">>}
       /\ Constructed /\ Dying /\ NoEngine

(* wWinMain returns. *)
Returns ==
    \/ /\ todo = Leave
       /\ Constructed /\ Either
    \/ /\ todo = <<"~Win32Window">>
       /\ object = "base" /\ count = 1 /\ Either /\ NoEngine
    \/ /\ todo \in {
            <<"Destroy">>,
            <<"OnDestroy", "DestroyWindow", "UnregisterWindowClass">>,
            <<"DestroyWindow", "UnregisterWindowClass">>}
       /\ object = "base" /\ count = 0 /\ Either /\ NoEngine
    \/ /\ todo = <<"WM_DESTROY", "WM_NCDESTROY", "Forget",
                   "UnregisterWindowClass">>
       /\ object = "base" /\ count = 0 /\ hwnd = "dying" /\ NoEngine
    \/ /\ todo \in {
            <<"Destroy", "PostQuitMessage", "WM_NCDESTROY", "Forget",
              "UnregisterWindowClass">>,
            <<"OnDestroy", "DestroyWindow", "UnregisterWindowClass",
              "PostQuitMessage", "WM_NCDESTROY", "Forget",
              "UnregisterWindowClass">>,
            <<"DestroyWindow", "UnregisterWindowClass", "PostQuitMessage",
              "WM_NCDESTROY", "Forget", "UnregisterWindowClass">>,
            <<"UnregisterWindowClass", "PostQuitMessage", "WM_NCDESTROY",
              "Forget", "UnregisterWindowClass">>,
            <<"PostQuitMessage", "WM_NCDESTROY", "Forget",
              "UnregisterWindowClass">>,
            <<"WM_NCDESTROY", "Forget", "UnregisterWindowClass">>}
       /\ object = "base" /\ count = 0 /\ Dying /\ NoEngine
    \/ /\ todo \in {
            <<"Forget", "UnregisterWindowClass">>,
            <<"UnregisterWindowClass">>}
       /\ object = "base" /\ count = 0 /\ NoWindow /\ NoEngine
    \/ /\ todo = <<>>
       /\ object = "base" /\ count = 0 /\ NoWindow /\ NoEngine
       /\ ~systemClass /\ ~classRegistered

Values ==
    /\ todo \in Seq(Calls)
    /\ frame \in {"none", "pending", "done"}
    /\ callback \in {"none", "set", "posted"}
    /\ controller \in {"null", "broken", "ready"}
    /\ classRegistered \in BOOLEAN /\ systemClass \in BOOLEAN
    /\ handle \in BOOLEAN /\ content \in BOOLEAN /\ view \in BOOLEAN
    /\ quitOnClose \in BOOLEAN /\ quit \in BOOLEAN /\ visible \in BOOLEAN

Inv == Values /\ (Starts \/ Loops \/ Returns)

-----------------------------------------------------------------------------
(* Stacks of calls. *)

(* u is s followed by t. *)
Joins(s, t, u) ==
    /\ {s, t, u} \subseteq Seq(Calls)
    /\ Len(u) = Len(s) + Len(t)
    /\ \A i \in 1 .. Len(u) :
          u[i] = IF i <= Len(s) THEN s[i] ELSE t[i - Len(s)]

LEMMA JoinsConcat ==
    ASSUME NEW s, NEW t, NEW u, Joins(s, t, u)
    PROVE  s \o t = u /\ u \in Seq(Calls)
<1>1. s \in Seq(Calls) /\ t \in Seq(Calls) /\ u \in Seq(Calls)
    BY DEF Joins
<1>2. /\ s \o t \in Seq(Calls) /\ Len(s \o t) = Len(u)
      /\ Len(s) \in Nat /\ Len(t) \in Nat
    BY <1>1 DEF Joins
<1>3. ASSUME NEW i \in 1 .. Len(s \o t)
      PROVE  (s \o t)[i] = u[i]
    BY <1>1, <1>2 DEF Joins
<1> QED
    BY <1>1, <1>2, <1>3, SeqEqual

(* A step that calls nothing. *)
LEMMA Returning ==
    ASSUME todo \in Seq(Calls), NEW call, Do(call, <<>>)
    PROVE  /\ todo # <<>> /\ Head(todo) = call
           /\ todo' = Tail(todo) /\ todo' \in Seq(Calls)
BY DEF Do

-----------------------------------------------------------------------------
(* Creating the window. *)

LEMMA ConstructInv ==
    ASSUME Inv, Construct
    PROVE  Inv'
<1> USE DEF Constructed, NoWindow, NoEngine, Window, Running, Either,
            Dying, classVars, windowVars, engineVars, quitVars
<1>1. /\ todo # <<>> /\ Head(todo) = "Win32Window"
      /\ todo' = Tail(todo) /\ todo' \in Seq(Calls)
    BY Returning DEF Inv, Values, Construct
<1>2. /\ todo = <<"Win32Window", "Create", "SetQuitOnClose", "GetMessage">>
      /\ object = "none" /\ count = 0 /\ NoWindow /\ NoEngine
    BY <1>1 DEF Inv, Starts, Loops, Returns, Main, Leave
<1>4. todo' = <<"Create", "SetQuitOnClose", "GetMessage">>
    BY <1>1, <1>2
<1>5. Starts'
    BY <1>2, <1>4 DEF Construct, Starts
<1>6. Values'
    BY <1>1, <1>4 DEF Inv, Values, Construct
<1> QED
    BY <1>5, <1>6 DEF Inv

LEMMA CreateInv ==
    ASSUME Inv, Create
    PROVE  Inv'
<1> USE DEF Constructed, NoWindow, NoEngine, Window, Running, Either,
            Dying, classVars, windowVars, engineVars, quitVars
<1>1. /\ todo # <<>> /\ Head(todo) = "Create"
      /\ todo' = <<"Destroy", "GetWindowClass", "CreateWindow", "OnCreate">> \o Tail(todo)
    BY DEF Create, Do
<1>2. /\ todo = <<"Create", "SetQuitOnClose", "GetMessage">>
      /\ Constructed /\ NoWindow /\ NoEngine
    BY <1>1 DEF Inv, Starts, Loops, Returns, Main, Leave
<1>3. Joins(<<"Destroy", "GetWindowClass", "CreateWindow", "OnCreate">>, Tail(todo),
            <<"Destroy", "GetWindowClass", "CreateWindow", "OnCreate",
              "SetQuitOnClose", "GetMessage">>)
    BY <1>2 DEF Joins, Calls
<1>4. /\ todo' = <<"Destroy", "GetWindowClass", "CreateWindow", "OnCreate",
                   "SetQuitOnClose", "GetMessage">>
      /\ todo' \in Seq(Calls)
    BY ONLY <1>1, <1>3, JoinsConcat
<1>5. Starts'
    BY <1>2, <1>4 DEF Create, Starts
<1>6. Values'
    BY <1>1, <1>4 DEF Inv, Values, Create
<1> QED
    BY <1>5, <1>6 DEF Inv

LEMMA GetWindowClassInv ==
    ASSUME Inv, GetWindowClass
    PROVE  Inv'
<1> USE DEF Constructed, NoWindow, NoEngine, Window, Running, Either,
            Dying, classVars, windowVars, engineVars, quitVars
<1>1. /\ todo # <<>> /\ Head(todo) = "GetWindowClass"
      /\ todo' = Tail(todo) /\ todo' \in Seq(Calls)
    BY Returning DEF Inv, Values, GetWindowClass
<1>2. /\ todo = <<"GetWindowClass", "CreateWindow", "OnCreate",
                  "SetQuitOnClose", "GetMessage">>
      /\ Constructed /\ NoWindow /\ NoEngine
    BY <1>1 DEF Inv, Starts, Loops, Returns, Main, Leave
<1>4. todo' = <<"CreateWindow", "OnCreate", "SetQuitOnClose", "GetMessage">>
    BY <1>1, <1>2
<1>5. Starts'
    BY <1>2, <1>4 DEF GetWindowClass, Starts
<1>6. Values'
    BY <1>1, <1>4 DEF Inv, Values, GetWindowClass
<1> QED
    BY <1>5, <1>6 DEF Inv

LEMMA WindowCreatedInv ==
    ASSUME Inv, WindowCreated
    PROVE  Inv'
<1> USE DEF Constructed, NoWindow, NoEngine, Window, Running, Either,
            Dying, classVars, windowVars, engineVars, quitVars
<1>1. /\ todo # <<>> /\ Head(todo) = "CreateWindow"
      /\ todo' = Tail(todo) /\ todo' \in Seq(Calls)
    BY Returning DEF Inv, Values, WindowCreated
<1>2. /\ todo = <<"CreateWindow", "OnCreate", "SetQuitOnClose",
                  "GetMessage">>
      /\ Constructed /\ NoWindow /\ NoEngine
    BY <1>1 DEF Inv, Starts, Loops, Returns, Main, Leave
<1>4. todo' = <<"OnCreate", "SetQuitOnClose", "GetMessage">>
    BY <1>1, <1>2
<1>5. Starts'
    BY <1>2, <1>4 DEF WindowCreated, Starts
<1>6. Values'
    BY <1>1, <1>4 DEF Inv, Values, WindowCreated
<1> QED
    BY <1>5, <1>6 DEF Inv

LEMMA ControllerReadyInv ==
    ASSUME Inv, ControllerReady
    PROVE  Inv'
<1> USE DEF Constructed, NoWindow, NoEngine, Window, Running, Either,
            Dying, classVars, windowVars, engineVars, quitVars
<1>1. /\ todo # <<>> /\ Head(todo) = "OnCreate"
      /\ todo' = <<"SetChildContent", "SetNextFrameCallback",
                   "ForceRedraw">> \o Tail(todo)
    BY DEF ControllerReady, Do
<1>2. /\ todo = <<"OnCreate", "SetQuitOnClose", "GetMessage">>
      /\ Constructed /\ Window /\ NoEngine
    BY <1>1 DEF Inv, Starts, Loops, Returns, Main, Leave
<1>3. Joins(<<"SetChildContent", "SetNextFrameCallback", "ForceRedraw">>, Tail(todo),
            <<"SetChildContent", "SetNextFrameCallback", "ForceRedraw",
              "SetQuitOnClose", "GetMessage">>)
    BY <1>2 DEF Joins, Calls
<1>4. /\ todo' = <<"SetChildContent", "SetNextFrameCallback", "ForceRedraw",
                   "SetQuitOnClose", "GetMessage">>
      /\ todo' \in Seq(Calls)
    BY ONLY <1>1, <1>3, JoinsConcat
<1>5. Starts'
    BY <1>2, <1>4 DEF ControllerReady, Starts
<1>6. Values'
    BY <1>1, <1>4 DEF Inv, Values, ControllerReady
<1> QED
    BY <1>5, <1>6 DEF Inv

LEMMA SetChildContentInv ==
    ASSUME Inv, SetChildContent
    PROVE  Inv'
<1> USE DEF Constructed, NoWindow, NoEngine, Window, Running, Either,
            Dying, classVars, windowVars, engineVars, quitVars
<1>1. /\ todo # <<>> /\ Head(todo) = "SetChildContent"
      /\ todo' = Tail(todo) /\ todo' \in Seq(Calls)
    BY Returning DEF Inv, Values, SetChildContent
<1>2. /\ todo = <<"SetChildContent", "SetNextFrameCallback", "ForceRedraw",
                  "SetQuitOnClose", "GetMessage">>
      /\ Constructed /\ Window /\ Running
    BY <1>1 DEF Inv, Starts, Loops, Returns, Main, Leave
<1>4. todo' = <<"SetNextFrameCallback", "ForceRedraw", "SetQuitOnClose",
                "GetMessage">>
    BY <1>1, <1>2
<1>5. Starts'
    BY <1>2, <1>4 DEF SetChildContent, Starts
<1>6. Values'
    BY <1>1, <1>4 DEF Inv, Values, SetChildContent
<1> QED
    BY <1>5, <1>6 DEF Inv

LEMMA SetNextFrameCallbackInv ==
    ASSUME Inv, SetNextFrameCallback
    PROVE  Inv'
<1> USE DEF Constructed, NoWindow, NoEngine, Window, Running, Either,
            Dying, classVars, windowVars, engineVars, quitVars
<1>1. /\ todo # <<>> /\ Head(todo) = "SetNextFrameCallback"
      /\ todo' = Tail(todo) /\ todo' \in Seq(Calls)
    BY Returning DEF Inv, Values, SetNextFrameCallback
<1>2. /\ todo = <<"SetNextFrameCallback", "ForceRedraw", "SetQuitOnClose",
                  "GetMessage">>
      /\ Constructed /\ Window /\ Running /\ content
    BY <1>1 DEF Inv, Starts, Loops, Returns, Main, Leave
<1>4. todo' = <<"ForceRedraw", "SetQuitOnClose", "GetMessage">>
    BY <1>1, <1>2
<1>5. Starts'
    BY <1>2, <1>4 DEF SetNextFrameCallback, Starts
<1>6. Values'
    BY <1>1, <1>4 DEF Inv, Values, SetNextFrameCallback
<1> QED
    BY <1>5, <1>6 DEF Inv

LEMMA ForceRedrawInv ==
    ASSUME Inv, ForceRedraw
    PROVE  Inv'
<1> USE DEF Constructed, NoWindow, NoEngine, Window, Running, Either,
            Dying, classVars, windowVars, engineVars, quitVars
<1>1. /\ todo # <<>> /\ Head(todo) = "ForceRedraw"
      /\ todo' = Tail(todo) /\ todo' \in Seq(Calls)
    BY Returning DEF Inv, Values, ForceRedraw
<1>2. /\ todo = <<"ForceRedraw", "SetQuitOnClose", "GetMessage">>
      /\ Constructed /\ Window /\ Running /\ content
    BY <1>1 DEF Inv, Starts, Loops, Returns, Main, Leave
<1>4. todo' = <<"SetQuitOnClose", "GetMessage">>
    BY <1>1, <1>2
<1>5. Starts'
    BY <1>2, <1>4 DEF ForceRedraw, Starts
<1>6. Values'
    BY <1>1, <1>4 DEF Inv, Values, ForceRedraw
<1> QED
    BY <1>5, <1>6 DEF Inv

LEMMA SetQuitOnCloseInv ==
    ASSUME Inv, SetQuitOnClose
    PROVE  Inv'
<1> USE DEF Constructed, NoWindow, NoEngine, Window, Running, Either,
            Dying, classVars, windowVars, engineVars, quitVars
<1>1. /\ todo # <<>> /\ Head(todo) = "SetQuitOnClose"
      /\ todo' = Tail(todo) /\ todo' \in Seq(Calls)
    BY Returning DEF Inv, Values, SetQuitOnClose
<1>2. /\ todo = <<"SetQuitOnClose", "GetMessage">>
      /\ Constructed /\ Window /\ Running /\ content
    BY <1>1 DEF Inv, Starts, Loops, Returns, Main, Leave
<1>4. todo' = <<"GetMessage">>
    BY <1>1, <1>2
<1>5. Loops'
    BY <1>2, <1>4 DEF SetQuitOnClose, Loops
<1>6. Values'
    BY <1>1, <1>4 DEF Inv, Values, SetQuitOnClose
<1> QED
    BY <1>5, <1>6 DEF Inv

-----------------------------------------------------------------------------
(* Destroying it. *)

LEMMA DestroyInv ==
    ASSUME Inv, Destroy
    PROVE  Inv'
<1> USE DEF Constructed, NoWindow, NoEngine, Window, Running, Either,
            Dying, classVars, windowVars, engineVars, quitVars
<1>1. /\ todo # <<>> /\ Head(todo) = "Destroy"
      /\ todo' = <<"OnDestroy", "DestroyWindow", "UnregisterWindowClass">> \o Tail(todo)
    BY DEF Destroy, Do
<1>2. \/ /\ todo = <<"Destroy", "GetWindowClass", "CreateWindow",
                     "OnCreate", "SetQuitOnClose", "GetMessage">>
         /\ Constructed /\ NoWindow /\ NoEngine
      \/ /\ todo = <<"Destroy", "PostQuitMessage", "WM_NCDESTROY",
                     "GetMessage">>
         /\ Constructed /\ Dying
      \/ /\ todo = <<"Destroy">>
         /\ object = "base" /\ count = 0 /\ Either /\ NoEngine
      \/ /\ todo = <<"Destroy", "PostQuitMessage", "WM_NCDESTROY", "Forget",
                     "UnregisterWindowClass">>
         /\ object = "base" /\ count = 0 /\ Dying /\ NoEngine
    BY <1>1 DEF Inv, Starts, Loops, Returns, Main, Leave
<1>3. ASSUME todo = <<"Destroy", "GetWindowClass", "CreateWindow",
                      "OnCreate", "SetQuitOnClose", "GetMessage">>,
             Constructed /\ NoWindow /\ NoEngine
      PROVE  Starts' /\ todo' \in Seq(Calls)
    <2>1. Joins(<<"OnDestroy", "DestroyWindow", "UnregisterWindowClass">>, Tail(todo),
                <<"OnDestroy", "DestroyWindow", "UnregisterWindowClass",
                  "GetWindowClass", "CreateWindow", "OnCreate",
                  "SetQuitOnClose", "GetMessage">>)
        BY <1>3 DEF Joins, Calls
    <2>2. /\ todo' = <<"OnDestroy", "DestroyWindow",
                       "UnregisterWindowClass", "GetWindowClass",
                       "CreateWindow", "OnCreate", "SetQuitOnClose",
                       "GetMessage">>
          /\ todo' \in Seq(Calls)
        BY ONLY <1>1, <2>1, JoinsConcat
    <2> QED
        BY <1>1, <1>3, <2>2 DEF Destroy, Starts
<1>4. ASSUME todo = <<"Destroy", "PostQuitMessage", "WM_NCDESTROY",
                      "GetMessage">>,
             Constructed /\ Dying
      PROVE  Loops' /\ todo' \in Seq(Calls)
    <2>1. Joins(<<"OnDestroy", "DestroyWindow", "UnregisterWindowClass">>, Tail(todo),
                <<"OnDestroy", "DestroyWindow", "UnregisterWindowClass",
                  "PostQuitMessage", "WM_NCDESTROY", "GetMessage">>)
        BY <1>4 DEF Joins, Calls
    <2>2. /\ todo' = <<"OnDestroy", "DestroyWindow",
                       "UnregisterWindowClass", "PostQuitMessage",
                       "WM_NCDESTROY", "GetMessage">>
          /\ todo' \in Seq(Calls)
        BY ONLY <1>1, <2>1, JoinsConcat
    <2> QED
        BY <1>1, <1>4, <2>2 DEF Destroy, Loops
<1>5. ASSUME todo = <<"Destroy">>,
             object = "base" /\ count = 0 /\ Either /\ NoEngine
      PROVE  Returns' /\ todo' \in Seq(Calls)
    <2>1. Joins(<<"OnDestroy", "DestroyWindow", "UnregisterWindowClass">>, Tail(todo),
                <<"OnDestroy", "DestroyWindow", "UnregisterWindowClass">>)
        BY <1>5 DEF Joins, Calls
    <2>2. /\ todo' = <<"OnDestroy", "DestroyWindow",
                       "UnregisterWindowClass">>
          /\ todo' \in Seq(Calls)
        BY ONLY <1>1, <2>1, JoinsConcat
    <2> QED
        BY <1>1, <1>5, <2>2 DEF Destroy, Returns
<1>6. ASSUME todo = <<"Destroy", "PostQuitMessage", "WM_NCDESTROY",
                      "Forget", "UnregisterWindowClass">>,
             object = "base" /\ count = 0 /\ Dying /\ NoEngine
      PROVE  Returns' /\ todo' \in Seq(Calls)
    <2>1. Joins(<<"OnDestroy", "DestroyWindow", "UnregisterWindowClass">>, Tail(todo),
                <<"OnDestroy", "DestroyWindow", "UnregisterWindowClass",
                  "PostQuitMessage", "WM_NCDESTROY", "Forget",
                  "UnregisterWindowClass">>)
        BY <1>6 DEF Joins, Calls
    <2>2. /\ todo' = <<"OnDestroy", "DestroyWindow",
                       "UnregisterWindowClass", "PostQuitMessage",
                       "WM_NCDESTROY", "Forget", "UnregisterWindowClass">>
          /\ todo' \in Seq(Calls)
        BY ONLY <1>1, <2>1, JoinsConcat
    <2> QED
        BY <1>1, <1>6, <2>2 DEF Destroy, Returns
<1>7. (Starts \/ Loops \/ Returns)' /\ todo' \in Seq(Calls)
    BY <1>2, <1>3, <1>4, <1>5, <1>6
<1>8. Values'
    BY <1>7 DEF Inv, Values, Destroy
<1> QED
    BY <1>7, <1>8 DEF Inv

LEMMA OnDestroyInv ==
    ASSUME Inv, OnDestroy
    PROVE  Inv'
<1> USE DEF Constructed, NoWindow, NoEngine, Window, Running, Either,
            Dying, classVars, windowVars, engineVars, quitVars
<1>1. /\ todo # <<>> /\ Head(todo) = "OnDestroy"
      /\ todo' = Tail(todo) /\ todo' \in Seq(Calls)
    BY Returning DEF Inv, Values, OnDestroy
<1>2. \/ /\ todo = <<"OnDestroy", "DestroyWindow", "UnregisterWindowClass",
                     "GetWindowClass", "CreateWindow", "OnCreate",
                     "SetQuitOnClose", "GetMessage">>
         /\ Constructed /\ NoWindow /\ NoEngine
      \/ /\ todo = <<"OnDestroy", "DestroyWindow", "UnregisterWindowClass",
                     "PostQuitMessage", "WM_NCDESTROY", "GetMessage">>
         /\ Constructed /\ Dying
      \/ /\ todo = <<"OnDestroy", "DestroyWindow", "UnregisterWindowClass">>
         /\ object = "base" /\ count = 0 /\ Either /\ NoEngine
      \/ /\ todo = <<"OnDestroy", "DestroyWindow", "UnregisterWindowClass",
                     "PostQuitMessage", "WM_NCDESTROY", "Forget",
                     "UnregisterWindowClass">>
         /\ object = "base" /\ count = 0 /\ Dying /\ NoEngine
    BY <1>1 DEF Inv, Starts, Loops, Returns, Main, Leave
<1>3. ASSUME todo = <<"OnDestroy", "DestroyWindow", "UnregisterWindowClass",
                      "GetWindowClass", "CreateWindow", "OnCreate",
                      "SetQuitOnClose", "GetMessage">>,
             Constructed /\ NoWindow /\ NoEngine
      PROVE  Starts' /\ todo' \in Seq(Calls)
    <2>2. todo' = <<"DestroyWindow", "UnregisterWindowClass",
                    "GetWindowClass", "CreateWindow", "OnCreate",
                    "SetQuitOnClose", "GetMessage">>
        BY <1>1, <1>3
    <2> QED
        BY <1>1, <1>3, <2>2 DEF OnDestroy, Starts, DropController
<1>4. ASSUME todo = <<"OnDestroy", "DestroyWindow", "UnregisterWindowClass",
                      "PostQuitMessage", "WM_NCDESTROY", "GetMessage">>,
             Constructed /\ Dying
      PROVE  Loops' /\ todo' \in Seq(Calls)
    <2>2. todo' = <<"DestroyWindow", "UnregisterWindowClass",
                    "PostQuitMessage", "WM_NCDESTROY", "GetMessage">>
        BY <1>1, <1>4
    <2> QED
        BY <1>1, <1>4, <2>2 DEF OnDestroy, Loops, DropController
<1>5. ASSUME todo = <<"OnDestroy", "DestroyWindow",
                      "UnregisterWindowClass">>,
             object = "base" /\ count = 0 /\ Either /\ NoEngine
      PROVE  Returns' /\ todo' \in Seq(Calls)
    <2>2. todo' = <<"DestroyWindow", "UnregisterWindowClass">>
        BY <1>1, <1>5
    <2> QED
        BY <1>1, <1>5, <2>2 DEF OnDestroy, Returns, DropController
<1>6. ASSUME todo = <<"OnDestroy", "DestroyWindow", "UnregisterWindowClass",
                      "PostQuitMessage", "WM_NCDESTROY", "Forget",
                      "UnregisterWindowClass">>,
             object = "base" /\ count = 0 /\ Dying /\ NoEngine
      PROVE  Returns' /\ todo' \in Seq(Calls)
    <2>2. todo' = <<"DestroyWindow", "UnregisterWindowClass",
                    "PostQuitMessage", "WM_NCDESTROY", "Forget",
                    "UnregisterWindowClass">>
        BY <1>1, <1>6
    <2> QED
        BY <1>1, <1>6, <2>2 DEF OnDestroy, Returns, DropController
<1>7. (Starts \/ Loops \/ Returns)' /\ todo' \in Seq(Calls)
    BY <1>2, <1>3, <1>4, <1>5, <1>6
<1>8. Values'
    <2>1. CASE object = "flutter"
        BY <1>1, <2>1 DEF Inv, Values, OnDestroy, DropController
    <2>2. CASE object # "flutter"
        BY <1>1, <2>2 DEF Inv, Values, OnDestroy
    <2> QED
        BY <2>1, <2>2
<1> QED
    BY <1>7, <1>8 DEF Inv

LEMMA OnWMDestroyInv ==
    ASSUME Inv, OnWMDestroy
    PROVE  Inv'
<1> USE DEF Constructed, NoWindow, NoEngine, Window, Running, Either,
            Dying, classVars, windowVars, engineVars, quitVars
<1>1. /\ todo # <<>> /\ Head(todo) = "WM_DESTROY"
      /\ todo' = <<"Destroy", "PostQuitMessage">> \o Tail(todo)
    BY DEF OnWMDestroy, Do
<1>2. \/ /\ todo = <<"WM_DESTROY", "WM_NCDESTROY", "GetMessage">>
         /\ Constructed /\ hwnd = "dying"
      \/ /\ todo = <<"WM_DESTROY", "WM_NCDESTROY", "Forget",
                     "UnregisterWindowClass">>
         /\ object = "base" /\ count = 0 /\ hwnd = "dying" /\ NoEngine
    BY <1>1 DEF Inv, Starts, Loops, Returns, Main, Leave
<1>3. ASSUME todo = <<"WM_DESTROY", "WM_NCDESTROY", "GetMessage">>,
             Constructed /\ hwnd = "dying"
      PROVE  Loops' /\ todo' \in Seq(Calls)
    <2>1. Joins(<<"Destroy", "PostQuitMessage">>, Tail(todo),
                <<"Destroy", "PostQuitMessage", "WM_NCDESTROY",
                  "GetMessage">>)
        BY <1>3 DEF Joins, Calls
    <2>2. /\ todo' = <<"Destroy", "PostQuitMessage", "WM_NCDESTROY",
                       "GetMessage">>
          /\ todo' \in Seq(Calls)
        BY ONLY <1>1, <2>1, JoinsConcat
    <2> QED
        BY <1>1, <1>3, <2>2 DEF OnWMDestroy, Loops
<1>4. ASSUME todo = <<"WM_DESTROY", "WM_NCDESTROY", "Forget",
                      "UnregisterWindowClass">>,
             object = "base" /\ count = 0 /\ hwnd = "dying" /\ NoEngine
      PROVE  Returns' /\ todo' \in Seq(Calls)
    <2>1. Joins(<<"Destroy", "PostQuitMessage">>, Tail(todo),
                <<"Destroy", "PostQuitMessage", "WM_NCDESTROY", "Forget",
                  "UnregisterWindowClass">>)
        BY <1>4 DEF Joins, Calls
    <2>2. /\ todo' = <<"Destroy", "PostQuitMessage", "WM_NCDESTROY",
                       "Forget", "UnregisterWindowClass">>
          /\ todo' \in Seq(Calls)
        BY ONLY <1>1, <2>1, JoinsConcat
    <2> QED
        BY <1>1, <1>4, <2>2 DEF OnWMDestroy, Returns
<1>5. (Starts \/ Loops \/ Returns)' /\ todo' \in Seq(Calls)
    BY <1>2, <1>3, <1>4
<1>6. Values'
    BY <1>5 DEF Inv, Values, OnWMDestroy
<1> QED
    BY <1>5, <1>6 DEF Inv

LEMMA PostQuitMessageInv ==
    ASSUME Inv, PostQuitMessage
    PROVE  Inv'
<1> USE DEF Constructed, NoWindow, NoEngine, Window, Running, Either,
            Dying, classVars, windowVars, engineVars, quitVars
<1>1. /\ todo # <<>> /\ Head(todo) = "PostQuitMessage"
      /\ todo' = Tail(todo) /\ todo' \in Seq(Calls)
    BY Returning DEF Inv, Values, PostQuitMessage
<1>2. \/ /\ todo = <<"PostQuitMessage", "WM_NCDESTROY", "GetMessage">>
         /\ Constructed /\ Dying /\ NoEngine
      \/ /\ todo = <<"PostQuitMessage", "WM_NCDESTROY", "Forget",
                     "UnregisterWindowClass">>
         /\ object = "base" /\ count = 0 /\ Dying /\ NoEngine
    BY <1>1 DEF Inv, Starts, Loops, Returns, Main, Leave
<1>3. ASSUME todo = <<"PostQuitMessage", "WM_NCDESTROY", "GetMessage">>,
             Constructed /\ Dying /\ NoEngine
      PROVE  Loops' /\ todo' \in Seq(Calls)
    <2>2. todo' = <<"WM_NCDESTROY", "GetMessage">>
        BY <1>1, <1>3
    <2> QED
        BY <1>1, <1>3, <2>2 DEF PostQuitMessage, Loops
<1>4. ASSUME todo = <<"PostQuitMessage", "WM_NCDESTROY", "Forget",
                      "UnregisterWindowClass">>,
             object = "base" /\ count = 0 /\ Dying /\ NoEngine
      PROVE  Returns' /\ todo' \in Seq(Calls)
    <2>2. todo' = <<"WM_NCDESTROY", "Forget", "UnregisterWindowClass">>
        BY <1>1, <1>4
    <2> QED
        BY <1>1, <1>4, <2>2 DEF PostQuitMessage, Returns
<1>5. (Starts \/ Loops \/ Returns)' /\ todo' \in Seq(Calls)
    BY <1>2, <1>3, <1>4
<1>6. Values'
    BY <1>1 DEF Inv, Values, PostQuitMessage
<1> QED
    BY <1>5, <1>6 DEF Inv

LEMMA WindowDestroyedInv ==
    ASSUME Inv, WindowDestroyed
    PROVE  Inv'
<1> USE DEF Constructed, NoWindow, NoEngine, Window, Running, Either,
            Dying, classVars, windowVars, engineVars, quitVars
<1>1. /\ todo # <<>> /\ Head(todo) = "WM_NCDESTROY"
      /\ todo' = Tail(todo) /\ todo' \in Seq(Calls)
    BY Returning DEF Inv, Values, WindowDestroyed
<1>2. \/ /\ todo = <<"WM_NCDESTROY", "GetMessage">>
         /\ Constructed /\ Dying /\ NoEngine
      \/ /\ todo = <<"WM_NCDESTROY", "Forget", "UnregisterWindowClass">>
         /\ object = "base" /\ count = 0 /\ Dying /\ NoEngine
    BY <1>1 DEF Inv, Starts, Loops, Returns, Main, Leave
<1>3. ASSUME todo = <<"WM_NCDESTROY", "GetMessage">>,
             Constructed /\ Dying /\ NoEngine
      PROVE  Loops' /\ todo' \in Seq(Calls)
    <2>2. todo' = <<"GetMessage">>
        BY <1>1, <1>3
    <2> QED
        BY <1>1, <1>3, <2>2 DEF WindowDestroyed, Loops
<1>4. ASSUME todo = <<"WM_NCDESTROY", "Forget", "UnregisterWindowClass">>,
             object = "base" /\ count = 0 /\ Dying /\ NoEngine
      PROVE  Returns' /\ todo' \in Seq(Calls)
    <2>2. todo' = <<"Forget", "UnregisterWindowClass">>
        BY <1>1, <1>4
    <2> QED
        BY <1>1, <1>4, <2>2 DEF WindowDestroyed, Returns
<1>5. (Starts \/ Loops \/ Returns)' /\ todo' \in Seq(Calls)
    BY <1>2, <1>3, <1>4
<1>6. Values'
    BY <1>1 DEF Inv, Values, WindowDestroyed
<1> QED
    BY <1>5, <1>6 DEF Inv

LEMMA ForgetHandleInv ==
    ASSUME Inv, ForgetHandle
    PROVE  Inv'
<1> USE DEF Constructed, NoWindow, NoEngine, Window, Running, Either,
            Dying, classVars, windowVars, engineVars, quitVars
<1>1. /\ todo # <<>> /\ Head(todo) = "Forget"
      /\ todo' = Tail(todo) /\ todo' \in Seq(Calls)
    BY Returning DEF Inv, Values, ForgetHandle
<1>2. /\ todo = <<"Forget", "UnregisterWindowClass">>
      /\ object = "base" /\ count = 0 /\ NoWindow /\ NoEngine
    BY <1>1 DEF Inv, Starts, Loops, Returns, Main, Leave
<1>4. todo' = <<"UnregisterWindowClass">>
    BY <1>1, <1>2
<1>5. Returns'
    BY <1>2, <1>4 DEF ForgetHandle, Returns
<1>6. Values'
    BY <1>1, <1>4 DEF Inv, Values, ForgetHandle
<1> QED
    BY <1>5, <1>6 DEF Inv

LEMMA UnregisterWindowClassInv ==
    ASSUME Inv, UnregisterWindowClass
    PROVE  Inv'
<1> USE DEF Constructed, NoWindow, NoEngine, Window, Running, Either,
            Dying, classVars, windowVars, engineVars, quitVars
<1>1. /\ todo # <<>> /\ Head(todo) = "UnregisterWindowClass"
      /\ todo' = Tail(todo) /\ todo' \in Seq(Calls)
    BY Returning DEF Inv, Values, UnregisterWindowClass
<1>2. \/ /\ todo = <<"UnregisterWindowClass", "GetWindowClass",
                     "CreateWindow", "OnCreate", "SetQuitOnClose",
                     "GetMessage">>
         /\ Constructed /\ NoWindow /\ NoEngine
      \/ /\ todo = <<"UnregisterWindowClass", "PostQuitMessage",
                     "WM_NCDESTROY", "GetMessage">>
         /\ Constructed /\ Dying /\ NoEngine
      \/ /\ todo = <<"UnregisterWindowClass">>
         /\ object = "base" /\ count = 0 /\ NoWindow /\ NoEngine
      \/ /\ todo = <<"UnregisterWindowClass", "PostQuitMessage",
                     "WM_NCDESTROY", "Forget", "UnregisterWindowClass">>
         /\ object = "base" /\ count = 0 /\ Dying /\ NoEngine
    BY <1>1 DEF Inv, Starts, Loops, Returns, Main, Leave
<1>3. ASSUME todo = <<"UnregisterWindowClass", "GetWindowClass",
                      "CreateWindow", "OnCreate", "SetQuitOnClose",
                      "GetMessage">>,
             Constructed /\ NoWindow /\ NoEngine
      PROVE  Starts' /\ todo' \in Seq(Calls)
    <2>2. todo' = <<"GetWindowClass", "CreateWindow", "OnCreate",
                    "SetQuitOnClose", "GetMessage">>
        BY <1>1, <1>3
    <2> QED
        BY <1>1, <1>3, <2>2 DEF UnregisterWindowClass, Starts
<1>4. ASSUME todo = <<"UnregisterWindowClass", "PostQuitMessage",
                      "WM_NCDESTROY", "GetMessage">>,
             Constructed /\ Dying /\ NoEngine
      PROVE  Loops' /\ todo' \in Seq(Calls)
    <2>2. todo' = <<"PostQuitMessage", "WM_NCDESTROY", "GetMessage">>
        BY <1>1, <1>4
    <2> QED
        BY <1>1, <1>4, <2>2 DEF UnregisterWindowClass, Loops
<1>5. ASSUME todo = <<"UnregisterWindowClass">>,
             object = "base" /\ count = 0 /\ NoWindow /\ NoEngine
      PROVE  Returns' /\ todo' \in Seq(Calls)
    <2>2. todo' = <<>>
        BY <1>1, <1>5
    <2> QED
        BY <1>1, <1>5, <2>2 DEF UnregisterWindowClass, Returns
<1>6. ASSUME todo = <<"UnregisterWindowClass", "PostQuitMessage",
                      "WM_NCDESTROY", "Forget", "UnregisterWindowClass">>,
             object = "base" /\ count = 0 /\ Dying /\ NoEngine
      PROVE  Returns' /\ todo' \in Seq(Calls)
    <2>2. todo' = <<"PostQuitMessage", "WM_NCDESTROY", "Forget",
                    "UnregisterWindowClass">>
        BY <1>1, <1>6
    <2> QED
        BY <1>1, <1>6, <2>2 DEF UnregisterWindowClass, Returns
<1>7. (Starts \/ Loops \/ Returns)' /\ todo' \in Seq(Calls)
    BY <1>2, <1>3, <1>4, <1>5, <1>6
<1>8. Values'
    BY <1>1 DEF Inv, Values, UnregisterWindowClass
<1> QED
    BY <1>7, <1>8 DEF Inv

LEMMA DestructFlutterWindowInv ==
    ASSUME Inv, DestructFlutterWindow
    PROVE  Inv'
<1> USE DEF Constructed, NoWindow, NoEngine, Window, Running, Either,
            Dying, classVars, windowVars, engineVars, quitVars
<1>1. /\ todo # <<>> /\ Head(todo) = "~FlutterWindow"
      /\ todo' = Tail(todo) /\ todo' \in Seq(Calls)
    BY Returning DEF Inv, Values, DestructFlutterWindow
<1>2. /\ todo = <<"~FlutterWindow", "~Win32Window">>
      /\ Constructed /\ Either
    BY <1>1 DEF Inv, Starts, Loops, Returns, Main, Leave
<1>4. todo' = <<"~Win32Window">>
    BY <1>1, <1>2
<1>5. Returns'
    BY <1>2, <1>4 DEF DestructFlutterWindow, Returns, DropController
<1>6. Values'
    BY <1>1, <1>4 DEF Inv, Values, DestructFlutterWindow, DropController
<1> QED
    BY <1>5, <1>6 DEF Inv

LEMMA DestructWin32WindowInv ==
    ASSUME Inv, DestructWin32Window
    PROVE  Inv'
<1> USE DEF Constructed, NoWindow, NoEngine, Window, Running, Either,
            Dying, classVars, windowVars, engineVars, quitVars
<1>1. /\ todo # <<>> /\ Head(todo) = "~Win32Window"
      /\ todo' = <<"Destroy">> \o Tail(todo)
    BY DEF DestructWin32Window, Do
<1>2. /\ todo = <<"~Win32Window">>
      /\ object = "base" /\ count = 1 /\ Either /\ NoEngine
    BY <1>1 DEF Inv, Starts, Loops, Returns, Main, Leave
<1>3. Joins(<<"Destroy">>, Tail(todo),
            <<"Destroy">>)
    BY <1>2 DEF Joins, Calls
<1>4. /\ todo' = <<"Destroy">>
      /\ todo' \in Seq(Calls)
    BY ONLY <1>1, <1>3, JoinsConcat
<1>5. Returns'
    BY <1>2, <1>4 DEF DestructWin32Window, Returns
<1>6. Values'
    BY <1>1, <1>4 DEF Inv, Values, DestructWin32Window
<1> QED
    BY <1>5, <1>6 DEF Inv

(* DestroyWindow finds a window only when the destructors run. *)
LEMMA DestroyWindowInv ==
    ASSUME Inv, DestroyWindow
    PROVE  Inv'
<1> USE DEF Constructed, NoWindow, NoEngine, Window, Running, Either,
            Dying, classVars, windowVars, engineVars, quitVars
<1>1. todo # <<>> /\ Head(todo) = "DestroyWindow" /\ todo \in Seq(Calls)
    BY DEF DestroyWindow, Do, Inv, Values
<1>2. \/ /\ todo = <<"DestroyWindow", "UnregisterWindowClass",
                     "GetWindowClass", "CreateWindow", "OnCreate",
                     "SetQuitOnClose", "GetMessage">>
         /\ Constructed /\ NoWindow /\ NoEngine
      \/ /\ todo = <<"DestroyWindow", "UnregisterWindowClass",
                     "PostQuitMessage", "WM_NCDESTROY", "GetMessage">>
         /\ Constructed /\ Dying /\ NoEngine
      \/ /\ todo = <<"DestroyWindow", "UnregisterWindowClass">>
         /\ object = "base" /\ count = 0 /\ Either /\ NoEngine
      \/ /\ todo = <<"DestroyWindow", "UnregisterWindowClass",
                     "PostQuitMessage", "WM_NCDESTROY", "Forget",
                     "UnregisterWindowClass">>
         /\ object = "base" /\ count = 0 /\ Dying /\ NoEngine
    BY <1>1 DEF Inv, Starts, Loops, Returns, Main, Leave
<1>3. CASE handle /\ hwnd = "alive"
    <2>1. todo = <<"DestroyWindow", "UnregisterWindowClass">>
        BY <1>2, <1>3
    <2>2. /\ todo' = <<"WM_DESTROY", "WM_NCDESTROY", "Forget">> \o Tail(todo)
          /\ object = "base" /\ count = 0 /\ NoEngine
          /\ hwnd' = "dying" /\ handle' = handle
        BY <1>2, <1>3 DEF DestroyWindow, Do
    <2>3. Joins(<<"WM_DESTROY", "WM_NCDESTROY", "Forget">>, Tail(todo),
                <<"WM_DESTROY", "WM_NCDESTROY", "Forget",
                  "UnregisterWindowClass">>)
        BY <2>1 DEF Joins, Calls
    <2>4. /\ todo' = <<"WM_DESTROY", "WM_NCDESTROY", "Forget",
                       "UnregisterWindowClass">>
          /\ todo' \in Seq(Calls)
        BY ONLY <2>2, <2>3, JoinsConcat
    <2>5. Returns'
        BY <2>2, <2>4 DEF DestroyWindow, Returns
    <2>6. Values'
        BY <2>2, <2>4 DEF Inv, Values, DestroyWindow
    <2> QED
        BY <2>5, <2>6 DEF Inv
<1>4. CASE ~(handle /\ hwnd = "alive")
    <2>1. /\ Do("DestroyWindow", <<>>)
          /\ handle' = FALSE
          /\ UNCHANGED <<hwnd, object, count, controller, view, content>>
        BY <1>4 DEF DestroyWindow
    <2>2. todo' = Tail(todo) /\ todo' \in Seq(Calls)
        BY <1>1, <2>1, Returning
    <2>3. ASSUME todo = <<"DestroyWindow", "UnregisterWindowClass",
                          "GetWindowClass", "CreateWindow", "OnCreate",
                          "SetQuitOnClose", "GetMessage">>,
                 Constructed /\ NoWindow /\ NoEngine
          PROVE  Starts'
        <3>1. todo' = <<"UnregisterWindowClass", "GetWindowClass",
                        "CreateWindow", "OnCreate", "SetQuitOnClose",
                        "GetMessage">>
            BY <2>2, <2>3
        <3> QED
            BY <2>1, <2>3, <3>1 DEF Starts
    <2>4. ASSUME todo = <<"DestroyWindow", "UnregisterWindowClass",
                          "PostQuitMessage", "WM_NCDESTROY", "GetMessage">>,
                 Constructed /\ Dying /\ NoEngine
          PROVE  Loops'
        <3>1. todo' = <<"UnregisterWindowClass", "PostQuitMessage",
                        "WM_NCDESTROY", "GetMessage">>
            BY <2>2, <2>4
        <3> QED
            BY <2>1, <2>4, <3>1 DEF Loops
    <2>5. ASSUME todo = <<"DestroyWindow", "UnregisterWindowClass">>,
                 object = "base" /\ count = 0 /\ Either /\ NoEngine
          PROVE  Returns'
        <3>1. todo' = <<"UnregisterWindowClass">>
            BY <2>2, <2>5
        <3> QED
            BY <1>4, <2>1, <2>5, <3>1 DEF Returns
    <2>6. ASSUME todo = <<"DestroyWindow", "UnregisterWindowClass",
                          "PostQuitMessage", "WM_NCDESTROY", "Forget",
                          "UnregisterWindowClass">>,
                 object = "base" /\ count = 0 /\ Dying /\ NoEngine
          PROVE  Returns'
        <3>1. todo' = <<"UnregisterWindowClass", "PostQuitMessage",
                        "WM_NCDESTROY", "Forget", "UnregisterWindowClass">>
            BY <2>2, <2>6
        <3> QED
            BY <2>1, <2>6, <3>1 DEF Returns
    <2>7. Starts' \/ Loops' \/ Returns'
        BY <1>2, <2>3, <2>4, <2>5, <2>6
    <2>8. Values'
        BY <2>1, <2>2 DEF Inv, Values, DestroyWindow
    <2> QED
        BY <2>7, <2>8 DEF Inv
<1> QED
    BY <1>3, <1>4

-----------------------------------------------------------------------------
(* Returning early, and the message loop. *)

(* Leave is entered with a window and its handle, or without a window. *)
LEMMA LeaveInv ==
    ASSUME Inv, todo' = Leave, Constructed', Either',
           UNCHANGED <<classRegistered, systemClass, content, visible, view,
                       frame, callback, quitOnClose, quit>>,
           handle' \in BOOLEAN, controller' \in {"null", "broken", "ready"}
    PROVE  Inv'
<1>1. todo' \in Seq(Calls)
    BY DEF Leave, Calls
<1>2. Returns'
    BY DEF Returns
<1>3. Values'
    BY <1>1 DEF Inv, Values
<1> QED
    BY <1>2, <1>3 DEF Inv

LEMMA WindowNotCreatedInv ==
    ASSUME Inv, WindowNotCreated
    PROVE  Inv'
<1>1. todo # <<>> /\ Head(todo) = "CreateWindow" /\ todo' = Leave
    BY DEF WindowNotCreated, Fail
<1>2. Constructed /\ NoWindow
    BY <1>1 DEF Inv, Starts, Loops, Returns, Main, Leave
<1>3. /\ Constructed' /\ Either'
      /\ UNCHANGED <<classRegistered, systemClass, content, visible, view,
                     frame, callback, quitOnClose, quit>>
      /\ handle' \in BOOLEAN /\ controller' \in {"null", "broken", "ready"}
    BY <1>2 DEF WindowNotCreated, Constructed, NoWindow, Either, Window, Inv,
                Values, classVars, windowVars, engineVars, quitVars
<1> QED
    BY <1>1, <1>3, LeaveInv

LEMMA ControllerBrokenInv ==
    ASSUME Inv, ControllerBroken
    PROVE  Inv'
<1>1. todo # <<>> /\ Head(todo) = "OnCreate" /\ todo' = Leave
    BY DEF ControllerBroken, Fail
<1>2. Constructed /\ Window
    BY <1>1 DEF Inv, Starts, Loops, Returns, Main, Leave
<1>3. /\ Constructed' /\ Either'
      /\ UNCHANGED <<classRegistered, systemClass, content, visible, view,
                     frame, callback, quitOnClose, quit>>
      /\ handle' \in BOOLEAN /\ controller' \in {"null", "broken", "ready"}
    BY <1>2 DEF ControllerBroken, Constructed, Either, Window, Inv, Values,
                classVars, windowVars, engineVars, quitVars
<1> QED
    BY <1>1, <1>3, LeaveInv

(* What the loop knows. *)
LEMMA AtLoop ==
    ASSUME Inv, InLoop
    PROVE  /\ todo = <<"GetMessage">>
           /\ Constructed
           /\ \/ Window /\ Running /\ content
              \/ NoWindow /\ NoEngine
BY DEF InLoop, Inv, Starts, Loops, Returns, Main, Leave

LEMMA OnWMQuitInv ==
    ASSUME Inv, OnWMQuit
    PROVE  Inv'
<1>1. InLoop /\ todo' = Leave
    BY DEF OnWMQuit, Fail, InLoop
<1>2. Constructed /\ (Window \/ NoWindow)
    BY <1>1, AtLoop
<1>3. /\ Constructed' /\ Either'
      /\ UNCHANGED <<classRegistered, systemClass, content, visible, view,
                     frame, callback, quitOnClose, quit>>
      /\ handle' \in BOOLEAN /\ controller' \in {"null", "broken", "ready"}
    BY <1>2 DEF OnWMQuit, Constructed, NoWindow, Either, Window, Inv, Values,
                classVars, windowVars, engineVars, quitVars
<1> QED
    BY <1>1, <1>3, LeaveInv

LEMMA OnWMCloseInv ==
    ASSUME Inv, OnWMClose
    PROVE  Inv'
<1>1. /\ todo = <<"GetMessage">> /\ Constructed
      /\ todo' = <<"WM_DESTROY", "WM_NCDESTROY">> \o todo
    BY AtLoop DEF OnWMClose
<1>2. Joins(<<"WM_DESTROY", "WM_NCDESTROY">>, todo,
            <<"WM_DESTROY", "WM_NCDESTROY", "GetMessage">>)
    BY <1>1 DEF Joins, Calls
<1>3. /\ todo' = <<"WM_DESTROY", "WM_NCDESTROY", "GetMessage">>
      /\ todo' \in Seq(Calls)
    BY ONLY <1>1, <1>2, JoinsConcat
<1>4. Loops'
    BY <1>1, <1>3 DEF OnWMClose, Loops, Constructed, classVars
<1>5. Values'
    BY <1>3 DEF Inv, Values, OnWMClose, classVars, engineVars, quitVars
<1> QED
    BY <1>4, <1>5 DEF Inv

(* The engine's frames, WM_QUIT and what is shown are of no consequence. *)
LEMMA OutlineUnchanged ==
    ASSUME Inv,
           UNCHANGED <<todo, object, count, hwnd, handle, controller, view,
                       content, systemClass, classRegistered>>
    PROVE  (Starts \/ Loops \/ Returns)'
<1> USE DEF Constructed, NoWindow, NoEngine, Window, Running, Either, Dying
<1>1. Starts => Starts'
    BY DEF Starts
<1>2. Loops => Loops'
    BY DEF Loops
<1>3. Returns => Returns'
    BY DEF Returns
<1> QED
    BY <1>1, <1>2, <1>3 DEF Inv

LEMMA OtherInv ==
    ASSUME Inv, ExitApplication \/ Show \/ FrameCompletes \/ UNCHANGED vars
    PROVE  Inv'
<1> USE DEF classVars, windowVars, engineVars, quitVars
<1>1. CASE ExitApplication
    BY <1>1, OutlineUnchanged DEF Inv, Values, ExitApplication
<1>2. CASE Show
    BY <1>2, OutlineUnchanged DEF Inv, Values, Show
<1>3. CASE FrameCompletes
    BY <1>3, OutlineUnchanged DEF Inv, Values, FrameCompletes
<1>4. CASE UNCHANGED vars
    BY <1>4, OutlineUnchanged DEF Inv, Values, vars
<1> QED
    BY <1>1, <1>2, <1>3, <1>4

-----------------------------------------------------------------------------

LEMMA InitInv == Init => Inv
<1> SUFFICES ASSUME Init
             PROVE  Inv
    OBVIOUS
<1>1. Starts
    BY DEF Init, Starts, NoWindow, NoEngine
<1>2. todo \in Seq(Calls)
    BY DEF Init, Main, Calls
<1>3. Values
    BY <1>2 DEF Init, Values
<1> QED
    BY <1>1, <1>3 DEF Inv

LEMMA NextInv == Inv /\ [Next]_vars => Inv'
<1> SUFFICES ASSUME Inv, [Next]_vars
             PROVE  Inv'
    OBVIOUS
<1>1. CASE Starting
    BY <1>1, ConstructInv, CreateInv, GetWindowClassInv, WindowCreatedInv,
       WindowNotCreatedInv, ControllerReadyInv, ControllerBrokenInv,
       SetChildContentInv, SetNextFrameCallbackInv, ForceRedrawInv,
       SetQuitOnCloseInv DEF Starting
<1>2. CASE Destroying
    BY <1>2, DestroyInv, OnDestroyInv, DestroyWindowInv, OnWMDestroyInv,
       PostQuitMessageInv, WindowDestroyedInv, ForgetHandleInv,
       UnregisterWindowClassInv, DestructFlutterWindowInv,
       DestructWin32WindowInv DEF Destroying
<1>3. CASE OnWMClose
    BY <1>3, OnWMCloseInv
<1>4. CASE OnWMQuit
    BY <1>4, OnWMQuitInv
<1>5. CASE ExitApplication \/ Show \/ FrameCompletes \/ UNCHANGED vars
    BY <1>5, OtherInv
<1> QED
    BY <1>1, <1>2, <1>3, <1>4, <1>5 DEF Next

(***************************************************************************)
(* The outline holds: whatever fails, the thread is in one of the listed   *)
(* stacks of calls, and object, window and engine are as noted there.      *)
(***************************************************************************)
THEOREM Invariance == Spec => []Inv
BY InitInv, NextInv, PTL DEF Spec

(***************************************************************************)
(* All variables keep their types: the object is constructed and destroyed *)
(* once, and the calls nest no deeper than Destroy within the WM_DESTROY   *)
(* that Destroy sends.                                                     *)
(***************************************************************************)
THEOREM TypeCorrect == Spec => []TypeOK
<1>1. Inv => TypeOK
    <2> SUFFICES ASSUME Inv
                 PROVE  TypeOK
        OBVIOUS
    <2>1. /\ Starts => 9 \notin DOMAIN todo
          /\ Loops => 9 \notin DOMAIN todo
        BY DEF Starts, Loops, Main
    <2>2. Returns => 9 \notin DOMAIN todo
        BY DEF Returns, Leave
    <2>3. todo \in Seq(Calls) /\ 9 \notin DOMAIN todo
        BY <2>1, <2>2 DEF Inv, Values
    <2>4. Len(todo) <= 8
        BY ONLY <2>3, LenProperties
    <2>5. /\ object \in {"none", "flutter", "base"}
          /\ count \in 0 .. 1
          /\ hwnd \in {"none", "alive", "dying"}
        BY DEF Inv, Starts, Loops, Returns, Constructed, NoWindow, Window,
               Either, Dying
    <2> QED
        BY <2>4, <2>5 DEF Inv, Values, TypeOK
<1> QED
    BY <1>1, Invariance, PTL

(***************************************************************************)
(* The loop dispatches messages to a complete window or to none: the       *)
(* handlers of FlutterWindow, which use controller, content and handle     *)
(* without a test, find them.                                              *)
(***************************************************************************)
THEOREM LoopMeetsWhole == Spec => []CompleteInLoop
<1>1. Inv => CompleteInLoop
    BY AtLoop DEF CompleteInLoop, Window, Running, NoWindow, NoEngine
<1> QED
    BY <1>1, Invariance, PTL

(***************************************************************************)
(* When wWinMain has returned, on whichever way, window, engine and window *)
(* class are gone: the last UnregisterWindowClass always finds no window.  *)
(***************************************************************************)
THEOREM NothingIsLeft == Spec => []NothingLeft
<1>1. Inv => NothingLeft
    BY DEF Inv, Starts, Loops, Returns, Main, Leave, NothingLeft, NoWindow,
           NoEngine
<1> QED
    BY <1>1, Invariance, PTL

(***************************************************************************)
(* The engine goes before its window: when the window manager destroys the *)
(* window, the controller has been deleted and the view with it, by        *)
(* FlutterWindow::OnDestroy or, in the destructor, where OnDestroy is only *)
(* the base class's, by ~FlutterWindow.                                    *)
(***************************************************************************)
THEOREM EngineGoesFirst ==
    Spec => [][hwnd' = "none" /\ hwnd # "none"
                  => controller = "null" /\ ~view /\ ~handle]_vars
<1>1. ASSUME Inv, [Next]_vars, hwnd' = "none", hwnd # "none"
      PROVE  controller = "null" /\ ~view /\ ~handle
    <2>1. WindowDestroyed
        BY <1>1 DEF Next, Starting, Destroying, Construct, Create,
           GetWindowClass, WindowCreated, WindowNotCreated, ControllerReady,
           ControllerBroken, SetChildContent, SetNextFrameCallback,
           ForceRedraw, SetQuitOnClose, Destroy, OnDestroy, DestroyWindow,
           OnWMDestroy, PostQuitMessage, ForgetHandle, UnregisterWindowClass,
           DestructFlutterWindow, DestructWin32Window, OnWMClose,
           ExitApplication, Show, OnWMQuit, FrameCompletes, windowVars, vars
    <2>2. todo # <<>> /\ Head(todo) = "WM_NCDESTROY"
        BY <2>1 DEF WindowDestroyed, Do
    <2> QED
        BY <1>1, <2>2 DEF Inv, Starts, Loops, Returns, Main, Leave, Dying,
                          NoEngine
<1> QED
    BY <1>1, Invariance, PTL DEF Spec

=============================================================================
