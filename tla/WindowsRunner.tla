--------------------------- MODULE WindowsRunner ---------------------------
(***************************************************************************)
(* The Windows program around the app, src/windows/runner: wWinMain        *)
(* (main.cpp), FlutterWindow (flutter_window.cpp) and its base class       *)
(* Win32Window with the registrar of the window class (win32_window.cpp).  *)
(*                                                                         *)
(* Everything runs on one thread, but not in one line: DestroyWindow sends *)
(* WM_DESTROY to the window procedure before it returns, whose handler     *)
(* calls Destroy again, and a destructor runs the virtual functions of the *)
(* base class.  todo holds what the thread has yet to do, innermost first; *)
(* a step takes the head off and may put the steps of a call before the    *)
(* rest; when nothing is left the process has ended.                       *)
(* The engine draws frames on threads of its own.                          *)
(*                                                                         *)
(* External: the Win32 window manager and the Flutter engine.              *)
(* CreateWindow may fail before or after WM_NCCREATE; UnregisterClass      *)
(* fails while a window of the class exists; the engine may handle         *)
(* WM_CLOSE itself and post WM_QUIT, and leaves WM_DESTROY to the window.  *)
(* WM_SIZE, WM_ACTIVATE, WM_FONTCHANGE and the like change nothing that is *)
(* modelled; what their handlers rely on is CompleteInLoop.                *)
(***************************************************************************)
EXTENDS Naturals, Sequences

VARIABLES
    todo,             \* what the thread has yet to do, innermost first
    object,           \* the object's dynamic type: "none", "flutter", "base"
    count,            \* g_active_window_count
    classRegistered,  \* class_registered_
    systemClass,      \* the class is registered with the system
    handle,           \* window_handle_ is not null
    hwnd,             \* the window itself: "none", "alive", "dying"
    controller,       \* flutter_controller_: "null", "broken", "ready"
    content,          \* child_content_ is not null
    view,             \* the native window of the controller's view exists
    quitOnClose,      \* quit_on_close_
    quit,             \* WM_QUIT is in the queue
    frame,            \* the engine's frame: "none", "pending", "done"
    callback,         \* the next-frame callback: "none", "set", "posted"
    visible           \* the window was shown

classVars  == <<count, classRegistered, systemClass>>
windowVars == <<handle, hwnd, content, visible>>
engineVars == <<controller, view, frame, callback>>
quitVars   == <<quitOnClose, quit>>
vars == <<todo, object, classVars, windowVars, engineVars, quitVars>>

Main  == <<"Win32Window", "Create", "SetQuitOnClose", "GetMessage">>
Leave == <<"~FlutterWindow", "~Win32Window">>   \* what a return runs

Calls == {"Win32Window", "Create", "SetQuitOnClose", "GetMessage",
          "~FlutterWindow", "~Win32Window", "Destroy", "OnDestroy",
          "DestroyWindow", "UnregisterWindowClass", "GetWindowClass",
          "CreateWindow", "OnCreate", "SetChildContent",
          "SetNextFrameCallback", "ForceRedraw", "WM_DESTROY",
          "PostQuitMessage", "WM_NCDESTROY", "Forget"}

(* All variables stay in their types: no object is destroyed twice, and   *)
(* calls nest only as deep as Destroy within WM_DESTROY within Destroy.   *)
TypeOK ==
    /\ todo \in Seq(Calls) /\ Len(todo) <= 8
    /\ object \in {"none", "flutter", "base"}
    /\ count \in 0 .. 1
    /\ hwnd \in {"none", "alive", "dying"}
    /\ controller \in {"null", "broken", "ready"}
    /\ frame \in {"none", "pending", "done"}
    /\ callback \in {"none", "set", "posted"}
    /\ {classRegistered, systemClass, handle, content, view, quitOnClose,
        quit, visible} \subseteq BOOLEAN

-----------------------------------------------------------------------------

Init ==
    /\ todo = Main
    /\ object = "none"
    /\ count = 0 /\ classRegistered = FALSE /\ systemClass = FALSE
    /\ handle = FALSE /\ hwnd = "none" /\ content = FALSE /\ visible = FALSE
    /\ controller = "null" /\ view = FALSE
    /\ frame = "none" /\ callback = "none"
    /\ quitOnClose = FALSE /\ quit = FALSE

(* The thread's next step is call, which calls the steps of inner. *)
Do(call, inner) ==
    /\ todo # <<>>
    /\ Head(todo) = call
    /\ todo' = inner \o Tail(todo)

(* The thread's next step is call, which makes wWinMain return. *)
Fail(call) ==
    /\ todo # <<>>
    /\ Head(todo) = call
    /\ todo' = Leave

-----------------------------------------------------------------------------
(* Creating the window. *)

(* A slip the properties must notice: the object is not counted. *)
ConstructUncounted ==
    /\ Do("Win32Window", <<>>)
    /\ object' = "flutter"
    /\ UNCHANGED <<classVars, windowVars, engineVars, quitVars>>

Construct ==
    /\ Do("Win32Window", <<>>)
    /\ object' = "flutter"
    /\ count' = count + 1
    /\ UNCHANGED <<classRegistered, systemClass, windowVars, engineVars,
                   quitVars>>

Create ==
    /\ Do("Create", <<"Destroy", "GetWindowClass", "CreateWindow",
                      "OnCreate">>)
    /\ UNCHANGED <<object, classVars, windowVars, engineVars, quitVars>>

(* The result of RegisterClass is not looked at. *)
GetWindowClass ==
    /\ Do("GetWindowClass", <<>>)
    /\ IF classRegistered THEN UNCHANGED systemClass
                          ELSE systemClass' \in BOOLEAN
    /\ classRegistered' = TRUE
    /\ UNCHANGED <<object, count, windowVars, engineVars, quitVars>>

(* CreateWindow returns a window; WM_NCCREATE has stored its handle. *)
WindowCreated ==
    /\ Do("CreateWindow", <<>>)
    /\ systemClass
    /\ handle' = TRUE
    /\ hwnd' = "alive"
    /\ UNCHANGED <<object, classVars, content, visible, engineVars, quitVars>>

(* CreateWindow fails; if WM_NCCREATE came before, the handle stays. *)
WindowNotCreated ==
    /\ Fail("CreateWindow")
    /\ handle' \in {FALSE, systemClass}
    /\ UNCHANGED <<object, classVars, hwnd, content, visible, engineVars,
                   quitVars>>

(* FlutterWindow::OnCreate makes the controller; the engine starts. *)
ControllerReady ==
    /\ Do("OnCreate", <<"SetChildContent", "SetNextFrameCallback",
                        "ForceRedraw">>)
    /\ controller' = "ready"
    /\ view' = TRUE
    /\ frame' = "pending"
    /\ UNCHANGED <<object, classVars, windowVars, callback, quitVars>>

(* A slip the properties must notice: OnCreate's result is not returned. *)
ControllerBrokenUnseen ==
    /\ Do("OnCreate", <<>>)
    /\ controller' = "broken"
    /\ UNCHANGED <<object, classVars, windowVars, view, frame, callback,
                   quitVars>>

(* The controller has no engine or no view: OnCreate returns false. *)
ControllerBroken ==
    /\ Fail("OnCreate")
    /\ controller' = "broken"
    /\ UNCHANGED <<object, classVars, windowVars, view, frame, callback,
                   quitVars>>

SetChildContent ==
    /\ Do("SetChildContent", <<>>)
    /\ content' = TRUE
    /\ UNCHANGED <<object, classVars, handle, hwnd, visible, engineVars,
                   quitVars>>

SetNextFrameCallback ==
    /\ Do("SetNextFrameCallback", <<>>)
    /\ callback' = "set"
    /\ UNCHANGED <<object, classVars, windowVars, controller, view, frame,
                   quitVars>>

(* A slip the properties must notice: no redraw is forced. *)
NoRedraw ==
    /\ Do("ForceRedraw", <<>>)
    /\ UNCHANGED <<object, classVars, windowVars, engineVars, quitVars>>

(* A no-op while the first frame has not completed. *)
ForceRedraw ==
    /\ Do("ForceRedraw", <<>>)
    /\ frame' = "pending"
    /\ UNCHANGED <<object, classVars, windowVars, controller, view, callback,
                   quitVars>>

(* A slip the properties must notice: the default is left. *)
KeepQuitOnClose ==
    /\ Do("SetQuitOnClose", <<>>)
    /\ UNCHANGED <<object, classVars, windowVars, engineVars, quitVars>>

SetQuitOnClose ==
    /\ Do("SetQuitOnClose", <<>>)
    /\ quitOnClose' = TRUE
    /\ UNCHANGED <<object, classVars, windowVars, engineVars, quit>>

-----------------------------------------------------------------------------
(* Destroying it: by its own WM_CLOSE, or by the destructor. *)

Destroy ==
    /\ Do("Destroy", <<"OnDestroy", "DestroyWindow",
                       "UnregisterWindowClass">>)
    /\ UNCHANGED <<object, classVars, windowVars, engineVars, quitVars>>

(* flutter_controller_ becomes null: view and engine are gone. *)
DropController ==
    /\ controller' = "null"
    /\ view' = FALSE
    /\ frame' = "none"
    /\ callback' = "none"

(* Virtual: in ~Win32Window the base class's, which does nothing. *)
OnDestroy ==
    /\ Do("OnDestroy", <<>>)
    /\ IF object = "flutter" THEN DropController ELSE UNCHANGED engineVars
    /\ UNCHANGED <<object, classVars, windowVars, quitVars>>

DestroyWindow ==
    /\ IF handle /\ hwnd = "alive"
       THEN /\ Do("DestroyWindow", <<"WM_DESTROY", "WM_NCDESTROY", "Forget">>)
            /\ hwnd' = "dying"
            /\ UNCHANGED handle
       ELSE /\ Do("DestroyWindow", <<>>)   \* no handle, or of no window
            /\ handle' = FALSE
            /\ UNCHANGED hwnd
    /\ UNCHANGED <<object, classVars, content, visible, engineVars, quitVars>>

(* MessageHandler on WM_DESTROY *)
OnWMDestroy ==
    /\ Do("WM_DESTROY", <<"Destroy", "PostQuitMessage">>)
    /\ handle' = FALSE
    /\ UNCHANGED <<object, classVars, hwnd, content, visible, engineVars,
                   quitVars>>

PostQuitMessage ==
    /\ Do("PostQuitMessage", <<>>)
    /\ quit' = (quit \/ quitOnClose)
    /\ UNCHANGED <<object, classVars, windowVars, engineVars, quitOnClose>>

WindowDestroyed ==
    /\ Do("WM_NCDESTROY", <<>>)
    /\ hwnd' = "none"
    /\ UNCHANGED <<object, classVars, handle, content, visible, engineVars,
                   quitVars>>

ForgetHandle ==
    /\ Do("Forget", <<>>)
    /\ handle' = FALSE
    /\ UNCHANGED <<object, classVars, hwnd, content, visible, engineVars,
                   quitVars>>

(* A slip the properties must notice: the flag is trusted, although the   *)
(* call made while the window is dying has cleared it in vain.            *)
UnregisterIfRegistered ==
    /\ Do("UnregisterWindowClass", <<>>)
    /\ IF count = 0 /\ classRegistered
       THEN /\ systemClass' = (systemClass /\ hwnd # "none")
            /\ classRegistered' = FALSE
       ELSE UNCHANGED <<systemClass, classRegistered>>
    /\ UNCHANGED <<object, count, windowVars, engineVars, quitVars>>

(* The end of Destroy: only without objects, but a dying window may exist. *)
UnregisterWindowClass ==
    /\ Do("UnregisterWindowClass", <<>>)
    /\ IF count = 0
       THEN /\ systemClass' = (systemClass /\ hwnd # "none")
            /\ classRegistered' = FALSE
       ELSE UNCHANGED <<systemClass, classRegistered>>
    /\ UNCHANGED <<object, count, windowVars, engineVars, quitVars>>

(* ~FlutterWindow: its members go, and with them its dynamic type. *)
DestructFlutterWindow ==
    /\ Do("~FlutterWindow", <<>>)
    /\ DropController
    /\ object' = "base"
    /\ UNCHANGED <<classVars, windowVars, quitVars>>

DestructWin32Window ==
    /\ Do("~Win32Window", <<"Destroy">>)
    /\ count' = count - 1
    /\ UNCHANGED <<object, classRegistered, systemClass, windowVars,
                   engineVars, quitVars>>

-----------------------------------------------------------------------------
(* The message loop. *)

InLoop == todo # <<>> /\ Head(todo) = "GetMessage"

(* WM_CLOSE that the engine does not handle: DefWindowProc destroys. *)
OnWMClose ==
    /\ InLoop
    /\ hwnd = "alive"
    /\ todo' = <<"WM_DESTROY", "WM_NCDESTROY">> \o todo
    /\ hwnd' = "dying"
    /\ UNCHANGED <<object, classVars, handle, content, visible, engineVars,
                   quitVars>>

(* The engine exits the application: it posts WM_QUIT, the window stays. *)
ExitApplication ==
    /\ InLoop
    /\ controller = "ready"
    /\ quit' = TRUE
    /\ UNCHANGED <<todo, object, classVars, windowVars, engineVars,
                   quitOnClose>>

(* The callback of FlutterWindow::OnCreate shows the window. *)
Show ==
    /\ InLoop
    /\ callback = "posted"
    /\ callback' = "none"
    /\ visible' = handle
    /\ UNCHANGED <<todo, object, classVars, handle, hwnd, content, controller,
                   view, frame, quitVars>>

(* GetMessage returns 0; wWinMain returns. *)
OnWMQuit ==
    /\ quit
    /\ Fail("GetMessage")
    /\ UNCHANGED <<object, classVars, windowVars, engineVars, quitVars>>

(* The engine completes a frame, on its own threads. *)
FrameCompletes ==
    /\ frame = "pending"
    /\ frame' = "done"
    /\ callback' = IF callback = "set" THEN "posted" ELSE callback
    /\ UNCHANGED <<todo, object, classVars, windowVars, controller, view,
                   quitVars>>

-----------------------------------------------------------------------------

Starting ==
    \/ Construct
    \/ Create
    \/ GetWindowClass
    \/ WindowCreated
    \/ WindowNotCreated
    \/ ControllerReady
    \/ ControllerBroken
    \/ SetChildContent
    \/ SetNextFrameCallback
    \/ ForceRedraw
    \/ SetQuitOnClose

Destroying ==
    \/ Destroy
    \/ OnDestroy
    \/ DestroyWindow
    \/ OnWMDestroy
    \/ PostQuitMessage
    \/ WindowDestroyed
    \/ ForgetHandle
    \/ UnregisterWindowClass
    \/ DestructFlutterWindow
    \/ DestructWin32Window

Next ==
    \/ Starting
    \/ Destroying
    \/ OnWMClose
    \/ ExitApplication
    \/ Show
    \/ OnWMQuit
    \/ FrameCompletes

(* The thread goes on, the loop serves its queue, the engine draws. *)
Fairness ==
    /\ WF_vars(Starting \/ Destroying)
    /\ WF_vars(Show)
    /\ WF_vars(OnWMQuit)
    /\ WF_vars(FrameCompletes)

Spec == Init /\ [][Next]_vars /\ Fairness

-----------------------------------------------------------------------------

(***************************************************************************)
(* A message the loop dispatches to the window meets a complete one: the   *)
(* controller that WM_FONTCHANGE dereferences without a test, the content  *)
(* window that WM_SIZE and WM_ACTIVATE move and focus, and the handle they *)
(* ask for the client area all exist, and conversely no engine runs        *)
(* without its window, whichever step of the creation failed before.       *)
(***************************************************************************)
CompleteInLoop ==
    InLoop =>
        /\ hwnd = "alive" => controller = "ready" /\ content /\ view /\ handle
        /\ hwnd # "alive" => controller = "null" /\ ~handle

(***************************************************************************)
(* Nothing is left behind: on every way out (a window that could not be    *)
(* created, an engine that could not, a closed window, an exit with the    *)
(* window open) the window is destroyed and its class unregistered, though *)
(* the first attempt, from within WM_DESTROY, may fail and still clear the *)
(* flag.                                                                   *)
(***************************************************************************)
NothingLeft ==
    todo = <<>> =>
        /\ hwnd = "none" /\ ~handle
        /\ controller = "null" /\ ~view
        /\ ~systemClass /\ ~classRegistered /\ count = 0

(***************************************************************************)
(* "If true, closing this window will quit the application"                *)
(* (win32_window.h): once the window is being destroyed, the process ends. *)
(***************************************************************************)
CloseQuits == hwnd = "dying" ~> todo = <<>>

(***************************************************************************)
(* A window with content is shown in the end, unless it is closed: also    *)
(* when the engine completes its first frame before OnCreate has set the   *)
(* callback that shows it.                                                 *)
(***************************************************************************)
WindowShown == content ~> (visible \/ controller = "null")

=============================================================================
