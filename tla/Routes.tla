------------------------------- MODULE Routes -------------------------------
(***************************************************************************)
(* Flutter's Navigator, as the app uses it: a stack of routes of which the *)
(* last one is on the screen.  The framework is not part of the            *)
(* repository; these operators say what the calls in src/lib rely on.  All *)
(* of them act on the top of the stack, whichever page's context the       *)
(* caller passes.  A route is a record; its field "name" is                *)
(* RouteSettings.name, "" for a MaterialPageRoute pushed without settings. *)
(***************************************************************************)
EXTENDS Integers, Sequences

Top(stack) == stack[Len(stack)]

(* Navigator.push and Navigator.pushNamed *)
Push(stack, route) == Append(stack, route)

(* Navigator.pop *)
Pop(stack) == SubSeq(stack, 1, Len(stack) - 1)

(* Navigator.pushReplacement and Navigator.pushReplacementNamed *)
PushReplacement(stack, route) == Append(Pop(stack), route)

(***************************************************************************)
(* Navigator.popUntil(context, (route) => route.settings.name == name):    *)
(* the position of the last route of that name, 0 if there is none, in     *)
(* which case every route is popped.                                       *)
(***************************************************************************)
Named(stack, name) == {i \in 1 .. Len(stack) : stack[i].name = name}

IsLastNamed(stack, name, n) ==
    /\ n \in Named(stack, name) \cup {0}
    /\ \A i \in Named(stack, name) : i <= n

LastNamed(stack, name) ==
    CHOOSE n \in 0 .. Len(stack) : IsLastNamed(stack, name, n)

PopUntil(stack, name) == SubSeq(stack, 1, LastNamed(stack, name))

=============================================================================
