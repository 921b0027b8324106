---------------------------- MODULE WriteBehind ----------------------------
(***************************************************************************)
(* What the stored language promises, without pages, locales and answers:  *)
(* a register that is written to disk behind its user.  A value written is *)
(* read at once and reaches the disk in its turn, or is refused in its     *)
(* turn; when the process stops, what has not reached the disk is lost and *)
(* nothing else; the default is written only when a start finds the disk   *)
(* empty.                                                                  *)
(***************************************************************************)
EXTENDS Sequences

CONSTANTS
    Values,   \* what may be written
    NULL      \* nothing was written yet

VARIABLES
    up,      \* the process runs
    value,   \* what a read returns while it does
    disk,    \* what the next start will find
    lag      \* values written and not yet on disk, oldest first

Init ==
    /\ up = FALSE
    /\ value = NULL /\ disk = NULL
    /\ lag = <<>>

Start(default) ==
    /\ ~up
    /\ up' = TRUE
    /\ \/ disk = NULL /\ value' = default /\ lag' = <<default>>
       \/ disk # NULL /\ value' = disk /\ lag' = <<>>
    /\ UNCHANGED disk

Write(v) ==
    /\ up
    /\ value' = v
    /\ lag' = Append(lag, v)
    /\ UNCHANGED <<up, disk>>

Flush ==
    /\ lag # <<>>
    /\ disk' = Head(lag)
    /\ lag' = Tail(lag)
    /\ UNCHANGED <<up, value>>

(* The disk does not take the value; reads still return it. *)
Refuse ==
    /\ lag # <<>>
    /\ lag' = Tail(lag)
    /\ UNCHANGED <<up, value, disk>>

Stop ==
    /\ up
    /\ up' = FALSE
    /\ value' = NULL
    /\ lag' = <<>>
    /\ UNCHANGED disk

Next ==
    \/ \E v \in Values : Start(v) \/ Write(v)
    \/ Flush
    \/ Refuse
    \/ Stop

Spec == Init /\ [][Next]_<<up, value, disk, lag>>

=============================================================================
