----------------------------- MODULE ByteStream -----------------------------
(***************************************************************************)
(* What Connection::Send promises the rest of the server: the units given  *)
(* to it go out in the order they were given, each of them once. Units are *)
(* numbered in the order they are given.                                   *)
(***************************************************************************)
EXTENDS Integers, Sequences

VARIABLES
    given,  \* how many units were given to Send
    sent    \* the units that went out

Init ==
    /\ given = 0
    /\ sent = <<>>

\* More units are given, and as many of those that wait go out as there is room
\* for, the oldest first.
Next ==
    /\ given' \in Nat
    /\ given' >= given
    /\ \E n \in 0 .. given' - Len(sent) : sent' = sent \o [i \in 1 .. n |-> Len(sent) + i]

Spec == Init /\ [][Next]_<<given, sent>>
=============================================================================
