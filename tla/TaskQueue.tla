------------------------------ MODULE TaskQueue ------------------------------
(***************************************************************************)
(* What a worker promises: a task that is taken is done once, and when the *)
(* worker is closed all that were taken are done and no more are taken.    *)
(***************************************************************************)
CONSTANT Task   \* the tasks there are

VARIABLES
    taken,  \* the tasks taken
    done,   \* the tasks done
    closed  \* Stop, or Shutdown, has returned

Init == taken = {} /\ done = {} /\ closed = FALSE

Take(t) ==
    /\ ~closed
    /\ t \notin taken
    /\ taken' = taken \cup {t}
    /\ UNCHANGED <<done, closed>>

Do(t) ==
    /\ t \in taken \ done
    /\ done' = done \cup {t}
    /\ UNCHANGED <<taken, closed>>

Close ==
    /\ ~closed
    /\ done = taken
    /\ closed' = TRUE
    /\ UNCHANGED <<taken, done>>

Next == Close \/ \E t \in Task : Take(t) \/ Do(t)

Spec == Init /\ [][Next]_<<taken, done, closed>>
=============================================================================
