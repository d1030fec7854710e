----------------------------- MODULE ServerStop -----------------------------
(***************************************************************************)
(* GameService::Stop, called on a thread of its own while the IO thread    *)
(* handles requests and posts what they change, and the database worker    *)
(* writes it. The scene is one number, the count of the changes to it; the *)
(* task of a change writes the scene as it was then.                       *)
(*                                                                         *)
(* With more than one worker this is ThreadPool, and only what WorkerQueue *)
(* promises is of interest.                                                *)
(***************************************************************************)
EXTENDS WorkerQueue

VARIABLES
    running,    \* EventLoop::running_ of the server's loop
    snap,       \* the scene Stop has exported
    stored      \* the scene in Mongo

vars == <<workers, queue, stop, waiting, does, task, notify, stopper, posted, taken, done,
          running, snap, stored>>

\* Every change is posted at once (SaveSceneAsync).
scene == posted

StopInit ==
    /\ Init
    /\ running = TRUE
    /\ snap = 0
    /\ stored = 0

\* A handler that changes the scene
HandleChange ==
    /\ running
    /\ Post
    /\ UNCHANGED <<stopper, running, snap, stored>>

PosterNotifies == NotifyOne /\ UNCHANGED <<stopper, running, snap, stored>>

Worker(w) ==
    /\ \/ WorkerLoop(w) /\ UNCHANGED stored
       \/ RunTask(w) /\ stored' = task[w]
    /\ UNCHANGED <<stopper, running, snap>>

Spurious(w) == SpuriousWakeup(w) /\ UNCHANGED <<stopper, running, snap, stored>>

\* GameService::Stop. The scene is exported and written on this thread, then the
\* worker is stopped and joined, and only then the loop.
ExportScene ==
    /\ stopper = "idle"
    /\ stopper' = "export"
    /\ snap' = scene
    /\ UNCHANGED <<queueVars, running, stored>>

UpsertScene ==
    /\ stopper = "export"
    /\ stopper' = "upsert"
    /\ stored' = snap
    /\ UNCHANGED <<queueVars, running, snap>>

StopWorker ==
    /\ stopper = "upsert"
    /\ stopper' = "stop"
    /\ SetStop
    /\ UNCHANGED <<running, snap, stored>>

WakeWorkers ==
    /\ stopper = "stop"
    /\ stopper' = "join"
    /\ NotifyAll
    /\ UNCHANGED <<running, snap, stored>>

JoinWorkers ==
    /\ stopper = "join"
    /\ Join
    /\ stopper' = "returned"
    /\ UNCHANGED <<queueVars, running, snap, stored>>

StopLoop ==
    /\ stopper = "returned"
    /\ running
    /\ running' = FALSE
    /\ UNCHANGED <<queueVars, stopper, snap, stored>>

Stop == ExportScene \/ UpsertScene \/ StopWorker \/ WakeWorkers \/ JoinWorkers \/ StopLoop

Next ==
    \/ HandleChange
    \/ PosterNotifies
    \/ \E w \in workers : Worker(w) \/ Spurious(w)
    \/ Stop

Spec == StopInit /\ [][Next]_vars

\* The threads run on. Nobody has to call Stop or to change anything, and a
\* spurious wakeup is owed to nobody.
FairSpec ==
    /\ Spec
    /\ \A w \in UNION Pools : WF_vars(w \in workers /\ Worker(w))
    /\ WF_vars(PosterNotifies)
    /\ WF_vars(stopper # "idle" /\ Stop)

-----------------------------------------------------------------------------
(* Properties *)

\* DbWorker and ThreadPool keep what TaskQueue promises: what Post took before
\* Stop is done, once, when Stop returns.
TasksSpec == Tasks!Spec

\* A Stop that was called returns: no wakeup is lost between the queue, the flag
\* and the condition variable.
StopReturns == (stopper # "idle") ~> (stopper = "returned" /\ ~running)

\* If no request is handled once Stop has read the scene, what is stored at last
\* is the scene, though Stop writes it ahead of older writes in the queue.
SceneSaved ==
    \A w \in workers :
        workers = {w} /\ stopper = "returned" /\ scene = snap => stored = scene
=============================================================================
