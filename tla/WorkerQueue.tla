----------------------------- MODULE WorkerQueue -----------------------------
(***************************************************************************)
(* DbWorker and ThreadPool: a queue, a mutex and a condition variable. The *)
(* two have the same WorkerLoop, Post (Enqueue) and Stop (Shutdown); what  *)
(* sets them apart is the number of worker threads, one in DbWorker. What  *)
(* is done under the mutex is one action, notify and what follows it is    *)
(* another. Tasks are numbered as they are posted.                         *)
(***************************************************************************)
EXTENDS Integers, Sequences

CONSTANTS
    Pools,      \* the sets of worker threads to start with
    MaxTasks    \* bound of the model: tasks posted

ASSUME WorkerConstants ==
    /\ \A workers \in Pools : workers # {}
    /\ MaxTasks \in Nat

VARIABLES
    workers,    \* thr_, workers_
    queue,      \* q_, tasks_
    stop,       \* stop_
    waiting,    \* the workers blocked in cv_.wait
    does,       \* where each worker is: "loop", "task", "ended"
    task,       \* the task it has
    notify,     \* the poster is between its unlock and its notify_one
    stopper,    \* where the thread is that calls Stop
    posted,     \* history: how often Post was called
    taken,      \* history: the tasks put in the queue
    done        \* history: the tasks done

queueVars == <<workers, queue, stop, waiting, does, task, notify, posted, taken, done>>

Init ==
    /\ workers \in Pools
    /\ queue = <<>>
    /\ stop = FALSE
    /\ waiting = {}
    /\ does = [w \in workers |-> "loop"]
    /\ task = [w \in workers |-> 0]
    /\ notify = FALSE
    /\ stopper = "idle"
    /\ posted = 0
    /\ taken = {}
    /\ done = {}

-----------------------------------------------------------------------------
(* The thread that posts *)

\* A task posted after Stop began is dropped; nobody is told.
Post ==
    /\ ~notify
    /\ posted < MaxTasks
    /\ posted' = posted + 1
    /\ IF stop
       THEN UNCHANGED <<queue, taken, notify>>
       ELSE /\ queue' = Append(queue, posted')
            /\ taken' = taken \cup {posted'}
            /\ notify' = TRUE
    /\ UNCHANGED <<workers, stop, waiting, does, task, done>>

NotifyOne ==
    /\ notify
    /\ notify' = FALSE
    /\ IF waiting = {} THEN UNCHANGED waiting
                       ELSE \E w \in waiting : waiting' = waiting \ {w}
    /\ UNCHANGED <<workers, queue, stop, does, task, posted, taken, done>>

-----------------------------------------------------------------------------
(* WorkerLoop *)

\* Mutant: a worker leaves as soon as stop_ is set.
LeavesAtOnce == stop

\* stop_ && q_.empty()
Leaves == stop /\ queue = <<>>

\* Mutant: the newest task first.
NewestFirst(w) ==
    /\ task' = [task EXCEPT ![w] = queue[Len(queue)]]
    /\ queue' = SubSeq(queue, 1, Len(queue) - 1)

PopFront(w) ==
    /\ task' = [task EXCEPT ![w] = Head(queue)]
    /\ queue' = Tail(queue)

\* With the mutex: wait, leave or take a task.
WorkerLoop(w) ==
    /\ does[w] = "loop"
    /\ w \notin waiting
    /\ \/ /\ ~stop /\ queue = <<>>
          /\ waiting' = waiting \cup {w}
          /\ UNCHANGED <<queue, does, task>>
       \/ /\ Leaves
          /\ does' = [does EXCEPT ![w] = "ended"]
          /\ UNCHANGED <<queue, waiting, task>>
       \/ /\ ~Leaves /\ queue # <<>>
          /\ PopFront(w)
          /\ does' = [does EXCEPT ![w] = "task"]
          /\ UNCHANGED waiting
    /\ UNCHANGED <<workers, stop, notify, posted, taken, done>>

\* Without it: the task. ThreadPool catches what it throws.
RunTask(w) ==
    /\ does[w] = "task"
    /\ done' = done \cup {task[w]}
    /\ does' = [does EXCEPT ![w] = "loop"]
    /\ UNCHANGED <<workers, queue, stop, waiting, task, notify, posted, taken>>

\* A condition variable may wake a thread for no reason.
SpuriousWakeup(w) ==
    /\ w \in waiting
    /\ waiting' = waiting \ {w}
    /\ UNCHANGED <<workers, queue, stop, does, task, notify, posted, taken, done>>

-----------------------------------------------------------------------------
(* Stop, Shutdown: the flag, notify_all, join *)

SetStop ==
    /\ stop' = TRUE
    /\ UNCHANGED <<workers, queue, waiting, does, task, notify, posted, taken, done>>

\* Mutant: notify_one.
NotifySome ==
    /\ \E w \in waiting : waiting' = waiting \ {w}
    /\ UNCHANGED <<workers, queue, stop, does, task, notify, posted, taken, done>>

NotifyAll ==
    /\ waiting' = {}
    /\ UNCHANGED <<workers, queue, stop, does, task, notify, posted, taken, done>>

Join == \A w \in workers : does[w] = "ended"

-----------------------------------------------------------------------------
Tasks == INSTANCE TaskQueue WITH
    Task <- 1 .. MaxTasks, closed <- stopper = "returned"
=============================================================================
