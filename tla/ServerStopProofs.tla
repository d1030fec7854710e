-------------------------- MODULE ServerStopProofs --------------------------
(***************************************************************************)
(* What DbWorker and ThreadPool promise, proved for every number of worker *)
(* threads and every number of tasks: they implement TaskQueue, and a Stop *)
(* that overlaps no change of the scene leaves the last scene in Mongo.    *)
(*                                                                         *)
(* A task that was taken is in the queue, in the hands of one worker, or   *)
(* done, and never in two of them (OnePlace); a worker that has ended left *)
(* nothing behind (EndedLast). That is the refinement. SceneSaved needs    *)
(* the order too: one worker does the tasks as they were posted (InOrder), *)
(* so that the write of the last change is the last one (LastWrite).       *)
(***************************************************************************)
EXTENDS ServerStop, SequenceTheorems, TLAPS

\* Tasks are the numbers of their posts.
StopTypes ==
    /\ workers \in Pools
    /\ queue \in Seq(Nat)
    /\ does \in [workers -> {"loop", "task", "ended"}]
    /\ task \in [workers -> Nat]
    /\ stopper \in {"idle", "export", "upsert", "stop", "join", "returned"}
    /\ posted \in Nat
    /\ posted <= MaxTasks
    /\ taken \subseteq 1 .. posted
    /\ done \subseteq taken
    /\ snap \in Nat
    /\ stored \in Nat

\* Where a task is
Queued(t) == \E i \in 1 .. Len(queue) : queue[i] = t

InHand(t) == \E w \in workers : does[w] = "task" /\ task[w] = t

\* A task that was taken is queued, in hand or done; a queued one is not done, one
\* in hand is neither done nor in the hands of another. The queue is in the order
\* of posting, and what is in hand was posted before.
OnePlace ==
    /\ \A t \in taken \ done : Queued(t) \/ InHand(t)
    /\ \A i \in 1 .. Len(queue) : queue[i] \in taken \ done
    /\ \A i, j \in 1 .. Len(queue) : i < j => queue[i] < queue[j]
    /\ \A w \in workers : does[w] = "task" =>
        /\ task[w] \in taken \ done
        /\ \A i \in 1 .. Len(queue) : task[w] < queue[i]
        /\ \A v \in workers \ {w} : does[v] = "task" => task[v] # task[w]

\* stop_ is set from StopWorker on; a worker ends when it is and the queue is
\* empty; Stop returns when all have.
EndedLast ==
    /\ stop <=> stopper \in {"stop", "join", "returned"}
    /\ \A w \in workers : does[w] = "ended" => stop /\ queue = <<>>
    /\ stopper = "returned" => \A w \in workers : does[w] = "ended"

WorkInv == StopTypes /\ OnePlace /\ EndedLast

\* One worker: what is done was posted before what is not.
InOrder ==
    \A w \in workers : workers = {w} =>
        /\ \A i \in 1 .. Len(queue) : \A d \in done : d < queue[i]
        /\ does[w] = "task" => \A d \in done : d < task[w]

\* As long as no change comes after the export, every change was taken, and once
\* Stop has written the scene the last change is stored or is still to be written.
LastWrite ==
    /\ ~stop => taken = 1 .. posted
    /\ stopper # "idle" =>
        /\ snap <= posted
        /\ snap = posted => taken = 1 .. posted
    /\ \A w \in workers :
        workers = {w} /\ snap = posted /\ stopper \notin {"idle", "export"} =>
            stored = posted \/ posted \in taken \ done

SavedInv == WorkInv /\ InOrder /\ LastWrite

-----------------------------------------------------------------------------
(* The invariant *)

\* At the start nothing is posted.
LEMMA SavedInit == StopInit => SavedInv
<1> SUFFICES ASSUME StopInit PROVE SavedInv
  OBVIOUS
<1> USE DEF StopInit, Init
<1>1. StopTypes
  BY WorkerConstants DEF StopTypes
<1>2. OnePlace
  BY DEF OnePlace
<1>3. EndedLast
  BY DEF EndedLast
<1>4. InOrder
  BY DEF InOrder
<1>5. LastWrite
  BY DEF LastWrite
<1> QED  BY <1>1, <1>2, <1>3, <1>4, <1>5 DEF SavedInv, WorkInv

\* Post: the new task is the last of the queue, unless Stop has begun.
LEMMA PostKeeps == SavedInv /\ HandleChange => SavedInv'
<1> SUFFICES ASSUME SavedInv, HandleChange PROVE SavedInv'
  OBVIOUS
<1> USE DEF SavedInv, WorkInv, HandleChange, Post
<1>1. /\ queue \in Seq(Nat) /\ Len(queue) \in Nat
      /\ posted \in Nat /\ posted' = posted + 1
      /\ taken \subseteq 1 .. posted /\ done \subseteq taken
  BY DEF StopTypes
<1>2. CASE stop
  <2>1. StopTypes'
    <3>1. posted + 1 <= MaxTasks /\ taken \subseteq 1 .. posted + 1
      BY <1>1, WorkerConstants DEF StopTypes
    <3>2. UNCHANGED <<workers, queue, does, task, stopper, taken, done, snap, stored>>
      BY <1>2
    <3> QED  BY <1>1, <3>1, <3>2 DEF StopTypes
  <2>2. OnePlace'
    BY <1>1, <1>2 DEF OnePlace, Queued, InHand
  <2>3. EndedLast'
    BY <1>2 DEF EndedLast
  <2>4. InOrder'
    BY <1>2 DEF InOrder
  <2>5. LastWrite'
    BY <1>1, <1>2 DEF LastWrite, StopTypes
  <2> QED  BY <2>1, <2>2, <2>3, <2>4, <2>5
<1>3. CASE ~stop
  <2>1. queue' = Append(queue, posted + 1) /\ taken' = taken \cup {posted + 1}
    BY <1>3
  <2>2. /\ queue' \in Seq(Nat) /\ Len(queue') = Len(queue) + 1
        /\ \A i \in 1 .. Len(queue) : queue'[i] = queue[i]
        /\ queue'[Len(queue) + 1] = posted + 1
    BY <1>1, <2>1
  <2>3. StopTypes'
    BY <1>1, <1>3, <2>1, <2>2, WorkerConstants DEF StopTypes
  <2>4. \A i \in 1 .. Len(queue) : queue[i] \in taken \ done /\ queue[i] < posted + 1
    BY <1>1 DEF OnePlace
  <2>5. \A i \in 1 .. Len(queue') : i \in 1 .. Len(queue) \/ i = Len(queue) + 1
    BY <1>1, <2>2
  <2>6. posted + 1 \notin taken /\ posted + 1 \notin done
    BY <1>1
  <2>7. OnePlace'
    <3>1. (\A t \in taken \ done : Queued(t) \/ InHand(t))'
      <4> SUFFICES ASSUME NEW t \in taken' \ done' PROVE Queued(t)' \/ InHand(t)'
        OBVIOUS
      <4>1. CASE t = posted + 1
        <5>1. Len(queue) + 1 \in 1 .. Len(queue')
          BY <1>1, <2>2
        <5> QED  BY <4>1, <2>2, <5>1 DEF Queued
      <4>2. CASE t \in taken \ done
        <5>1. CASE Queued(t)
          <6>1. PICK i \in 1 .. Len(queue) : queue[i] = t
            BY <5>1 DEF Queued
          <6>2. i \in 1 .. Len(queue') /\ queue'[i] = t
            BY <1>1, <2>2, <6>1
          <6> QED  BY <6>2 DEF Queued
        <5>2. CASE InHand(t)
          BY <5>2 DEF InHand
        <5> QED  BY <4>2, <5>1, <5>2 DEF OnePlace
      <4> QED  BY <2>1, <4>1, <4>2
    <3>2. (\A i \in 1 .. Len(queue) : queue[i] \in taken \ done)'
      BY <1>1, <2>1, <2>2, <2>4, <2>5, <2>6
    <3>3. (\A i, j \in 1 .. Len(queue) : i < j => queue[i] < queue[j])'
      <4> SUFFICES ASSUME NEW i \in 1 .. Len(queue'), NEW j \in 1 .. Len(queue'), i < j
                   PROVE  queue'[i] < queue'[j]
        OBVIOUS
      <4>1. i \in 1 .. Len(queue)
        BY <1>1, <2>2
      <4> QED  BY <1>1, <2>2, <2>4, <2>5, <4>1 DEF OnePlace
    <3>4. ASSUME NEW w \in workers, does[w] = "task"
          PROVE  /\ task[w] \in taken' \ done
                 /\ \A i \in 1 .. Len(queue') : task[w] < queue'[i]
                 /\ \A v \in workers \ {w} : does[v] = "task" => task[v] # task[w]
      <4>1. task[w] \in taken \ done /\ task[w] < posted + 1
        <5>1. task[w] \in taken \ done
          BY <3>4 DEF OnePlace
        <5>2. \A t \in taken : t < posted + 1
          BY <1>1
        <5> QED  BY <5>1, <5>2
      <4>2. \A i \in 1 .. Len(queue) : task[w] < queue[i]
        BY <3>4 DEF OnePlace
      <4>3. \A i \in 1 .. Len(queue') : task[w] < queue'[i]
        BY <2>2, <2>5, <4>1, <4>2
      <4>4. \A v \in workers \ {w} : does[v] = "task" => task[v] # task[w]
        BY <3>4 DEF OnePlace
      <4>5. taken \subseteq taken'
        BY <2>1
      <4> QED  BY <4>1, <4>3, <4>4, <4>5
    <3> QED  BY <3>1, <3>2, <3>3, <3>4 DEF OnePlace
  <2>8. EndedLast'
    BY <1>3 DEF EndedLast
  <2>9. InOrder'
    <3> SUFFICES ASSUME NEW w \in workers, workers = {w}
                 PROVE  /\ \A i \in 1 .. Len(queue') : \A d \in done : d < queue'[i]
                        /\ does[w] = "task" => \A d \in done : d < task[w]
      BY DEF InOrder
    <3>1. \A d \in done : d < posted + 1
      BY <1>1
    <3> QED  BY <2>2, <2>5, <3>1 DEF InOrder
  <2>10. LastWrite'
    BY <1>1, <1>3, <2>1 DEF LastWrite, StopTypes
  <2> QED  BY <2>3, <2>7, <2>8, <2>9, <2>10
<1> QED  BY <1>2, <1>3

\* WorkerLoop: a worker that waits or leaves touches no task; one that takes the
\* head of the queue has the oldest of those that are left.
LEMMA LoopKeeps ==
    ASSUME SavedInv, NEW w \in workers, WorkerLoop(w),
           UNCHANGED <<stored, stopper, running, snap>>
    PROVE  SavedInv'
<1> USE DEF SavedInv, WorkInv
<1>1. /\ queue \in Seq(Nat) /\ Len(queue) \in Nat
      /\ does \in [workers -> {"loop", "task", "ended"}] /\ task \in [workers -> Nat]
  BY DEF StopTypes
<1>2. does[w] = "loop" /\ UNCHANGED <<workers, stop, posted, taken, done>>
  BY DEF WorkerLoop
<1>3. CASE UNCHANGED <<queue, does, task>>
  <2>1. StopTypes'
    BY <1>2, <1>3 DEF StopTypes
  <2>2. OnePlace'
    BY <1>2, <1>3 DEF OnePlace, Queued, InHand
  <2>3. EndedLast'
    BY <1>2, <1>3 DEF EndedLast
  <2>4. InOrder'
    BY <1>2, <1>3 DEF InOrder
  <2>5. LastWrite'
    BY <1>2, <1>3 DEF LastWrite
  <2> QED  BY <2>1, <2>2, <2>3, <2>4, <2>5
<1>4. CASE Leaves /\ does' = [does EXCEPT ![w] = "ended"] /\ UNCHANGED <<queue, task>>
  <2>1. StopTypes'
    BY <1>1, <1>2, <1>4 DEF StopTypes
  <2>2. \A v \in workers : does'[v] = "task" <=> does[v] = "task"
    BY <1>1, <1>2, <1>4
  <2>3. OnePlace'
    BY <1>2, <1>4, <2>2 DEF OnePlace, Queued, InHand
  <2>4. EndedLast'
    BY <1>1, <1>2, <1>4 DEF EndedLast, Leaves
  <2>5. InOrder'
    BY <1>2, <1>4, <2>2 DEF InOrder
  <2>6. LastWrite'
    BY <1>2, <1>4 DEF LastWrite
  <2> QED  BY <2>1, <2>3, <2>4, <2>5, <2>6
<1>5. CASE queue # <<>> /\ PopFront(w) /\ does' = [does EXCEPT ![w] = "task"]
  <2>1. /\ Head(queue) = queue[1] /\ 1 \in 1 .. Len(queue)
        /\ queue' \in Seq(Nat) /\ Len(queue') = Len(queue) - 1
        /\ \A i \in 1 .. Len(queue') : i + 1 \in 1 .. Len(queue) /\ queue'[i] = queue[i + 1]
        /\ queue[1] \in Nat
    <3>1. queue # <<>> /\ queue' = Tail(queue)
      BY <1>5 DEF PopFront
    <3>2. Len(queue) > 0
      BY <1>1, <3>1
    <3>3. /\ Tail(queue) \in Seq(Nat) /\ Len(Tail(queue)) = Len(queue) - 1
          /\ \A i \in 1 .. Len(Tail(queue)) : Tail(queue)[i] = queue[i + 1]
      BY <1>1, <3>1, HeadTailProperties
    <3> QED  BY <1>1, <3>1, <3>2, <3>3
  <2>2. /\ task' = [task EXCEPT ![w] = queue[1]] /\ does'[w] = "task" /\ task'[w] = queue[1]
        /\ \A v \in workers \ {w} : does'[v] = does[v] /\ task'[v] = task[v]
    BY <1>1, <1>5, <2>1 DEF PopFront
  <2>3. StopTypes'
    BY <1>1, <1>2, <1>5, <2>1, <2>2 DEF StopTypes
  <2>4. queue[1] \in taken \ done
    BY <2>1 DEF OnePlace
  <2>5. \A i \in 1 .. Len(queue') : queue[1] < queue'[i]
    <3> TAKE i \in 1 .. Len(queue')
    <3>1. 1 < i + 1 /\ i + 1 \in 1 .. Len(queue) /\ queue'[i] = queue[i + 1]
      BY <2>1
    <3> QED  BY <2>1, <3>1 DEF OnePlace
  <2>6. OnePlace'
    <3>1. ASSUME NEW t \in taken \ done
          PROVE  Queued(t)' \/ InHand(t)'
      <4>1. CASE InHand(t)
        <5>1. PICK v \in workers : does[v] = "task" /\ task[v] = t
          BY <4>1 DEF InHand
        <5>2. v # w
          BY <1>2, <5>1
        <5> QED  BY <1>2, <2>2, <5>1, <5>2 DEF InHand
      <4>2. CASE Queued(t)
        <5>1. PICK i \in 1 .. Len(queue) : queue[i] = t
          BY <4>2 DEF Queued
        <5>2. CASE i = 1
          BY <1>2, <2>2, <5>1, <5>2 DEF InHand
        <5>3. CASE i # 1
          <6>1. i - 1 \in 1 .. Len(queue') /\ (i - 1) + 1 = i
            BY <1>1, <2>1, <5>1, <5>3
          <6>2. queue'[i - 1] = t
            BY <2>1, <5>1, <6>1
          <6> QED  BY <6>1, <6>2 DEF Queued
        <5> QED  BY <5>2, <5>3
      <4> QED  BY <3>1, <4>1, <4>2 DEF OnePlace
    <3>2. \A i \in 1 .. Len(queue') : queue'[i] \in taken \ done
      BY <2>1 DEF OnePlace
    <3>3. ASSUME NEW i \in 1 .. Len(queue'), NEW j \in 1 .. Len(queue'), i < j
          PROVE  queue'[i] < queue'[j]
      <4>1. /\ i + 1 \in 1 .. Len(queue) /\ j + 1 \in 1 .. Len(queue) /\ i + 1 < j + 1
            /\ queue'[i] = queue[i + 1] /\ queue'[j] = queue[j + 1]
        BY <2>1, <3>3
      <4> QED  BY <4>1 DEF OnePlace
    <3>4. ASSUME NEW v \in workers, does'[v] = "task"
          PROVE  /\ task'[v] \in taken \ done
                 /\ \A i \in 1 .. Len(queue') : task'[v] < queue'[i]
                 /\ \A u \in workers \ {v} : does'[u] = "task" => task'[u] # task'[v]
      <4>1. ASSUME NEW u \in workers, u # w, does'[u] = "task"
            PROVE  /\ task[u] = task'[u] /\ task[u] \in taken \ done
                   /\ \A i \in 1 .. Len(queue) : task[u] < queue[i]
                   /\ task[u] # queue[1]
        <5>1. does[u] = "task" /\ task'[u] = task[u]
          BY <2>2, <4>1
        <5>2. task[u] \in taken \ done /\ \A i \in 1 .. Len(queue) : task[u] < queue[i]
          BY <5>1 DEF OnePlace
        <5>3. task[u] < queue[1] /\ task[u] \in Nat
          BY <1>1, <2>1, <5>2
        <5> QED  BY <2>1, <5>1, <5>2, <5>3
      <4>2. CASE v = w
        BY <2>2, <2>4, <2>5, <4>1, <4>2
      <4>3. CASE v # w
        <5>1. does[v] = "task" /\ task'[v] = task[v]
          BY <2>2, <3>4, <4>3
        <5>2. \A i \in 1 .. Len(queue') : task'[v] < queue'[i]
          BY <2>1, <3>4, <4>1, <4>3
        <5>3. \A u \in workers \ {v} : does'[u] = "task" => task'[u] # task'[v]
          <6> TAKE u \in workers \ {v}
          <6> HAVE does'[u] = "task"
          <6>1. CASE u = w
            BY <2>2, <3>4, <4>1, <4>3, <6>1
          <6>2. CASE u # w
            BY <2>2, <5>1, <6>2 DEF OnePlace
          <6> QED  BY <6>1, <6>2
        <5> QED  BY <3>4, <4>1, <4>3, <5>2, <5>3
      <4> QED  BY <4>2, <4>3
    <3> QED  BY <1>2, <3>1, <3>2, <3>3, <3>4 DEF OnePlace
  <2>7. EndedLast'
    <3>1. \A v \in workers : does[v] # "ended"
      BY <1>5 DEF EndedLast
    <3>2. \A v \in workers : does'[v] # "ended"
      BY <2>2, <3>1
    <3> QED  BY <1>2, <3>1, <3>2 DEF EndedLast
  <2>8. InOrder'
    <3> SUFFICES ASSUME NEW v \in workers, workers = {v}
                 PROVE  /\ \A i \in 1 .. Len(queue') : \A d \in done : d < queue'[i]
                        /\ \A d \in done : d < task'[v]
      BY <1>2 DEF InOrder
    <3>1. v = w /\ \A i \in 1 .. Len(queue) : \A d \in done : d < queue[i]
      BY DEF InOrder
    <3> QED  BY <2>1, <2>2, <3>1
  <2>9. LastWrite'
    BY <1>2 DEF LastWrite
  <2> QED  BY <2>3, <2>6, <2>7, <2>8, <2>9
<1> QED  BY <1>3, <1>4, <1>5 DEF WorkerLoop

\* RunTask: the task is done, and the scene of its change is stored.
LEMMA RunKeeps ==
    ASSUME SavedInv, NEW w \in workers, RunTask(w), stored' = task[w],
           UNCHANGED <<stopper, running, snap>>
    PROVE  SavedInv'
<1> USE DEF SavedInv, WorkInv
<1>1. /\ queue \in Seq(Nat) /\ Len(queue) \in Nat /\ posted \in Nat
      /\ does \in [workers -> {"loop", "task", "ended"}] /\ task \in [workers -> Nat]
      /\ taken \subseteq 1 .. posted /\ done \subseteq taken
  BY DEF StopTypes
<1>2. /\ does[w] = "task" /\ done' = done \cup {task[w]}
      /\ does' = [does EXCEPT ![w] = "loop"]
      /\ UNCHANGED <<workers, queue, stop, task, posted, taken>>
  BY DEF RunTask
<1>3. /\ task[w] \in taken \ done /\ task[w] \in Nat
      /\ \A i \in 1 .. Len(queue) : task[w] < queue[i]
      /\ \A v \in workers \ {w} : does[v] = "task" => task[v] # task[w]
  BY <1>1, <1>2 DEF OnePlace
<1>4. \A i \in 1 .. Len(queue) : queue[i] \in taken \ done /\ queue[i] # task[w]
  <2> TAKE i \in 1 .. Len(queue)
  <2>1. queue[i] \in taken \ done /\ queue[i] \in Nat /\ task[w] < queue[i]
    BY <1>1, <1>3 DEF OnePlace
  <2> QED  BY <1>3, <2>1
<1>5. does'[w] # "task" /\ \A v \in workers \ {w} : does'[v] = does[v]
  BY <1>1, <1>2
<1>6. StopTypes'
  <2>1. does' \in [workers -> {"loop", "task", "ended"}] /\ done' \subseteq taken
    BY <1>1, <1>2, <1>3
  <2> QED  BY <1>2, <1>3, <2>1 DEF StopTypes
<1>7. OnePlace'
  <2>1. ASSUME NEW t \in taken \ done'
        PROVE  Queued(t)' \/ InHand(t)'
    <3>1. t \in taken \ done /\ t # task[w]
      BY <1>2
    <3>2. CASE Queued(t)
      BY <1>2, <3>2 DEF Queued
    <3>3. CASE InHand(t)
      <4>1. PICK v \in workers : does[v] = "task" /\ task[v] = t
        BY <3>3 DEF InHand
      <4>2. v # w
        BY <3>1, <4>1
      <4> QED  BY <1>2, <1>5, <4>1, <4>2 DEF InHand
    <3> QED  BY <3>1, <3>2, <3>3 DEF OnePlace
  <2>2. \A i \in 1 .. Len(queue) : queue[i] \in taken \ done'
    BY <1>2, <1>4
  <2>3. ASSUME NEW v \in workers, does'[v] = "task"
        PROVE  /\ task[v] \in taken \ done'
               /\ \A i \in 1 .. Len(queue) : task[v] < queue[i]
               /\ \A u \in workers \ {v} : does'[u] = "task" => task[u] # task[v]
    <3>1. v # w /\ does[v] = "task"
      BY <1>5, <2>3
    <3>2. task[v] # task[w]
      BY <1>3, <3>1
    <3>3. task[v] \in taken \ done'
      BY <1>2, <3>1, <3>2 DEF OnePlace
    <3>4. \A i \in 1 .. Len(queue) : task[v] < queue[i]
      BY <3>1 DEF OnePlace
    <3>5. \A u \in workers \ {v} : does'[u] = "task" => does[u] = "task"
      BY <1>5
    <3>6. \A u \in workers \ {v} : does'[u] = "task" => task[u] # task[v]
      BY <3>1, <3>5 DEF OnePlace
    <3> QED  BY <3>3, <3>4, <3>6
  <2> QED  BY <1>2, <2>1, <2>2, <2>3 DEF OnePlace
<1>8. EndedLast'
  <2>1. \A v \in workers : does'[v] = "ended" <=> does[v] = "ended" /\ v # w
    BY <1>1, <1>2
  <2>2. stopper # "returned"
    BY <1>2 DEF EndedLast
  <2> QED  BY <1>2, <2>1, <2>2 DEF EndedLast
<1>9. InOrder'
  <2> SUFFICES ASSUME NEW v \in workers, workers = {v}
               PROVE  /\ \A i \in 1 .. Len(queue) : \A d \in done' : d < queue[i]
                      /\ does'[v] # "task"
    BY <1>2 DEF InOrder
  <2>1. v = w
    OBVIOUS
  <2>2. \A i \in 1 .. Len(queue) : \A d \in done : d < queue[i]
    BY DEF InOrder
  <2> QED  BY <1>2, <1>3, <1>5, <2>1, <2>2
<1>10. LastWrite'
  <2> SUFFICES ASSUME NEW v \in workers, workers = {v}, snap = posted,
                      stopper \notin {"idle", "export"}
               PROVE  task[w] = posted \/ posted \in taken \ done'
    BY <1>2 DEF LastWrite
  <2> SUFFICES ASSUME task[w] # posted PROVE posted \in taken \ done'
    OBVIOUS
  <2>1. task[w] \in 1 .. posted
    BY <1>1, <1>3
  <2>2. task[w] < posted /\ posted \in 1 .. posted
    BY <1>1, <2>1
  <2>3. posted \in taken
    BY <2>2 DEF LastWrite
  <2>4. \A d \in done : d < task[w]
    BY <1>2 DEF InOrder
  <2>5. posted \notin done
    <3> SUFFICES ASSUME posted \in done PROVE FALSE
      OBVIOUS
    <3>1. posted < task[w]
      BY <2>4
    <3> QED  BY <1>1, <2>1, <2>2, <3>1
  <2> QED  BY <1>2, <2>3, <2>5
<1> QED  BY <1>6, <1>7, <1>8, <1>9, <1>10

\* The steps of Stop: the export fixes what the last write has to be, the flag
\* closes the queue, and join waits for every worker.
LEMMA StopKeeps == SavedInv /\ Stop => SavedInv'
<1> SUFFICES ASSUME SavedInv, Stop PROVE SavedInv'
  OBVIOUS
<1> USE DEF SavedInv, WorkInv
<1>1. UNCHANGED <<workers, queue, does, task, posted, taken, done>>
  BY DEF Stop, ExportScene, UpsertScene, StopWorker, WakeWorkers, JoinWorkers, StopLoop,
         SetStop, NotifyAll, queueVars
<1>2. OnePlace'
  BY <1>1 DEF OnePlace, Queued, InHand
<1>3. InOrder'
  BY <1>1 DEF InOrder
<1>4. CASE ExportScene
  <2>1. StopTypes'
    BY <1>1, <1>4 DEF StopTypes, ExportScene, scene
  <2>2. EndedLast'
    BY <1>1, <1>4 DEF EndedLast, ExportScene, queueVars
  <2>3. LastWrite'
    BY <1>1, <1>4 DEF LastWrite, EndedLast, StopTypes, ExportScene, scene, queueVars
  <2> QED  BY <1>2, <1>3, <2>1, <2>2, <2>3
<1>5. CASE UpsertScene
  <2>1. StopTypes'
    BY <1>1, <1>5 DEF StopTypes, UpsertScene
  <2>2. EndedLast'
    BY <1>1, <1>5 DEF EndedLast, UpsertScene, queueVars
  <2>3. LastWrite'
    BY <1>1, <1>5 DEF LastWrite, UpsertScene, queueVars
  <2> QED  BY <1>2, <1>3, <2>1, <2>2, <2>3
<1>6. CASE StopWorker
  <2>1. StopTypes'
    BY <1>1, <1>6 DEF StopTypes, StopWorker
  <2>2. EndedLast'
    BY <1>1, <1>6 DEF EndedLast, StopWorker, SetStop
  <2>3. LastWrite'
    BY <1>1, <1>6 DEF LastWrite, StopWorker, SetStop
  <2> QED  BY <1>2, <1>3, <2>1, <2>2, <2>3
<1>7. CASE WakeWorkers
  <2>1. StopTypes'
    BY <1>1, <1>7 DEF StopTypes, WakeWorkers
  <2>2. EndedLast'
    BY <1>1, <1>7 DEF EndedLast, WakeWorkers, NotifyAll
  <2>3. LastWrite'
    BY <1>1, <1>7 DEF LastWrite, WakeWorkers, NotifyAll
  <2> QED  BY <1>2, <1>3, <2>1, <2>2, <2>3
<1>8. CASE JoinWorkers
  <2>1. StopTypes'
    BY <1>1, <1>8 DEF StopTypes, JoinWorkers
  <2>2. EndedLast'
    BY <1>1, <1>8 DEF EndedLast, JoinWorkers, Join, queueVars
  <2>3. LastWrite'
    BY <1>1, <1>8 DEF LastWrite, JoinWorkers, queueVars
  <2> QED  BY <1>2, <1>3, <2>1, <2>2, <2>3
<1>9. CASE StopLoop
  <2>1. StopTypes'
    BY <1>1, <1>9 DEF StopTypes, StopLoop
  <2>2. EndedLast'
    BY <1>1, <1>9 DEF EndedLast, StopLoop, queueVars
  <2>3. LastWrite'
    BY <1>1, <1>9 DEF LastWrite, StopLoop, queueVars
  <2> QED  BY <1>2, <1>3, <2>1, <2>2, <2>3
<1> QED  BY <1>4, <1>5, <1>6, <1>7, <1>8, <1>9 DEF Stop

\* A wakeup, and a step of none of the threads, changes nothing the invariant is about.
LEMMA WakeKeeps ==
    ASSUME SavedInv,
           UNCHANGED <<workers, queue, stop, does, task, stopper, posted, taken, done, snap, stored>>
    PROVE  SavedInv'
<1> USE DEF SavedInv, WorkInv
<1>1. StopTypes'
  BY DEF StopTypes
<1>2. OnePlace'
  BY DEF OnePlace, Queued, InHand
<1>3. EndedLast'
  BY DEF EndedLast
<1>4. InOrder'
  BY DEF InOrder
<1>5. LastWrite'
  BY DEF LastWrite
<1> QED  BY <1>1, <1>2, <1>3, <1>4, <1>5

\* Every step keeps the invariant.
LEMMA SavedStep == SavedInv /\ [Next]_vars => SavedInv'
<1> SUFFICES ASSUME SavedInv, [Next]_vars PROVE SavedInv'
  OBVIOUS
<1>1. CASE HandleChange
  BY <1>1, PostKeeps
<1>2. CASE PosterNotifies
  BY <1>2, WakeKeeps DEF PosterNotifies, NotifyOne
<1>3. ASSUME NEW w \in workers, Worker(w)
      PROVE  SavedInv'
  BY <1>3, LoopKeeps, RunKeeps DEF Worker
<1>4. ASSUME NEW w \in workers, Spurious(w)
      PROVE  SavedInv'
  BY <1>4, WakeKeeps DEF Spurious, SpuriousWakeup
<1>5. CASE Stop
  BY <1>5, StopKeeps
<1>6. CASE UNCHANGED vars
  BY <1>6, WakeKeeps DEF vars
<1> QED  BY <1>1, <1>2, <1>3, <1>4, <1>5, <1>6 DEF Next

\* The invariant holds.
LEMMA SavedAlways == Spec => []SavedInv
<1>1. StopInit => SavedInv
  BY SavedInit
<1>2. SavedInv /\ [Next]_vars => SavedInv'
  BY SavedStep
<1> QED  BY <1>1, <1>2, PTL DEF Spec

-----------------------------------------------------------------------------
(* What Stop promises *)

\* When every worker is joined all tasks that were taken are done: none is in
\* hand, and the queue is empty.
LEMMA AllDone ==
    ASSUME WorkInv, Join
    PROVE  done = taken
<1>1. \A w \in workers : does[w] = "ended"
  BY DEF Join
<1>2. queue = <<>>
  <2>1. workers # {}
    BY WorkerConstants DEF WorkInv, StopTypes
  <2> QED  BY <1>1, <2>1 DEF WorkInv, EndedLast
<1>3. \A t \in taken \ done : FALSE
  <2> SUFFICES ASSUME NEW t \in taken \ done PROVE FALSE
    OBVIOUS
  <2>1. ~ InHand(t)
    BY <1>1 DEF InHand
  <2>2. ~ Queued(t)
    BY <1>2 DEF Queued
  <2> QED  BY <2>1, <2>2 DEF WorkInv, OnePlace
<1> QED  BY <1>3 DEF WorkInv, StopTypes

\* GameService::Stop writes the scene it has exported ahead of older writes that
\* wait in DbWorker's queue, and yet, if no request was handled since the export,
\* the scene that is in Mongo when Stop returns is the last one.
THEOREM StopSavesTheScene == Spec => []SceneSaved
<1>1. SavedInv => SceneSaved
  <2> SUFFICES ASSUME SavedInv, NEW w \in workers, workers = {w},
                      stopper = "returned", scene = snap
               PROVE  stored = scene
    BY DEF SceneSaved
  <2>1. done = taken
    BY AllDone DEF SavedInv, WorkInv, EndedLast, Join
  <2>2. stored = posted \/ posted \in taken \ done
    BY DEF SavedInv, LastWrite, scene
  <2> QED  BY <2>1, <2>2 DEF scene
<1> QED  BY <1>1, SavedAlways, PTL

\* A step of the threads is a step of TaskQueue, or leaves its variables alone.
LEMMA TasksStep ==
    SavedInv /\ [Next]_vars => [Tasks!Next]_<<taken, done, stopper = "returned">>
<1> SUFFICES ASSUME SavedInv, [Next]_vars
             PROVE  Tasks!Next \/ UNCHANGED <<taken, done, stopper = "returned">>
  OBVIOUS
<1> USE DEF SavedInv, WorkInv
<1>1. CASE HandleChange
  <2>1. CASE stop
    BY <1>1, <2>1 DEF HandleChange, Post
  <2>2. CASE ~stop
    <3>1. posted \in Nat /\ taken \subseteq 1 .. posted /\ posted < MaxTasks /\ MaxTasks \in Nat
      BY <1>1, WorkerConstants DEF HandleChange, Post, StopTypes
    <3>2. posted + 1 \in 1 .. MaxTasks /\ posted + 1 \notin taken
      BY <3>1
    <3>3. stopper # "returned" /\ stopper' = stopper
      BY <1>1, <2>2 DEF EndedLast, HandleChange
    <3>4. taken' = taken \cup {posted + 1} /\ done' = done
      BY <1>1, <2>2 DEF HandleChange, Post
    <3>5. Tasks!Take(posted + 1)
      BY <3>2, <3>3, <3>4 DEF Tasks!Take
    <3> QED  BY <3>2, <3>5 DEF Tasks!Next
  <2> QED  BY <2>1, <2>2
<1>2. CASE PosterNotifies
  BY <1>2 DEF PosterNotifies, NotifyOne
<1>3. ASSUME NEW w \in workers, Worker(w)
      PROVE  Tasks!Next \/ UNCHANGED <<taken, done, stopper = "returned">>
  <2>1. CASE WorkerLoop(w)
    BY <1>3, <2>1 DEF Worker, WorkerLoop
  <2>2. CASE RunTask(w)
    <3>1. task[w] \in taken \ done
      BY <2>2 DEF RunTask, OnePlace
    <3>2. task[w] \in 1 .. MaxTasks
      <4>1. task[w] \in 1 .. posted /\ posted \in Nat /\ posted <= MaxTasks
        BY <3>1 DEF StopTypes
      <4> QED  BY <4>1, WorkerConstants
    <3>3. Tasks!Do(task[w])
      BY <1>3, <2>2, <3>1 DEF Tasks!Do, RunTask, Worker
    <3> QED  BY <3>2, <3>3 DEF Tasks!Next
  <2> QED  BY <1>3, <2>1, <2>2 DEF Worker
<1>4. ASSUME NEW w \in workers, Spurious(w)
      PROVE  UNCHANGED <<taken, done, stopper = "returned">>
  BY <1>4 DEF Spurious, SpuriousWakeup
<1>5. CASE Stop
  <2>1. UNCHANGED <<taken, done>>
    BY <1>5 DEF Stop, ExportScene, UpsertScene, StopWorker, WakeWorkers, JoinWorkers, StopLoop,
                SetStop, NotifyAll, queueVars
  <2>2. CASE JoinWorkers
    <3>1. stopper # "returned" /\ stopper' = "returned"
      BY <2>2 DEF JoinWorkers
    <3>2. done = taken
      BY <2>2, AllDone DEF JoinWorkers
    <3>3. Tasks!Close
      BY <2>1, <3>1, <3>2 DEF Tasks!Close
    <3> QED  BY <3>3 DEF Tasks!Next
  <2>3. CASE ~JoinWorkers
    BY <1>5, <2>1, <2>3 DEF Stop, ExportScene, UpsertScene, StopWorker, WakeWorkers, StopLoop
  <2> QED  BY <2>2, <2>3
<1>6. CASE UNCHANGED vars
  BY <1>6 DEF vars
<1> QED  BY <1>1, <1>2, <1>3, <1>4, <1>5, <1>6 DEF Next

\* DbWorker and ThreadPool implement TaskQueue: with any number of workers, a task
\* that Post took is done once, and when Stop returns all that were taken are done
\* and no other will be.
THEOREM ImplementsTaskQueue == Spec => TasksSpec
<1>1. StopInit => Tasks!Init
  BY DEF StopInit, Init, Tasks!Init
<1>2. SavedInv /\ [Next]_vars => [Tasks!Next]_<<taken, done, stopper = "returned">>
  BY TasksStep
<1> QED  BY <1>1, <1>2, SavedAlways, PTL DEF Spec, TasksSpec, Tasks!Spec
=============================================================================
