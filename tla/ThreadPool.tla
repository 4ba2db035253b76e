----------------------------- MODULE ThreadPool -----------------------------
(***************************************************************************)
(* AdvancedThreadPool (libSdk/thread): a deque of tasks under one mutex,   *)
(* workers that wait on one condition variable, a pool that grows up to    *)
(* max_threads, and a destructor that stops and joins the workers.         *)
(*                                                                         *)
(* What a thread does while it holds queue_mutex is one step, except that  *)
(* a worker that found nothing to do keeps the mutex until it blocks:      *)
(* stop is an atomic that the destructor sets without the mutex, so it can *)
(* come in between.  Tasks are numbered in the order they are accepted.    *)
(***************************************************************************)
EXTENDS Integers, FiniteSets, SequencesExt

CONSTANTS
    Clients,      \* threads outside the pool that submit tasks
    init_threads,
    max_threads,
    Priorities,   \* the priorities in use, of "High", "Normal" and "Low"
    Nested,       \* tasks may submit tasks
    NumTasks,     \* bound: tasks accepted in all
    NumSpurious   \* bound: spurious wakeups in all

ASSUME ThreadPoolAssumption ==
    /\ init_threads \in Nat /\ max_threads \in Nat
    /\ Priorities \subseteq {"High", "Normal", "Low"}
    /\ Nested \in BOOLEAN
    /\ NumTasks \in Nat /\ NumSpurious \in Nat
    /\ Clients \intersect (1 .. max_threads) = {}

VARIABLES
    stop,
    phase,        \* how far the destructor is
    pc,           \* what each worker is doing
    mutex,        \* the worker that holds queue_mutex between two steps, or 0
    workers,      \* size of the vector of threads
    idle_threads,
    tasks,        \* the deque: number and priority of each task
    running,      \* the task each worker runs, or 0
    finished,     \* the tasks that have run
    cancelled,    \* the tasks that cancel_pending dropped
    accepted,     \* how many tasks were put into the deque
    call,         \* how far each enqueue in progress is
    raced,        \* history: stop was set while a worker was about to block
    spurious      \* spurious wakeups so far

vars == <<stop, phase, pc, mutex, workers, idle_threads, tasks, running,
          finished, cancelled, accepted, call, raced, spurious>>

Workers == 1 .. max_threads
Submitters == Clients \union (IF Nested THEN Workers ELSE {})

At(places) == {w \in Workers : pc[w] \in places}

TypeOK ==
    /\ stop \in BOOLEAN
    /\ phase \in {"up", "stopping", "joining", "done", "undefined"}
    /\ pc \in [Workers -> {"none", "loop", "block", "wait", "woken", "run", "gone"}]
    /\ mutex \in {0} \union Workers
    /\ workers \in 0 .. max_threads
    /\ idle_threads \in 0 .. max_threads
    /\ tasks \in Seq([id : 1 .. NumTasks, priority : Priorities])
    /\ running \in [Workers -> 0 .. NumTasks]
    /\ finished \subseteq 1 .. NumTasks
    /\ cancelled \subseteq 1 .. NumTasks
    /\ accepted \in 0 .. NumTasks
    /\ call \in [Submitters -> {"none", "insert", "notify"}]
    /\ raced \in BOOLEAN
    /\ spurious \in 0 .. NumSpurious

(* The constructor.  Its second correction, line 15, assigns to the        *)
(* parameter: the member max_threads keeps the value it was given.         *)
Least(a, b) == IF a < b THEN a ELSE b
Started == Least(IF init_threads < 1 THEN 1 ELSE init_threads, max_threads)

Init ==
    /\ stop = FALSE
    /\ phase = "up"
    /\ workers = Started
    /\ pc = [w \in Workers |-> IF w <= Started THEN "loop" ELSE "none"]
    /\ mutex = 0
    /\ idle_threads = 0
    /\ tasks = <<>>
    /\ running = [w \in Workers |-> 0]
    /\ finished = {}
    /\ cancelled = {}
    /\ accepted = 0
    /\ call = [s \in Submitters |-> "none"]
    /\ raced = FALSE
    /\ spurious = 0

-----------------------------------------------------------------------------
(* enqueue: a thread that may call the pool finds stop not set.            *)
MayCall(s) ==
    /\ s \in Clients => phase = "up"
    /\ s \in Workers => pc[s] = "run"

Enqueue(s) ==
    /\ MayCall(s)
    /\ call[s] = "none"
    /\ accepted + Cardinality({r \in Submitters : call[r] = "insert"}) < NumTasks
    /\ ~ stop
    /\ call' = [call EXCEPT ![s] = "insert"]
    /\ UNCHANGED <<stop, phase, pc, mutex, workers, idle_threads, tasks, running,
                   finished, cancelled, accepted, raced, spurious>>

(* Where a task of the given priority goes.                                *)
Position(priority) ==
    CASE priority = "High"   -> 1
      [] priority = "Low"    -> Len(tasks) + 1
      [] priority = "Normal" -> (Len(tasks) \div 2) + 1

(* The pool grows: fewer idle workers than the n tasks in the deque.       *)
GrowsLate(n) == idle_threads + 1 < n /\ workers < max_threads   \* mutant: off by one
Grows(n) == idle_threads < n /\ workers < max_threads

(* ... the task goes into the deque under the mutex, and the pool may get  *)
(* a worker.  The vector of threads must not change under the loop of the  *)
(* destructor that joins them: what happens then is undefined.             *)
Insert(s) ==
    /\ call[s] = "insert"
    /\ mutex = 0
    /\ \E priority \in Priorities :
           tasks' = InsertAt(tasks, Position(priority),
                             [id |-> accepted + 1, priority |-> priority])
    /\ accepted' = accepted + 1
    /\ IF Grows(Len(tasks) + 1)
       THEN /\ workers' = workers + 1
            /\ pc' = [pc EXCEPT ![workers + 1] = "loop"]
            /\ phase' = IF phase = "up" THEN phase ELSE "undefined"
       ELSE UNCHANGED <<workers, pc, phase>>
    /\ call' = [call EXCEPT ![s] = "notify"]
    /\ UNCHANGED <<stop, mutex, idle_threads, running, finished, cancelled, raced, spurious>>

(* The effect of notify_one and notify_all on the waiting workers.         *)
NotifyNobody == UNCHANGED pc   \* mutant: the call is missing
NotifyOne ==
    IF At({"wait"}) = {} THEN UNCHANGED pc
    ELSE \E w \in At({"wait"}) : pc' = [pc EXCEPT ![w] = "woken"]

NotifyFirst == NotifyOne   \* mutant: notify_one where all must wake
NotifyAll == pc' = [w \in Workers |-> IF pc[w] = "wait" THEN "woken" ELSE pc[w]]

(* ... and one worker is notified.                                         *)
Notify(s) ==
    /\ call[s] = "notify"
    /\ NotifyOne
    /\ call' = [call EXCEPT ![s] = "none"]
    /\ UNCHANGED <<stop, phase, mutex, workers, idle_threads, tasks, running,
                   finished, cancelled, accepted, raced, spurious>>

CancelPending(s) ==
    /\ MayCall(s)
    /\ call[s] = "none"
    /\ mutex = 0
    /\ tasks # <<>>
    /\ cancelled' = cancelled \union {t.id : t \in Range(tasks)}
    /\ tasks' = <<>>
    /\ UNCHANGED <<stop, phase, pc, mutex, workers, idle_threads, running,
                   finished, accepted, call, raced, spurious>>

-----------------------------------------------------------------------------
(* What a worker with the mutex sees: the deque holds a task for it, which *)
(* it takes even when stop is set.                                         *)
TakesUnlessStopped == tasks # <<>> /\ ~ stop   \* mutant: the deque is not drained
Takes == tasks # <<>>

(* A worker has the mutex, idle of them being idle without it: it takes    *)
(* the first task, or leaves, or goes on to block.  The code reads stop    *)
(* twice; the second reading only matters if the first saw it set.         *)
Decide(w, idle) ==
    \/ /\ Takes
       /\ tasks' = Tail(tasks)
       /\ running' = [running EXCEPT ![w] = Head(tasks).id]
       /\ pc' = [pc EXCEPT ![w] = "run"]
       /\ idle_threads' = idle
       /\ mutex' = mutex
    \/ /\ ~ Takes
       /\ pc' = [pc EXCEPT ![w] = IF stop THEN "gone" ELSE "block"]
       /\ idle_threads' = IF stop THEN idle ELSE idle + 1
       /\ mutex' = IF stop THEN mutex ELSE w
       /\ UNCHANGED <<tasks, running>>

(* The top of the worker's loop.                                           *)
Look(w) ==
    /\ pc[w] = "loop"
    /\ mutex = 0
    /\ Decide(w, idle_threads)
    /\ UNCHANGED <<stop, phase, workers, finished, cancelled, accepted, call, raced, spurious>>

(* The worker blocks in condition.wait, which releases the mutex.          *)
Block(w) ==
    /\ pc[w] = "block"
    /\ pc' = [pc EXCEPT ![w] = "wait"]
    /\ mutex' = 0
    /\ UNCHANGED <<stop, phase, workers, idle_threads, tasks, running,
                   finished, cancelled, accepted, call, raced, spurious>>

SpuriousWakeup(w) ==
    /\ pc[w] = "wait"
    /\ spurious < NumSpurious
    /\ spurious' = spurious + 1
    /\ pc' = [pc EXCEPT ![w] = "woken"]
    /\ UNCHANGED <<stop, phase, mutex, workers, idle_threads, tasks, running,
                   finished, cancelled, accepted, call, raced>>

(* A notified worker has the mutex again and evaluates the predicate.  It  *)
(* was idle until now.                                                     *)
OthersIdle == idle_threads - 1

Wake(w) ==
    /\ pc[w] = "woken"
    /\ mutex = 0
    /\ Decide(w, OthersIdle)
    /\ UNCHANGED <<stop, phase, workers, finished, cancelled, accepted, call, raced, spurious>>

(* The task returns.                                                       *)
Finish(w) ==
    /\ pc[w] = "run"
    /\ w \in Submitters => call[w] = "none"
    /\ finished' = finished \union {running[w]}
    /\ running' = [running EXCEPT ![w] = 0]
    /\ pc' = [pc EXCEPT ![w] = "loop"]
    /\ UNCHANGED <<stop, phase, mutex, workers, idle_threads, tasks,
                   cancelled, accepted, call, raced, spurious>>

-----------------------------------------------------------------------------
(* The destructor, when no client is inside a call any more: stop is set   *)
(* without the mutex, every waiting worker is notified, all are joined.    *)
Stop ==
    /\ phase = "up"
    /\ \A s \in Clients : call[s] = "none"
    /\ stop' = TRUE
    /\ phase' = "stopping"
    /\ raced' = (At({"block"}) # {})
    /\ UNCHANGED <<pc, mutex, workers, idle_threads, tasks, running,
                   finished, cancelled, accepted, call, spurious>>

NotifyStop ==
    /\ phase = "stopping"
    /\ NotifyAll
    /\ phase' = "joining"
    /\ UNCHANGED <<stop, mutex, workers, idle_threads, tasks, running,
                   finished, cancelled, accepted, call, raced, spurious>>

Joined ==
    /\ phase = "joining"
    /\ At({"gone", "none"}) = Workers
    /\ phase' = "done"
    /\ UNCHANGED <<stop, pc, mutex, workers, idle_threads, tasks, running,
                   finished, cancelled, accepted, call, raced, spurious>>

WorkerStep(w) == Look(w) \/ Block(w) \/ Wake(w) \/ Finish(w)
CallStep(s) == Insert(s) \/ Notify(s)
DestructorStep == NotifyStop \/ Joined

Next ==
    /\ phase # "undefined"
    /\ \/ \E s \in Submitters : Enqueue(s) \/ CallStep(s) \/ CancelPending(s)
       \/ \E w \in Workers : WorkerStep(w) \/ SpuriousWakeup(w)
       \/ Stop \/ DestructorStep

Spec == Init /\ [][Next]_vars

(* Threads keep running and tasks return.  Nobody has to submit, cancel or *)
(* destroy, and spurious wakeups need not come.                            *)
FairSpec ==
    /\ Spec
    /\ \A w \in Workers : WF_vars(phase # "undefined" /\ WorkerStep(w))
    /\ \A s \in Submitters : WF_vars(phase # "undefined" /\ CallStep(s))
    /\ WF_vars(DestructorStep)

-----------------------------------------------------------------------------
Queued == {t.id : t \in Range(tasks)}
Running == {running[w] : w \in At({"run"})}

InOnePlace ==
    /\ Len(tasks) + Cardinality(At({"run"})) + Cardinality(finished)
         + Cardinality(cancelled) = accepted
    /\ Queued \union Running \union finished \union cancelled = 1 .. accepted

DrainedAtEnd ==
    phase = "done" => tasks = <<>> /\ finished \union cancelled = 1 .. accepted

(* A task that enqueue accepted is in exactly one place: in the deque, with*)
(* one worker, run, or cancelled.  None is lost and none runs twice; and   *)
(* the destructor drains: when it is done, no accepted task is left.       *)
TasksConserved == InOnePlace /\ DrainedAtEnd

(* idle_threads counts the workers inside the wait.  It is an atomic that  *)
(* only changes under the mutex; enqueue decides on it whether to grow.    *)
IdleCounted == idle_threads = Cardinality(At({"block", "wait", "woken"}))

(* A queued task has a worker to itself that is idle or about to look at   *)
(* the deque, unless the pool has all the threads it may have.             *)
EnoughWorkers ==
    /\ IdleCounted
    /\ Len(tasks) <= Cardinality(At({"loop", "block", "wait", "woken"}))
         \/ workers = max_threads

(* An accepted task is run or cancelled, even if the pool is destroyed, or *)
(* the vector of threads changes while the destructor walks it.            *)
TasksEnd ==
    \A k \in 1 .. NumTasks :
        accepted >= k ~> k \in finished \union cancelled \/ phase = "undefined"

(* The destructor returns ...                                              *)
DestructorReturns == phase = "stopping" ~> phase = "done"

(* ... if no worker was between its look at stop and its wait when stop    *)
(* was set, and no task of the pool makes it grow.                         *)
DestructorReturnsUnlessRaced ==
    (phase = "stopping" /\ ~ raced) ~> phase \in {"done", "undefined"}

(* enqueue refuses tasks once the pool is stopped ("enqueue on stopped     *)
(* ThreadPool").                                                           *)
NoneAcceptedAfterStop == [][stop => accepted' = accepted]_vars
==============================================================================
