--------------------------- MODULE ThreadPoolProof ---------------------------
(***************************************************************************)
(* The thread pool loses no task, runs none twice and grows in time, for   *)
(* any clients, sizes of the pool and numbers of tasks.  The proof follows *)
(* the sets of workers in each place, and the numbers of the tasks in the  *)
(* deque, through each step.                                               *)
(***************************************************************************)
EXTENDS ThreadPool, FiniteSetTheorems, SequenceTheorems, TLAPS

Places == {"none", "loop", "block", "wait", "woken", "run", "gone"}
Tasks == [id : Nat, priority : Priorities]

Ready == {"loop", "block", "wait", "woken"}
Idle == {"block", "wait", "woken"}
Busy == {"run"}

Typed ==
    /\ stop \in BOOLEAN
    /\ pc \in [Workers -> Places]
    /\ workers \in 0 .. max_threads
    /\ tasks \in Seq(Tasks)
    /\ running \in [Workers -> Nat]
    /\ accepted \in Nat
    /\ call \in [Submitters -> {"none", "insert", "notify"}]

(* The places of the vector that hold no thread yet are the last ones.     *)
Started_ == \A w \in Workers : pc[w] = "none" <=> w > workers

(* No task has two numbers of the deque, two workers, or two ends.         *)
Ids(s) == {s[i].id : i \in DOMAIN s}
Distinct(s) == \A i, j \in DOMAIN s : i # j => s[i].id # s[j].id

Apart ==
    /\ Distinct(tasks)
    /\ \A w, v \in At(Busy) : w # v => running[w] # running[v]
    /\ \A w \in At(Busy) : running[w] \notin Ids(tasks) \cup finished \cup cancelled
    /\ Ids(tasks) \cap (finished \cup cancelled) = {}

IInv ==
    /\ Typed /\ Started_ /\ EnoughWorkers
    /\ IsFiniteSet(finished) /\ IsFiniteSet(cancelled)
    /\ InOnePlace /\ Apart

-----------------------------------------------------------------------------
(* Sequences of tasks.                                                     *)
LEMMA QueuedIds == Queued = Ids(tasks) /\ Queued' = Ids(tasks')
  BY DEF Queued, Ids, Range

(* A task put in anywhere.                                                 *)
LEMMA Inserted ==
    ASSUME NEW s \in Seq(Tasks), NEW i \in 1 .. Len(s) + 1, NEW e \in Tasks
    PROVE  /\ InsertAt(s, i, e) \in Seq(Tasks)
           /\ Len(InsertAt(s, i, e)) = Len(s) + 1
           /\ Ids(InsertAt(s, i, e)) = Ids(s) \cup {e.id}
           /\ Distinct(s) /\ e.id \notin Ids(s) => Distinct(InsertAt(s, i, e))
  <1> DEFINE new == InsertAt(s, i, e)
             Old(j) == IF j < i THEN j ELSE j - 1
  <1> DEFINE left == SubSeq(s, 1, i - 1)
             right == SubSeq(s, i, Len(s))
             mid == left \o <<e>>
  <1>a. left \in Seq(Tasks) /\ Len(left) = i - 1 /\ \A j \in 1 .. i - 1 : left[j] = s[j]
    OBVIOUS
  <1>b. /\ right \in Seq(Tasks) /\ Len(right) = Len(s) - i + 1
        /\ \A j \in 1 .. Len(s) - i + 1 : right[j] = s[j + i - 1]
    OBVIOUS
  <1>c. /\ mid \in Seq(Tasks) /\ Len(mid) = i
        /\ \A j \in 1 .. i : mid[j] = IF j = i THEN e ELSE s[j]
    <2> HIDE DEF left
    <2> QED BY <1>a
  <1>d. new = mid \o right
    BY DEF InsertAt
  <1> HIDE DEF left, right, new, mid
  <1>1. new \in Seq(Tasks) /\ Len(new) = Len(s) + 1
    <2>1. new \in Seq(Tasks) /\ Len(new) = Len(mid) + Len(right)
      BY <1>b, <1>c, <1>d, ConcatProperties
    <2> QED
      BY <2>1, <1>b, <1>c
  <1>2. \A j \in 1 .. Len(s) + 1 : new[j] = IF j = i THEN e ELSE s[Old(j)]
    <2> TAKE j \in 1 .. Len(s) + 1
    <2>1. CASE j <= i
      <3>1. new[j] = mid[j]
        BY <2>1, <1>b, <1>c, <1>d
      <3> QED
        BY <3>1, <2>1, <1>c
    <2>2. CASE ~ (j <= i)
      <3>1. new[j] = right[j - i] /\ j - i \in 1 .. Len(s) - i + 1
        BY <2>2, <1>b, <1>c, <1>d
      <3>2. right[j - i] = s[(j - i) + i - 1] /\ (j - i) + i - 1 = j - 1
        BY <3>1, <1>b
      <3> QED
        BY <3>1, <3>2, <2>2
    <2> QED
      BY <2>1, <2>2
  <1>3. \A j \in 1 .. Len(s) + 1 : j # i => Old(j) \in 1 .. Len(s)
    OBVIOUS
  <1>4. \A j \in 1 .. Len(s) : \E k \in 1 .. Len(s) + 1 : k # i /\ Old(k) = j
    <2> TAKE j \in 1 .. Len(s)
    <2>1. CASE j < i
      <3> WITNESS j \in 1 .. Len(s) + 1
      <3> QED BY <2>1
    <2>2. CASE ~ (j < i)
      <3> WITNESS j + 1 \in 1 .. Len(s) + 1
      <3> QED BY <2>2
    <2> QED BY <2>1, <2>2
  <1>5. DOMAIN s = 1 .. Len(s) /\ DOMAIN new = 1 .. Len(s) + 1
    BY <1>1
  <1> HIDE DEF new, Old
  <1>6. Ids(new) = Ids(s) \cup {e.id}
    <2>1. ASSUME NEW n \in Ids(new) PROVE n \in Ids(s) \cup {e.id}
      BY <2>1, <1>2, <1>3, <1>5 DEF Ids
    <2>2. ASSUME NEW n \in Ids(s) PROVE n \in Ids(new)
      <3>1. PICK j \in 1 .. Len(s) : n = s[j].id
        BY <1>5 DEF Ids
      <3>2. PICK k \in 1 .. Len(s) + 1 : k # i /\ Old(k) = j
        BY <1>4
      <3> QED
        BY <3>1, <3>2, <1>2, <1>5 DEF Ids
    <2>3. e.id \in Ids(new)
      BY <1>2, <1>5 DEF Ids
    <2> QED
      BY <2>1, <2>2, <2>3
  <1>7. ASSUME Distinct(s), e.id \notin Ids(s) PROVE Distinct(new)
    <2> SUFFICES ASSUME NEW j \in 1 .. Len(s) + 1, NEW k \in 1 .. Len(s) + 1, j # k
                 PROVE  new[j].id # new[k].id
      BY <1>5 DEF Distinct
    <2>1. j # i /\ k # i => Old(j) # Old(k)
      BY DEF Old
    <2> QED
      BY <2>1, <1>2, <1>3, <1>5, <1>7 DEF Distinct, Ids
  <1> QED
    BY <1>1, <1>6, <1>7 DEF new

(* The first task taken out.                                               *)
LEMMA Removed ==
    ASSUME NEW s \in Seq(Tasks), s # <<>>
    PROVE  /\ Tail(s) \in Seq(Tasks) /\ Len(Tail(s)) = Len(s) - 1
           /\ Head(s) \in Tasks
           /\ Ids(s) = Ids(Tail(s)) \cup {Head(s).id}
           /\ Distinct(s) => Distinct(Tail(s)) /\ Head(s).id \notin Ids(Tail(s))
  <1> DEFINE new == Tail(s)
  <1>1. new \in Seq(Tasks) /\ Len(new) = Len(s) - 1 /\ Head(s) = s[1] /\ Head(s) \in Tasks
    OBVIOUS
  <1>2. \A j \in 1 .. Len(s) - 1 : new[j] = s[j + 1]
    OBVIOUS
  <1>3. DOMAIN s = 1 .. Len(s) /\ DOMAIN new = 1 .. Len(s) - 1 /\ Len(s) \in Nat /\ Len(s) > 0
    BY <1>1
  <1> HIDE DEF new
  <1>4. Ids(s) = Ids(new) \cup {Head(s).id}
    <2>1. ASSUME NEW n \in Ids(s) PROVE n \in Ids(new) \cup {s[1].id}
      <3>1. PICK j \in 1 .. Len(s) : n = s[j].id
        BY <1>3 DEF Ids
      <3>2. CASE j = 1
        BY <3>1, <3>2
      <3>3. CASE j # 1
        <4>1. j - 1 \in 1 .. Len(s) - 1 /\ new[j - 1] = s[j]
          BY <3>3, <1>2, <1>3
        <4> QED
          BY <4>1, <3>1, <1>3 DEF Ids
      <3> QED
        BY <3>2, <3>3
    <2>2. ASSUME NEW n \in Ids(new) PROVE n \in Ids(s)
      <3>1. PICK j \in 1 .. Len(s) - 1 : n = new[j].id
        BY <1>3 DEF Ids
      <3>2. j + 1 \in DOMAIN s /\ n = s[j + 1].id
        BY <3>1, <1>2, <1>3
      <3> QED
        BY <3>2 DEF Ids
    <2>3. s[1].id \in Ids(s)
      BY <1>3 DEF Ids
    <2> QED
      BY <2>1, <2>2, <2>3, <1>1
  <1>5. ASSUME Distinct(s) PROVE Distinct(new) /\ s[1].id \notin Ids(new)
    <2>1. Distinct(new)
      <3> SUFFICES ASSUME NEW j \in 1 .. Len(s) - 1, NEW k \in 1 .. Len(s) - 1, j # k
                   PROVE  new[j].id # new[k].id
        BY <1>3 DEF Distinct
      <3>1. j + 1 \in DOMAIN s /\ k + 1 \in DOMAIN s /\ j + 1 # k + 1
        BY <1>3
      <3> QED
        BY <3>1, <1>2, <1>5 DEF Distinct
    <2>2. ASSUME NEW j \in 1 .. Len(s) - 1 PROVE new[j].id # s[1].id
      <3>1. j + 1 \in DOMAIN s /\ 1 \in DOMAIN s /\ j + 1 # 1
        BY <1>3
      <3> QED
        BY <3>1, <1>2, <1>5 DEF Distinct
    <2> QED
      BY <2>1, <2>2, <1>3 DEF Ids
  <1> QED
    BY <1>1, <1>4, <1>5 DEF new

(* There are as many numbers as tasks.                                     *)
LEMMA CountIds ==
    ASSUME NEW s \in Seq(Tasks), Distinct(s)
    PROVE  IsFiniteSet(Ids(s)) /\ Cardinality(Ids(s)) = Len(s)
  <1> DEFINE f == [i \in 1 .. Len(s) |-> s[i].id]
  <1>1. Len(s) \in Nat /\ DOMAIN s = 1 .. Len(s)
    OBVIOUS
  <1>2. f \in Bijection(1 .. Len(s), Ids(s))
    BY <1>1 DEF Bijection, Injection, Surjection, Ids, Distinct, IsInjective
  <1>3. ExistsBijection(1 .. Len(s), Ids(s))
    BY <1>2 DEF ExistsBijection
  <1>4. IsFiniteSet(1 .. Len(s)) /\ Cardinality(1 .. Len(s)) = Len(s)
    BY <1>1, FS_Interval
  <1> QED
    BY <1>3, <1>4, FS_Bijection

-----------------------------------------------------------------------------
(* Sets of workers.                                                        *)
LEMMA AtFinite ==
    ASSUME NEW places
    PROVE  /\ IsFiniteSet(At(places)) /\ Cardinality(At(places)) \in Nat
           /\ IsFiniteSet(At(places)') /\ Cardinality(At(places)') \in Nat
  <1>1. IsFiniteSet(Workers)
    BY ThreadPoolAssumption, FS_Interval DEF Workers
  <1>2. At(places) \subseteq Workers /\ At(places)' \subseteq Workers
    BY DEF At
  <1> QED
    BY <1>1, <1>2, FS_Subset, FS_CardinalityType

(* One worker goes from one place to another.                              *)
LEMMA Moves ==
    ASSUME pc \in [Workers -> Places], NEW w \in Workers, NEW to,
           pc' = [pc EXCEPT ![w] = to], NEW places
    PROVE  /\ At(places)' = IF to \in places THEN At(places) \cup {w} ELSE At(places) \ {w}
           /\ Cardinality(At(places)') =
                Cardinality(At(places)) + (IF to \in places THEN 1 ELSE 0)
                                        - (IF pc[w] \in places THEN 1 ELSE 0)
  <1>1. At(places)' = IF to \in places THEN At(places) \cup {w} ELSE At(places) \ {w}
    BY DEF At
  <1>2. w \in At(places) <=> pc[w] \in places
    BY DEF At
  <1> DEFINE n == Cardinality(At(places))
  <1>3. n \in Nat /\ IsFiniteSet(At(places))
    BY AtFinite
  <1>4. Cardinality(At(places) \cup {w}) = IF pc[w] \in places THEN n ELSE n + 1
    BY <1>2, <1>3, FS_AddElement
  <1>5. Cardinality(At(places) \ {w}) = IF pc[w] \in places THEN n - 1 ELSE n
    BY <1>2, <1>3, FS_RemoveElement
  <1>6. Cardinality(At(places)') =
          IF to \in places THEN Cardinality(At(places) \cup {w}) ELSE Cardinality(At(places) \ {w})
    BY <1>1
  <1> HIDE DEF n
  <1>7. Cardinality(At(places)') = n + (IF to \in places THEN 1 ELSE 0)
                                     - (IF pc[w] \in places THEN 1 ELSE 0)
    BY <1>3, <1>4, <1>5, <1>6
  <1> QED
    BY <1>1, <1>7 DEF n

(* Workers that block, and notifications and wake-ups that nobody sent.    *)
Settles ==
    /\ pc' \in [Workers -> Places]
    /\ \A w \in Workers :
          pc'[w] = pc[w] \/ (pc[w] \in {"block", "wait"} /\ pc'[w] \in {"wait", "woken"})

(* One worker moves to a place, as the invariant counts it.                *)
Shifts(places, w, to) ==
    Cardinality(At(places)') = Cardinality(At(places))
        + (IF to \in places THEN 1 ELSE 0) - (IF pc[w] \in places THEN 1 ELSE 0)
Moving(w, to) ==
    /\ Shifts(Ready, w, to) /\ Shifts(Idle, w, to) /\ Shifts(Busy, w, to)
    /\ At(Busy)' = IF to \in Busy THEN At(Busy) \cup {w} ELSE At(Busy) \ {w}

LEMMA Moved ==
    ASSUME pc \in [Workers -> Places], NEW w \in Workers, NEW to, pc' = [pc EXCEPT ![w] = to]
    PROVE  Moving(w, to)
  <1>1. Shifts(Ready, w, to) /\ Shifts(Idle, w, to) /\ Shifts(Busy, w, to)
    BY Moves DEF Shifts
  <1>2. At(Busy)' = IF to \in Busy THEN At(Busy) \cup {w} ELSE At(Busy) \ {w}
    BY Moves
  <1> QED
    BY <1>1, <1>2 DEF Moving

LEMMA Settled ==
    ASSUME pc \in [Workers -> Places], Settles
    PROVE  At(Ready)' = At(Ready) /\ At(Idle)' = At(Idle) /\ At(Busy)' = At(Busy)
  BY DEF Settles, At, Ready, Idle, Busy

-----------------------------------------------------------------------------
(* The two halves of the invariant where nothing of theirs changes.        *)
LEMMA TasksKept ==
    ASSUME IInv, At(Busy)' = At(Busy),
           UNCHANGED <<tasks, running, finished, cancelled, accepted>>
    PROVE  IsFiniteSet(finished)' /\ IsFiniteSet(cancelled)' /\ InOnePlace' /\ Apart'
  BY DEF IInv, InOnePlace, Apart, Queued, Running, Busy

LEMMA StepSettles ==
    ASSUME IInv, Typed', Settles,
           UNCHANGED <<workers, idle_threads, tasks, running, finished, cancelled, accepted>>
    PROVE  IInv'
  <1>1. At(Ready)' = At(Ready) /\ At(Idle)' = At(Idle) /\ At(Busy)' = At(Busy)
    BY Settled DEF IInv, Typed
  <1>2. Started_'
    BY DEF IInv, Started_, Settles
  <1>3. EnoughWorkers'
    BY <1>1 DEF IInv, EnoughWorkers, IdleCounted, Ready, Idle
  <1> QED
    BY <1>1, <1>2, <1>3, TasksKept DEF IInv

(* The constructor.                                                        *)
LEMMA InitIInv == Init => IInv
  <1> SUFFICES ASSUME Init PROVE IInv
    OBVIOUS
  <1>1. Started \in 0 .. max_threads
    BY ThreadPoolAssumption DEF Started, Least
  <1>2. Typed
    <2>1. tasks \in Seq(Tasks)
      BY DEF Init
    <2> QED
      BY <1>1, <2>1 DEF Init, Typed, Places
  <1>3. Started_
    BY <1>1 DEF Init, Started_, Workers
  <1>4. At(Idle) = {} /\ At(Busy) = {}
    BY DEF Init, At, Idle, Busy
  <1>5. EnoughWorkers
    <2>1. idle_threads = Cardinality(At(Idle))
      <3>1. idle_threads = 0
        BY DEF Init
      <3> QED
        BY <1>4, <3>1, FS_EmptySet
    <2>2. Cardinality(At(Ready)) \in Nat /\ Len(tasks) = 0
      BY AtFinite DEF Init
    <2> QED
      BY <2>1, <2>2 DEF EnoughWorkers, IdleCounted, Ready, Idle
  <1>6. InOnePlace
    <2>1. Queued = {} /\ Running = {} /\ 1 .. accepted = {}
      BY <1>4 DEF Init, Queued, Running, Range, Busy
    <2>2. /\ tasks = <<>> /\ accepted = 0 /\ Cardinality(finished) = 0
          /\ Cardinality(cancelled) = 0 /\ Cardinality(At(Busy)) = 0
          /\ finished = {} /\ cancelled = {}
      <3>1. tasks = <<>> /\ accepted = 0 /\ finished = {} /\ cancelled = {}
        BY DEF Init
      <3> QED
        BY <1>4, <3>1, FS_EmptySet
    <2> QED
      BY <2>1, <2>2 DEF InOnePlace, Busy
  <1>7. Apart
    BY <1>4 DEF Init, Apart, Distinct, Ids
  <1> QED
    BY <1>2, <1>3, <1>5, <1>6, <1>7, FS_EmptySet DEF Init, IInv

-----------------------------------------------------------------------------
(* A worker with the mutex takes a task, leaves, or is about to block.     *)
LEMMA StepDecide ==
    ASSUME IInv, Typed', NEW w \in Workers, pc[w] \in {"loop", "woken"}, NEW idle,
           idle = idle_threads - (IF pc[w] \in Idle THEN 1 ELSE 0),
           Decide(w, idle), UNCHANGED <<workers, finished, cancelled, accepted>>
    PROVE  IInv'
  <1> DEFINE n == Cardinality(At(Ready))
             m == Cardinality(At(Busy))
  <1>1. n \in Nat /\ m \in Nat /\ Cardinality(At(Idle)) \in Nat
    BY AtFinite
  <1>2. /\ pc \in [Workers -> Places] /\ tasks \in Seq(Tasks) /\ running \in [Workers -> Nat]
        /\ idle_threads = Cardinality(At(Idle))
        /\ Len(tasks) <= n \/ workers = max_threads
    BY DEF IInv, Typed, EnoughWorkers, IdleCounted, Ready, Idle
  <1>3. w \notin At(Busy)
    BY DEF At, Busy
  <1>4. CASE tasks # <<>>
    <2>1. /\ tasks' = Tail(tasks) /\ pc' = [pc EXCEPT ![w] = "run"]
          /\ running' = [running EXCEPT ![w] = Head(tasks).id] /\ idle_threads' = idle
      BY <1>4 DEF Decide, Takes
    <2>2. /\ Cardinality(At(Ready)') = n - 1
          /\ Cardinality(At(Idle)') = idle
          /\ Cardinality(At(Busy)') = m + 1
          /\ At(Busy)' = At(Busy) \cup {w}
      <3>1. /\ "run" \notin Ready /\ "run" \notin Idle /\ "run" \in Busy
            /\ pc[w] \in Ready /\ pc[w] \notin Busy
        BY DEF Ready, Idle, Busy
      <3>2. Moving(w, "run")
        BY <2>1, <1>2, Moved
      <3> QED
        BY <3>1, <3>2, <1>1, <1>2 DEF Moving, Shifts
    <2>3. /\ Len(tasks') = Len(tasks) - 1 /\ Ids(tasks) = Ids(tasks') \cup {Head(tasks).id}
          /\ Distinct(tasks') /\ Head(tasks).id \notin Ids(tasks') /\ Len(tasks) \in Nat
      BY <2>1, <1>2, <1>4, Removed DEF IInv, Apart
    <2>4. EnoughWorkers'
      BY <2>1, <2>2, <2>3, <1>1, <1>2 DEF EnoughWorkers, IdleCounted, Ready, Idle
    <2>5. Started_'
      BY <2>1, <1>2 DEF IInv, Started_
    <2>6. Running' = Running \cup {Head(tasks).id}
      BY <2>1, <2>2, <1>2, <1>3 DEF Running, Busy
    <2>7. InOnePlace'
      <3>1. Queued \cup Running = Queued' \cup Running'
        BY <2>3, <2>6, QueuedIds
      <3>2. Len(tasks') + Cardinality(At(Busy)') = Len(tasks) + m
        BY <2>2, <2>3, <1>1
      <3> QED
        BY <3>1, <3>2 DEF IInv, InOnePlace, Busy
    <2>8. Apart'
      <3>1. \A v \in At(Busy)' : running'[v] = IF v = w THEN Head(tasks).id ELSE running[v]
        BY <2>1, <2>2, <1>2, <1>3 DEF At
      <3> QED
        BY <3>1, <2>2, <2>3 DEF IInv, Apart
    <2> QED
      BY <2>4, <2>5, <2>7, <2>8 DEF IInv
  <1>5. CASE tasks = <<>>
    <2>1. /\ UNCHANGED <<tasks, running>>
          /\ \/ pc' = [pc EXCEPT ![w] = "gone"] /\ idle_threads' = idle
             \/ pc' = [pc EXCEPT ![w] = "block"] /\ idle_threads' = idle + 1
      BY <1>5 DEF Decide, Takes
    <2>2. /\ Cardinality(At(Ready)') \in Nat
          /\ Cardinality(At(Idle)') = idle_threads'
          /\ At(Busy)' = At(Busy)
      <3>1. CASE pc' = [pc EXCEPT ![w] = "gone"] /\ idle_threads' = idle
        <4>1. "gone" \notin Ready /\ "gone" \notin Idle /\ "gone" \notin Busy
          BY DEF Ready, Idle, Busy
        <4>2. Moving(w, "gone")
          BY <3>1, <1>2, Moved
        <4> QED
          BY <4>1, <4>2, <3>1, <1>1, <1>2, <1>3, AtFinite DEF Moving, Shifts
      <3>2. CASE pc' = [pc EXCEPT ![w] = "block"] /\ idle_threads' = idle + 1
        <4>1. "block" \in Ready /\ "block" \in Idle /\ "block" \notin Busy
          BY DEF Ready, Idle, Busy
        <4>2. Moving(w, "block")
          BY <3>2, <1>2, Moved
        <4> QED
          BY <4>1, <4>2, <3>2, <1>1, <1>2, <1>3, AtFinite DEF Moving, Shifts
      <3> QED
        BY <2>1, <3>1, <3>2
    <2>3. EnoughWorkers'
      BY <2>1, <2>2, <1>5 DEF EnoughWorkers, IdleCounted, Ready, Idle
    <2>4. Started_'
      BY <2>1, <1>2 DEF IInv, Started_
    <2> QED
      BY <2>1, <2>2, <2>3, <2>4, TasksKept DEF IInv
  <1> QED
    BY <1>4, <1>5

-----------------------------------------------------------------------------
(* The other steps that change the tasks.  A task goes into the deque with *)
(* a number nobody has had, and the pool grows if too few workers idle.    *)
LEMMA StepInsert ==
    ASSUME IInv, NEW s \in Submitters, Insert(s)
    PROVE  IInv'
  <1> DEFINE n == Cardinality(At(Ready))
             i == Cardinality(At(Idle))
             id == accepted + 1
  <1>1. /\ n \in Nat /\ i \in Nat /\ i <= n
        /\ Cardinality(At(Busy)) \in Nat
    <2>1. At(Idle) \subseteq At(Ready)
      BY DEF At, Idle, Ready
    <2>2. IsFiniteSet(At(Ready)) /\ n \in Nat /\ i \in Nat /\ Cardinality(At(Busy)) \in Nat
      BY AtFinite
    <2> HIDE DEF n, i
    <2>3. i <= n
      BY <2>1, <2>2, FS_Subset DEF n, i
    <2> QED
      BY <2>2, <2>3
  <1>2. /\ pc \in [Workers -> Places] /\ tasks \in Seq(Tasks) /\ accepted \in Nat
        /\ workers \in 0 .. max_threads /\ max_threads \in Nat
        /\ idle_threads = i /\ Len(tasks) \in Nat
    BY ThreadPoolAssumption DEF IInv, Typed, EnoughWorkers, IdleCounted, Idle
  <1>3. PICK priority \in Priorities :
          tasks' = InsertAt(tasks, Position(priority), [id |-> id, priority |-> priority])
    BY DEF Insert
  <1> DEFINE e == [id |-> id, priority |-> priority]
  <1>4. Position(priority) \in 1 .. Len(tasks) + 1
    <2>1. priority \in {"High", "Normal", "Low"}
      BY ThreadPoolAssumption
    <2>2. Len(tasks) \div 2 \in 0 .. Len(tasks)
      BY <1>2
    <2> QED
      BY <2>1, <2>2, <1>2 DEF Position
  <1>5. e \in Tasks /\ e.id = id
    BY <1>2 DEF Tasks
  <1>6. /\ id \notin Ids(tasks) /\ id \notin Running
        /\ id \notin finished /\ id \notin cancelled
    <2>1. id \notin 1 .. accepted
      BY <1>2
    <2>2. Ids(tasks) \cup Running \cup finished \cup cancelled = 1 .. accepted
      BY QueuedIds DEF IInv, InOnePlace
    <2> HIDE DEF id
    <2> QED
      BY <2>1, <2>2
  <1>7. /\ tasks' \in Seq(Tasks) /\ Len(tasks') = Len(tasks) + 1
        /\ Ids(tasks') = Ids(tasks) \cup {id} /\ Distinct(tasks')
    <2>1. Distinct(tasks)
      BY DEF IInv, Apart
    <2> HIDE DEF e, id
    <2> QED
      BY <1>2, <1>3, <1>4, <1>5, <1>6, <2>1, Inserted DEF e
  <1>8. accepted' = id /\ UNCHANGED <<stop, idle_threads, running, finished, cancelled>>
    BY DEF Insert
  <1>9. /\ Typed' /\ Started_' /\ EnoughWorkers'
        /\ At(Busy)' = At(Busy)
    <2>a. /\ stop' \in BOOLEAN /\ running' \in [Workers -> Nat] /\ accepted' \in Nat
          /\ call' \in [Submitters -> {"none", "insert", "notify"}]
      BY <1>2, <1>8 DEF IInv, Typed, Insert
    <2>1. CASE Grows(Len(tasks) + 1)
      <3>1. /\ workers' = workers + 1 /\ pc' = [pc EXCEPT ![workers + 1] = "loop"]
            /\ workers < max_threads
        BY <2>1 DEF Insert, Grows
      <3>2. workers + 1 \in Workers /\ pc[workers + 1] = "none"
        BY <3>1, <1>2 DEF IInv, Started_, Workers
      <3>3. /\ Cardinality(At(Ready)') = n + 1 /\ Cardinality(At(Idle)') = i
            /\ At(Busy)' = At(Busy)
        <4>1. /\ "loop" \in Ready /\ "loop" \notin Idle /\ "loop" \notin Busy
              /\ "none" \notin Ready /\ "none" \notin Idle /\ "none" \notin Busy
          BY DEF Ready, Idle, Busy
        <4>2. Moving(workers + 1, "loop")
          BY <3>1, <3>2, <1>2, Moved
        <4>3. workers + 1 \notin At(Busy)
          BY <3>2 DEF At, Busy
        <4> QED
          BY <4>1, <4>2, <4>3, <3>2, <1>1 DEF Moving, Shifts
      <3>4. pc' \in [Workers -> Places] /\ workers' \in 0 .. max_threads
        BY <3>1, <3>2, <1>2 DEF Places
      <3>5. Started_'
        <4>1. \A w \in Workers : w \in Nat
          BY DEF Workers
        <4> QED
          BY <3>1, <3>2, <4>1, <1>2 DEF IInv, Started_
      <3>6. Len(tasks) <= n \/ workers = max_threads
        BY DEF IInv, EnoughWorkers, Ready
      <3>7. Len(tasks') <= n + 1
        BY <3>6, <3>1, <1>7, <1>1, <1>2
      <3>8. EnoughWorkers'
        BY <3>3, <3>7, <1>2, <1>8 DEF EnoughWorkers, IdleCounted, Ready, Idle
      <3> QED
        BY <2>a, <3>3, <3>4, <3>5, <3>8, <1>7 DEF Typed
    <2>2. CASE ~ Grows(Len(tasks) + 1)
      <3>1. UNCHANGED <<workers, pc>>
        BY <2>2 DEF Insert
      <3>2. At(Ready)' = At(Ready) /\ At(Idle)' = At(Idle) /\ At(Busy)' = At(Busy)
        BY <3>1 DEF At
      <3>3. Len(tasks') <= n \/ workers = max_threads
        BY <2>2, <1>1, <1>2, <1>7 DEF Grows
      <3>4. EnoughWorkers'
        BY <3>1, <3>2, <3>3, <1>2, <1>8 DEF EnoughWorkers, IdleCounted, Ready, Idle
      <3>5. Started_'
        BY <3>1 DEF IInv, Started_
      <3> QED
        BY <2>a, <3>1, <3>2, <3>4, <3>5, <1>2, <1>7 DEF Typed
    <2> QED
      BY <2>1, <2>2
  <1>10. InOnePlace'
    <2>1. Running' = Running
      BY <1>8, <1>9 DEF Running, Busy
    <2>2. 1 .. id = (1 .. accepted) \cup {id}
      BY <1>2
    <2>3. Queued' \cup Running' \cup finished' \cup cancelled' = 1 .. accepted'
      <3> HIDE DEF id
      <3> QED
        BY <2>1, <2>2, <1>7, <1>8, QueuedIds DEF IInv, InOnePlace
    <2>4. /\ Cardinality(finished) \in Nat /\ Cardinality(cancelled) \in Nat
          /\ Len(tasks) + Cardinality(At(Busy)) + Cardinality(finished)
               + Cardinality(cancelled) = accepted
      BY FS_CardinalityType DEF IInv, InOnePlace, Busy
    <2>5. Len(tasks') + Cardinality(At(Busy)') + Cardinality(finished')
            + Cardinality(cancelled') = accepted'
      <3>1. /\ Len(tasks') = Len(tasks) + 1 /\ accepted' = accepted + 1
            /\ At(Busy)' = At(Busy) /\ finished' = finished /\ cancelled' = cancelled
        BY <1>7, <1>8, <1>9
      <3>2. Len(tasks) \in Nat /\ accepted \in Nat /\ Cardinality(At(Busy)) \in Nat
        BY <1>1, <1>2
      <3> HIDE DEF e, id, n, i
      <3> QED
        BY <2>4, <3>1, <3>2
    <2> QED
      BY <2>3, <2>5 DEF InOnePlace, Busy
  <1>11. Apart'
    <2>1. \A w \in At(Busy) : running[w] # id
      BY <1>6 DEF Running, Busy
    <2> HIDE DEF id
    <2> QED
      BY <2>1, <1>6, <1>7, <1>8, <1>9 DEF IInv, Apart
  <1> QED
    BY <1>8, <1>9, <1>10, <1>11 DEF IInv

(* What is in the deque is dropped.                                        *)
LEMMA StepCancel ==
    ASSUME IInv, NEW s \in Submitters, CancelPending(s)
    PROVE  IInv'
  <1>1. /\ tasks' = <<>> /\ cancelled' = cancelled \cup Ids(tasks)
        /\ UNCHANGED <<stop, pc, workers, idle_threads, running, finished, accepted, call>>
    BY QueuedIds DEF CancelPending, Queued
  <1>2. At(Ready)' = At(Ready) /\ At(Idle)' = At(Idle) /\ At(Busy)' = At(Busy)
    BY <1>1 DEF At
  <1>3. Ids(tasks') = {} /\ Len(tasks') = 0 /\ tasks' \in Seq(Tasks)
    BY <1>1 DEF Ids
  <1>4. Typed' /\ Started_'
    BY <1>1, <1>3 DEF IInv, Typed, Started_
  <1>5. EnoughWorkers'
    <2>1. Cardinality(At(Ready)) \in Nat
      BY AtFinite
    <2> QED
      BY <1>1, <1>2, <1>3, <2>1 DEF IInv, EnoughWorkers, IdleCounted, Ready, Idle
  <1>6. /\ IsFiniteSet(cancelled')
        /\ Cardinality(cancelled') = Cardinality(cancelled) + Len(tasks)
    <2>1. /\ IsFiniteSet(cancelled) /\ IsFiniteSet(Ids(tasks))
          /\ Cardinality(Ids(tasks)) = Len(tasks)
      BY CountIds DEF IInv, Typed, Apart
    <2>2. cancelled \cap Ids(tasks) = {}
      BY DEF IInv, Apart
    <2>3. /\ Cardinality(cancelled) \in Nat /\ Len(tasks) \in Nat
      BY <2>1, FS_CardinalityType
    <2>4. /\ IsFiniteSet(cancelled \cup Ids(tasks))
          /\ Cardinality(cancelled \cup Ids(tasks)) =
               Cardinality(cancelled) + Cardinality(Ids(tasks)) - Cardinality({})
      BY <2>1, <2>2, FS_Union
    <2> QED
      BY <2>1, <2>3, <2>4, <1>1, FS_EmptySet
  <1>7. InOnePlace'
    <2>1. Running' = Running
      BY <1>1 DEF Running, At
    <2>2. Queued' \cup Running' \cup finished' \cup cancelled' = 1 .. accepted'
      BY <2>1, <1>1, <1>3, QueuedIds DEF IInv, InOnePlace
    <2>3. /\ Cardinality(finished) \in Nat /\ Cardinality(cancelled) \in Nat
          /\ Cardinality(At(Busy)) \in Nat /\ Len(tasks) \in Nat
          /\ Len(tasks) + Cardinality(At(Busy)) + Cardinality(finished)
               + Cardinality(cancelled) = accepted
      BY FS_CardinalityType, AtFinite DEF IInv, Typed, InOnePlace, Busy
    <2>4. Len(tasks') + Cardinality(At(Busy)') + Cardinality(finished')
            + Cardinality(cancelled') = accepted'
      BY <2>3, <1>1, <1>2, <1>3, <1>6
    <2> QED
      BY <2>2, <2>4 DEF InOnePlace, Busy
  <1>8. Apart'
    BY <1>1, <1>2, <1>3 DEF IInv, Apart, Distinct
  <1> QED
    BY <1>1, <1>4, <1>5, <1>6, <1>7, <1>8 DEF IInv

(* A worker's task has run.                                                *)
LEMMA StepFinish ==
    ASSUME IInv, NEW w \in Workers, Finish(w)
    PROVE  IInv'
  <1> DEFINE n == Cardinality(At(Ready))
             m == Cardinality(At(Busy))
  <1>1. /\ pc[w] = "run" /\ pc' = [pc EXCEPT ![w] = "loop"]
        /\ running' = [running EXCEPT ![w] = 0] /\ finished' = finished \cup {running[w]}
        /\ UNCHANGED <<stop, workers, idle_threads, tasks, cancelled, accepted, call>>
    BY DEF Finish
  <1>2. /\ pc \in [Workers -> Places] /\ running \in [Workers -> Nat] /\ Len(tasks) \in Nat
    BY DEF IInv, Typed
  <1>3. n \in Nat /\ m \in Nat /\ Cardinality(At(Idle)) \in Nat
    BY AtFinite
  <1>4. w \in At(Busy)
    BY <1>1 DEF At, Busy
  <1>5. /\ Cardinality(At(Ready)') = n + 1
        /\ Cardinality(At(Idle)') = Cardinality(At(Idle))
        /\ Cardinality(At(Busy)') = m - 1
        /\ At(Busy)' = At(Busy) \ {w}
    <2>1. /\ "loop" \in Ready /\ "loop" \notin Idle /\ "loop" \notin Busy
          /\ pc[w] \notin Ready /\ pc[w] \notin Idle /\ pc[w] \in Busy
      BY <1>1 DEF Ready, Idle, Busy
    <2>2. Moving(w, "loop")
      BY <1>1, <1>2, Moved
    <2> QED
      BY <2>1, <2>2, <1>3 DEF Moving, Shifts
  <1>6. Typed' /\ Started_'
    <2>1. pc' \in [Workers -> Places] /\ running' \in [Workers -> Nat]
      BY <1>1, <1>2 DEF Places
    <2> QED
      BY <1>1, <2>1 DEF IInv, Typed, Started_
  <1>7. EnoughWorkers'
    <2>1. Len(tasks) <= n \/ workers = max_threads
      BY DEF IInv, EnoughWorkers, Ready
    <2>2. Len(tasks) <= n + 1 \/ workers = max_threads
      BY <2>1, <1>2, <1>3
    <2>3. idle_threads = Cardinality(At(Idle))
      BY DEF IInv, EnoughWorkers, IdleCounted, Idle
    <2> QED
      BY <1>1, <1>5, <2>2, <2>3 DEF EnoughWorkers, IdleCounted, Ready, Idle
  <1>8. running[w] \notin finished /\ running[w] \notin cancelled /\ running[w] \notin Ids(tasks)
    BY <1>4 DEF IInv, Apart
  <1>9. /\ IsFiniteSet(finished') /\ Cardinality(finished') = Cardinality(finished) + 1
        /\ Cardinality(finished) \in Nat /\ Cardinality(cancelled) \in Nat
    BY <1>1, <1>8, FS_AddElement, FS_CardinalityType DEF IInv
  <1>10. \A v \in At(Busy)' : v # w /\ v \in At(Busy) /\ running'[v] = running[v]
    BY <1>1, <1>2, <1>5 DEF At
  <1>11. InOnePlace'
    <2>1. Running = Running' \cup {running[w]}
      <3>1. At(Busy) = At(Busy)' \cup {w}
        BY <1>4, <1>5
      <3> QED
        BY <3>1, <1>10 DEF Running, Busy
    <2>2. Queued' \cup Running' \cup finished' \cup cancelled' = 1 .. accepted'
      BY <2>1, <1>1, QueuedIds DEF IInv, InOnePlace
    <2>3. Len(tasks) + m + Cardinality(finished) + Cardinality(cancelled) = accepted
      BY DEF IInv, InOnePlace, Busy
    <2>4. Len(tasks') + Cardinality(At(Busy)') + Cardinality(finished')
            + Cardinality(cancelled') = accepted'
      BY <2>3, <1>1, <1>2, <1>3, <1>5, <1>9
    <2> QED
      BY <2>2, <2>4 DEF InOnePlace, Busy
  <1>12. Apart'
    <2>1. \A v \in At(Busy)' : running[v] # running[w]
      BY <1>4, <1>10 DEF IInv, Apart
    <2> QED
      BY <2>1, <1>1, <1>8, <1>10 DEF IInv, Apart
  <1> QED
    BY <1>1, <1>6, <1>7, <1>9, <1>11, <1>12 DEF IInv

-----------------------------------------------------------------------------
(* Notifying wakes at most one worker that waits.                          *)
LEMMA SettlesNotify ==
    ASSUME pc \in [Workers -> Places], NEW s \in Submitters, Notify(s)
    PROVE  Settles
  <1>1. CASE UNCHANGED pc
    BY <1>1 DEF Settles
  <1>2. CASE \E w \in At({"wait"}) : pc' = [pc EXCEPT ![w] = "woken"]
    BY <1>2 DEF Settles, At, Places
  <1> QED
    BY <1>1, <1>2 DEF Notify, NotifyOne

(* The steps that leave the tasks alone only move workers that are about to*)
(* block or wait.                                                          *)
LEMMA StepQuiet ==
    ASSUME IInv,
           \/ UNCHANGED vars
           \/ \E s \in Submitters : Enqueue(s) \/ Notify(s)
           \/ \E w \in Workers : Block(w) \/ SpuriousWakeup(w)
           \/ Stop \/ NotifyStop \/ Joined
    PROVE  IInv'
  <1>1. /\ pc \in [Workers -> Places] /\ stop \in BOOLEAN
        /\ call \in [Submitters -> {"none", "insert", "notify"}]
    BY DEF IInv, Typed
  <1> DEFINE Quiet ==
               /\ Settles /\ stop' \in BOOLEAN
               /\ call' \in [Submitters -> {"none", "insert", "notify"}]
               /\ UNCHANGED <<workers, idle_threads, tasks, running, finished,
                              cancelled, accepted>>
  <1>2. Quiet
    <2>1. CASE UNCHANGED vars
      BY <2>1, <1>1 DEF vars, Settles
    <2>2. ASSUME NEW s \in Submitters, Enqueue(s) PROVE Quiet
      BY <2>2, <1>1 DEF Enqueue, Settles
    <2>3. ASSUME NEW s \in Submitters, Notify(s) PROVE Quiet
      BY <2>3, <1>1, SettlesNotify DEF Notify
    <2>4. ASSUME NEW w \in Workers, Block(w) PROVE Quiet
      BY <2>4, <1>1 DEF Block, Settles, Places
    <2>5. ASSUME NEW w \in Workers, SpuriousWakeup(w) PROVE Quiet
      BY <2>5, <1>1 DEF SpuriousWakeup, Settles, Places
    <2>6. CASE Stop
      BY <2>6, <1>1 DEF Stop, Settles
    <2>7. CASE NotifyStop
      BY <2>7, <1>1 DEF NotifyStop, NotifyAll, Settles, Places
    <2>8. CASE Joined
      BY <2>8, <1>1 DEF Joined, Settles
    <2> QED
      BY <2>1, <2>2, <2>3, <2>4, <2>5, <2>6, <2>7, <2>8
  <1>3. Typed'
    BY <1>2 DEF IInv, Typed, Settles
  <1> QED
    BY <1>2, <1>3, StepSettles

(* A worker looks at the deque at the top of its loop, or after its wait.  *)
LEMMA StepLook ==
    ASSUME IInv, NEW w \in Workers, Look(w) \/ Wake(w)
    PROVE  IInv'
  <1> DEFINE idle == idle_threads - (IF pc[w] \in Idle THEN 1 ELSE 0)
  <1>1. /\ pc[w] \in {"loop", "woken"} /\ Decide(w, idle)
        /\ UNCHANGED <<stop, workers, finished, cancelled, accepted, call>>
    <2>1. idle_threads \in Nat
      BY AtFinite DEF IInv, EnoughWorkers, IdleCounted, Idle
    <2>2. CASE Look(w)
      <3>1. pc[w] = "loop" /\ pc[w] \notin Idle /\ Decide(w, idle_threads)
        BY <2>2 DEF Look, Idle
      <3>2. idle = idle_threads
        BY <3>1, <2>1
      <3> HIDE DEF idle
      <3> QED
        BY <2>2, <3>1, <3>2 DEF Look
    <2>3. CASE Wake(w)
      <3>1. pc[w] = "woken" /\ pc[w] \in Idle /\ Decide(w, idle_threads - 1)
        BY <2>3 DEF Wake, OthersIdle, Idle
      <3>2. idle = idle_threads - 1
        BY <3>1, <2>1
      <3> HIDE DEF idle
      <3> QED
        BY <2>3, <3>1, <3>2 DEF Wake
    <2> QED
      BY <2>2, <2>3
  <1>2. Typed'
    <2>1. pc \in [Workers -> Places] /\ running \in [Workers -> Nat] /\ tasks \in Seq(Tasks)
      BY DEF IInv, Typed
    <2>2. pc' \in [Workers -> Places]
      BY <1>1, <2>1 DEF Decide, Places
    <2>3. tasks' \in Seq(Tasks) /\ running' \in [Workers -> Nat]
      <3>1. CASE Takes
        <4>1. Tail(tasks) \in Seq(Tasks) /\ Head(tasks).id \in Nat
          BY <3>1, <2>1, Removed DEF Takes, Tasks
        <4> QED
          BY <3>1, <4>1, <1>1, <2>1 DEF Decide
      <3>2. CASE ~ Takes
        BY <3>2, <1>1, <2>1 DEF Decide
      <3> QED
        BY <3>1, <3>2
    <2> QED
      BY <1>1, <2>2, <2>3 DEF IInv, Typed
  <1> HIDE DEF idle
  <1> QED
    BY <1>1, <1>2, StepDecide DEF idle

LEMMA StepIInv == IInv /\ [Next]_vars => IInv'
  <1> SUFFICES ASSUME IInv, [Next]_vars PROVE IInv'
    OBVIOUS
  <1>1. ASSUME NEW s \in Submitters, Insert(s) PROVE IInv'
    BY <1>1, StepInsert
  <1>2. ASSUME NEW s \in Submitters, CancelPending(s) PROVE IInv'
    BY <1>2, StepCancel
  <1>3. ASSUME NEW w \in Workers, Look(w) \/ Wake(w) PROVE IInv'
    BY <1>3, StepLook
  <1>4. ASSUME NEW w \in Workers, Finish(w) PROVE IInv'
    BY <1>4, StepFinish
  <1> QED
    BY <1>1, <1>2, <1>3, <1>4, StepQuiet DEF Next, CallStep, WorkerStep, DestructorStep

(* A queued task has a worker to itself that is idle or about to look at   *)
(* the deque, unless the pool has all the threads it may have; and         *)
(* idle_threads counts the workers inside the wait: enqueue, line 67.      *)
THEOREM GrowsInTime == Spec => []EnoughWorkers
  <1>1. IInv => EnoughWorkers
    BY DEF IInv
  <1> QED
    BY <1>1, InitIInv, StepIInv, PTL DEF Spec

-----------------------------------------------------------------------------
(* While the deque holds a task some worker has not left: a worker leaves  *)
(* only when the deque is empty and stop is set, and from then on only a   *)
(* running task can submit another.                                        *)
Left == {"gone", "none"}

Calling ==
    \A s \in Submitters : call[s] # "none" =>
        (s \in Clients => phase = "up") /\ (s \in Workers => pc[s] = "run")

Drains ==
    /\ phase = "up" => ~ stop
    /\ \A w \in Workers : pc[w] = "gone" => stop
    /\ Calling
    /\ workers >= 1
    /\ tasks # <<>> => \E w \in Workers : pc[w] \notin Left
    /\ phase = "done" => \A w \in Workers : pc[w] \in Left

LEMMA InitDrains == ASSUME max_threads > 0, Init PROVE Drains
  BY ThreadPoolAssumption DEF Init, Drains, Calling, Started, Least

LEMMA DrainsInsert ==
    ASSUME IInv, Drains, NEW s \in Submitters, Insert(s)
    PROVE  Drains'
  <1>1. /\ pc \in [Workers -> Places] /\ workers \in 0 .. max_threads /\ max_threads \in Nat
        /\ call \in [Submitters -> {"none", "insert", "notify"}]
    BY ThreadPoolAssumption DEF IInv, Typed
  <1>2. /\ stop' = stop /\ call' = [call EXCEPT ![s] = "notify"] /\ call[s] = "insert"
        /\ \/ /\ workers < max_threads /\ workers' = workers + 1
              /\ pc' = [pc EXCEPT ![workers + 1] = "loop"]
              /\ phase' = IF phase = "up" THEN phase ELSE "undefined"
           \/ UNCHANGED <<workers, pc, phase>>
    BY DEF Insert, Grows
  <1>3. \A w \in Workers : pc'[w] = pc[w] \/ (pc[w] = "none" /\ pc'[w] = "loop")
    BY <1>1, <1>2 DEF IInv, Started_, Workers
  <1>4. \E w \in Workers : pc[w] \notin Left
    <2>1. CASE s \in Clients
      <3>1. ~ stop
        BY <1>2, <2>1 DEF Drains, Calling
      <3>2. 1 \in Workers /\ ~ (1 > workers)
        BY <1>1 DEF Drains, Workers
      <3>3. pc[1] # "none" /\ pc[1] # "gone"
        BY <3>1, <3>2 DEF Drains, IInv, Started_
      <3> QED
        BY <3>2, <3>3 DEF Left
    <2>2. CASE s \in Workers
      BY <1>2, <2>2 DEF Drains, Calling, Left
    <2> QED
      BY <2>1, <2>2 DEF Submitters
  <1>5. \E w \in Workers : pc'[w] \notin Left
    BY <1>3, <1>4 DEF Left
  <1>6. phase # "done" /\ phase' # "done" /\ (phase = "up" <=> phase' = "up")
    BY <1>2, <1>4 DEF Drains
  <1>7. Calling'
    BY <1>1, <1>2, <1>3, <1>6 DEF Drains, Calling
  <1>8. \A w \in Workers : pc'[w] = "gone" => stop'
    BY <1>2, <1>3 DEF Drains
  <1>9. workers' >= 1
    BY <1>1, <1>2 DEF Drains
  <1> QED
    BY <1>2, <1>5, <1>6, <1>7, <1>8, <1>9 DEF Drains

(* A worker with the mutex, and one whose task returns: it was not in a    *)
(* call, and it has not left if the deque still holds a task.              *)
LEMMA DrainsWorker ==
    ASSUME IInv, Drains, NEW w \in Workers, Look(w) \/ Wake(w) \/ Finish(w)
    PROVE  Drains'
  <1>1. /\ pc \in [Workers -> Places]
        /\ UNCHANGED <<stop, phase, workers, call>>
        /\ pc[w] \notin Left
    BY DEF IInv, Typed, Look, Wake, Finish, Left
  <1> DEFINE Goes(to) ==
               /\ pc' = [pc EXCEPT ![w] = to]
               /\ to \in Left => to = "gone" /\ stop /\ tasks' = <<>>
  <1>2. Goes("loop") \/ Goes("run") \/ Goes("gone") \/ Goes("block")
    <2>1. CASE Finish(w)
      BY <2>1 DEF Finish, Left
    <2>2. ASSUME NEW idle, Decide(w, idle)
          PROVE  Goes("run") \/ Goes("gone") \/ Goes("block")
      <3>1. CASE Takes
        BY <2>2, <3>1 DEF Decide, Left
      <3>2. CASE ~ Takes
        BY <2>2, <3>2 DEF Decide, Takes, Left
      <3> QED
        BY <3>1, <3>2
    <2>3. Look(w) \/ Wake(w) => Decide(w, idle_threads) \/ Decide(w, idle_threads - 1)
      BY DEF Look, Wake, OthersIdle
    <2> HIDE DEF Goes
    <2> QED
      BY <2>1, <2>2, <2>3
  <1>3. w \in Submitters => pc[w] # "run" \/ call[w] = "none"
    BY DEF Look, Wake, Finish
  <1>4. w \in Submitters => call[w] = "none"
    BY <1>3 DEF Drains, Calling, Look, Wake, Finish
  <1>5. PICK to \in Places : Goes(to)
    <2> HIDE DEF Goes
    <2> QED BY <1>2 DEF Places
  <1>6. tasks' # <<>> => \E v \in Workers : pc'[v] \notin Left
    BY <1>1, <1>5
  <1>7. phase # "done"
    BY <1>1 DEF Drains
  <1>8. Calling'
    BY <1>1, <1>4, <1>5 DEF Drains, Calling
  <1> QED
    BY <1>1, <1>5, <1>6, <1>7, <1>8 DEF Drains, Left

(* The steps that leave every worker where it is, or only notify it.       *)
LEMMA DrainsQuiet ==
    ASSUME IInv, Drains,
           \/ UNCHANGED vars
           \/ \E s \in Submitters : Enqueue(s) \/ Notify(s) \/ CancelPending(s)
           \/ \E w \in Workers : Block(w) \/ SpuriousWakeup(w)
           \/ Stop \/ NotifyStop \/ Joined
    PROVE  Drains'
  <1>1. /\ pc \in [Workers -> Places]
        /\ call \in [Submitters -> {"none", "insert", "notify"}]
    BY DEF IInv, Typed
  <1>2. CASE UNCHANGED vars
    BY <1>2 DEF vars, Drains, Calling
  <1>3. ASSUME NEW s \in Submitters, Enqueue(s) PROVE Drains'
    BY <1>1, <1>3 DEF Enqueue, MayCall, Drains, Calling
  <1>4. ASSUME NEW s \in Submitters, CancelPending(s) PROVE Drains'
    BY <1>4 DEF CancelPending, Drains, Calling
  <1>5. ASSUME UNCHANGED <<stop, phase, workers, tasks>>, Settles,
               \A s \in Submitters : call'[s] = call[s] \/ call'[s] = "none"
        PROVE  Drains'
    <2>1. \A w \in Workers : /\ pc'[w] \in Left <=> pc[w] \in Left
                             /\ pc'[w] = "gone" <=> pc[w] = "gone"
                             /\ pc[w] = "run" => pc'[w] = "run"
      BY <1>5 DEF Settles, Left
    <2>2. Calling'
      BY <1>5, <2>1 DEF Drains, Calling
    <2> QED
      BY <1>5, <2>1, <2>2 DEF Drains
  <1>6. ASSUME NEW s \in Submitters, Notify(s) PROVE Drains'
    <2>1. Settles
      BY <1>1, <1>6, SettlesNotify
    <2>2. \A r \in Submitters : call'[r] = call[r] \/ call'[r] = "none"
      BY <1>1, <1>6 DEF Notify
    <2> QED
      BY <1>5, <1>6, <2>1, <2>2 DEF Notify
  <1>7. ASSUME NEW w \in Workers, Block(w) \/ SpuriousWakeup(w) PROVE Drains'
    <2>1. Settles
      BY <1>1, <1>7 DEF Block, SpuriousWakeup, Settles, Places
    <2> QED
      BY <1>5, <1>7, <2>1 DEF Block, SpuriousWakeup
  <1>8. CASE Stop
    <2>1. Calling'
      BY <1>8, ThreadPoolAssumption DEF Stop, Drains, Calling
    <2> QED
      BY <1>8, <2>1 DEF Stop, Drains
  <1>9. CASE NotifyStop
    <2>1. \A w \in Workers : /\ pc'[w] \in Left <=> pc[w] \in Left
                             /\ pc'[w] = "gone" <=> pc[w] = "gone"
                             /\ pc[w] = "run" => pc'[w] = "run"
      BY <1>9 DEF NotifyStop, NotifyAll, Left
    <2>2. Calling'
      BY <1>9, <2>1 DEF NotifyStop, Drains, Calling
    <2> QED
      BY <1>9, <2>1, <2>2 DEF NotifyStop, Drains
  <1>10. CASE Joined
    <2>1. \A w \in Workers : pc[w] \in Left
      BY <1>10 DEF Joined, At, Left
    <2>2. Calling'
      BY <1>10 DEF Joined, Drains, Calling
    <2> QED
      BY <1>10, <2>1, <2>2 DEF Joined, Drains
  <1> QED
    BY <1>2, <1>3, <1>4, <1>6, <1>7, <1>8, <1>9, <1>10

LEMMA StepDrains == IInv /\ Drains /\ [Next]_vars => Drains'
  <1> SUFFICES ASSUME IInv, Drains, [Next]_vars PROVE Drains'
    OBVIOUS
  <1>1. ASSUME NEW s \in Submitters, Insert(s) PROVE Drains'
    BY <1>1, DrainsInsert
  <1>2. ASSUME NEW w \in Workers, Look(w) \/ Wake(w) \/ Finish(w) PROVE Drains'
    BY <1>2, DrainsWorker
  <1> QED
    BY <1>1, <1>2, DrainsQuiet DEF Next, CallStep, WorkerStep, DestructorStep

LEMMA Drained == IInv /\ Drains => DrainedAtEnd
  <1> SUFFICES ASSUME IInv, Drains, phase = "done"
               PROVE  tasks = <<>> /\ finished \cup cancelled = 1 .. accepted
    BY DEF DrainedAtEnd
  <1>1. tasks = <<>>
    BY DEF Drains
  <1>2. At(Busy) = {}
    BY DEF Drains, Left, At, Busy
  <1>3. Queued = {} /\ Running = {}
    BY <1>1, <1>2, QueuedIds DEF Ids, Running, Busy
  <1> QED
    BY <1>1, <1>3 DEF IInv, InOnePlace

(* An accepted task is in exactly one place - the deque, one worker, run   *)
(* or cancelled - and when the destructor is done none is left, if the pool*)
(* may have a thread at all: the constructor does not see to that.         *)
THEOREM Conserved ==
    ASSUME max_threads > 0
    PROVE  Spec => []TasksConserved
  <1>1. Init => IInv /\ Drains
    BY InitIInv, InitDrains
  <1>2. IInv /\ Drains /\ [Next]_vars => (IInv /\ Drains)'
    BY StepIInv, StepDrains
  <1>3. IInv /\ Drains => TasksConserved
    BY Drained DEF IInv, TasksConserved
  <1> QED
    BY <1>1, <1>2, <1>3, PTL DEF Spec
=============================================================================
