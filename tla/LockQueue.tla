------------------------------ MODULE LockQueue ------------------------------
(***************************************************************************)
(* LockQueue (libSdk/Common/LockQueue.h): a queue under one mutex with two *)
(* condition variables, m_cvRead for readers and m_cvWrite for pushers.    *)
(*                                                                         *)
(* What a call does while it holds m_mtxLock is one step: all that its     *)
(* predicates read changes under the mutex, except m_uCapSize, whose       *)
(* change notifies nobody.  The notification after the unlock is a step of *)
(* its own.  pop_back is left out: it is void but returns a value, so no   *)
(* program that calls it compiles.                                         *)
(***************************************************************************)
EXTENDS Integers, Sequences, FiniteSets

CONSTANTS
    Threads,
    Calls,       \* the calls that each thread may make
    Capacities,  \* the capacities in use
    NumValues,   \* bound: values pushed in all
    NumSpurious  \* bound: spurious wakeups in all

Readers == {"front", "back", "pop", "pop_front"}

ASSUME LockQueueAssumption ==
    /\ Calls \in [Threads -> SUBSET (Readers \union {"push", "wakeup", "setSpaces"})]
    /\ IsFiniteSet(Threads)
    /\ Capacities \subseteq Nat \ {0}
    /\ \E c \in Capacities : \A d \in Capacities : d <= c
    /\ NumValues \in Nat /\ NumSpurious \in Nat

VARIABLES
    m_queueData,  \* each element with its number, and whether its value is still in it
    m_uCapSize,
    m_bStop,
    op,           \* the call each thread is in, and how far
    accepted,     \* values pushed
    handed,       \* history: how often each value was moved to a caller
    swallowed,    \* history: a notified front or back left its element to a sleeping reader
    spurious      \* spurious wakeups so far

vars == <<m_queueData, m_uCapSize, m_bStop, op, accepted, handed, swallowed, spurious>>

Idle == [at |-> "idle"]

Ops ==
    {Idle}
      \union [at : {"wait", "woken"}, call : Readers \union {"push"}]
      \union [at : {"notifyRead", "notifyWrite", "stopWrite", "stopRead"}]

TypeOK ==
    /\ m_queueData \in Seq([id : 1 .. NumValues, full : BOOLEAN])
    /\ m_uCapSize \in Capacities
    /\ m_bStop \in BOOLEAN
    /\ op \in [Threads -> Ops]
    /\ accepted \in 0 .. NumValues
    /\ handed \in [1 .. NumValues -> Nat]
    /\ swallowed \in BOOLEAN
    /\ spurious \in 0 .. NumSpurious

Init ==
    /\ m_queueData = <<>>
    /\ m_uCapSize \in Capacities
    /\ m_bStop = FALSE
    /\ op = [t \in Threads |-> Idle]
    /\ accepted = 0
    /\ handed = [v \in 1 .. NumValues |-> 0]
    /\ swallowed = FALSE
    /\ spurious = 0

At(place) == {t \in Threads : op[t].at = place}
Waiting(calls) == {t \in At("wait") : op[t].call \in calls}
Woken(calls) == {t \in At("woken") : op[t].call \in calls}
Pushers == Waiting({"push"}) \union Woken({"push"})

-----------------------------------------------------------------------------
(* Thread t has the mutex in a call: it just made the call, or it was      *)
(* notified.                                                               *)
Enters(t, call) ==
    /\ call \in Calls[t]
    /\ op[t] = Idle \/ op[t] = [at |-> "woken", call |-> call]

Blocks(t, call) ==
    /\ op' = [op EXCEPT ![t] = [at |-> "wait", call |-> call]]
    /\ UNCHANGED <<m_queueData, m_uCapSize, m_bStop, accepted, handed, swallowed, spurious>>

(* The predicates of the two waits.                                        *)
WriteReadyUnstopped == Len(m_queueData) # m_uCapSize   \* mutant: stop does not wake pushers
WriteReadyAlways == TRUE   \* mutant: the queue is not bounded
WriteReady == Len(m_queueData) # m_uCapSize \/ m_bStop
ReadReady == m_queueData # <<>> \/ m_bStop

(* push: what it appends, unless the queue is stopped.                     *)
Push(t) ==
    /\ Enters(t, "push")
    /\ op[t] = Idle => accepted + Cardinality(Pushers) < NumValues
    /\ \/ ~ WriteReady /\ Blocks(t, "push")
       \/ /\ WriteReady
          /\ IF m_bStop
             THEN /\ op' = [op EXCEPT ![t] = Idle]
                  /\ UNCHANGED <<m_queueData, accepted>>
             ELSE /\ m_queueData' = Append(m_queueData, [id |-> accepted + 1, full |-> TRUE])
                  /\ accepted' = accepted + 1
                  /\ op' = [op EXCEPT ![t] = [at |-> "notifyRead"]]
          /\ UNCHANGED <<m_uCapSize, m_bStop, handed, swallowed, spurious>>

(* The value of the first element goes to the caller, unless a front took  *)
(* it before: then the caller gets what a moved-from value holds.          *)
HandFirst ==
    IF m_queueData # <<>> /\ Head(m_queueData).full
    THEN [handed EXCEPT ![Head(m_queueData).id] = @ + 1]
    ELSE handed

Notified(t) == op[t].at = "woken"

(* front moves the value out of the first element, which stays.            *)
FirstCopied == m_queueData   \* mutant: the value is copied
FirstMoved ==
    IF m_queueData = <<>> THEN m_queueData ELSE [m_queueData EXCEPT ![1].full = FALSE]

Front(t) ==
    /\ Enters(t, "front")
    /\ \/ ~ ReadReady /\ Blocks(t, "front")
       \/ /\ ReadReady
          /\ handed' = HandFirst
          /\ m_queueData' = FirstMoved
          /\ op' = [op EXCEPT ![t] = Idle]
          /\ swallowed' = (swallowed \/ (Notified(t) /\ m_queueData # <<>>))
          /\ UNCHANGED <<m_uCapSize, m_bStop, accepted, spurious>>

(* back copies the value of the last element.                              *)
Back(t) ==
    /\ Enters(t, "back")
    /\ \/ ~ ReadReady /\ Blocks(t, "back")
       \/ /\ ReadReady
          /\ op' = [op EXCEPT ![t] = Idle]
          /\ swallowed' = (swallowed \/ (Notified(t) /\ m_queueData # <<>>))
          /\ UNCHANGED <<m_queueData, m_uCapSize, m_bStop, accepted, handed, spurious>>

(* What pop and pop_front leave in the queue.                              *)
WithoutLast == SubSeq(m_queueData, 1, Len(m_queueData) - 1)   \* mutant: the last is removed
WithoutFirst == IF m_queueData = <<>> THEN <<>> ELSE Tail(m_queueData)

Pop(t) ==
    /\ Enters(t, "pop")
    /\ \/ ~ ReadReady /\ Blocks(t, "pop")
       \/ /\ ReadReady
          /\ m_queueData' = WithoutFirst
          /\ op' = [op EXCEPT ![t] = [at |-> "notifyWrite"]]
          /\ UNCHANGED <<m_uCapSize, m_bStop, accepted, handed, swallowed, spurious>>

PopFront(t) ==
    /\ Enters(t, "pop_front")
    /\ \/ ~ ReadReady /\ Blocks(t, "pop_front")
       \/ /\ ReadReady
          /\ handed' = HandFirst
          /\ m_queueData' = WithoutFirst
          /\ op' = [op EXCEPT ![t] = [at |-> "notifyWrite"]]
          /\ UNCHANGED <<m_uCapSize, m_bStop, accepted, swallowed, spurious>>

(* notify_one on the threads of a set that wait; thread t goes on.         *)
NotifyNone(t, waiting) ==   \* mutant: the call is missing
    op' = [op EXCEPT ![t] = Idle]
NotifyOne(t, waiting) ==
    IF waiting = {} THEN op' = [op EXCEPT ![t] = Idle]
    ELSE \E u \in waiting : op' = [op EXCEPT ![t] = Idle, ![u].at = "woken"]

NotifyRead(t) ==
    /\ op[t].at = "notifyRead"
    /\ NotifyOne(t, Waiting(Readers))
    /\ UNCHANGED <<m_queueData, m_uCapSize, m_bStop, accepted, handed, swallowed, spurious>>

NotifyWrite(t) ==
    /\ op[t].at = "notifyWrite"
    /\ NotifyOne(t, Waiting({"push"}))
    /\ UNCHANGED <<m_queueData, m_uCapSize, m_bStop, accepted, handed, swallowed, spurious>>

(* wakeup sets m_bStop under the mutex, then notifies all pushers and all  *)
(* readers.                                                                *)
Wakeup(t) ==
    /\ "wakeup" \in Calls[t]
    /\ op[t] = Idle
    /\ m_bStop' = TRUE
    /\ op' = [op EXCEPT ![t] = [at |-> "stopWrite"]]
    /\ UNCHANGED <<m_queueData, m_uCapSize, accepted, handed, swallowed, spurious>>

WakeAll(t, then, waiting) ==
    op' = [u \in Threads |-> IF u = t THEN then
                             ELSE IF u \in waiting THEN [op[u] EXCEPT !.at = "woken"]
                             ELSE op[u]]

StopWrite(t) ==
    /\ op[t].at = "stopWrite"
    /\ WakeAll(t, [at |-> "stopRead"], Waiting({"push"}))
    /\ UNCHANGED <<m_queueData, m_uCapSize, m_bStop, accepted, handed, swallowed, spurious>>

StopRead(t) ==
    /\ op[t].at = "stopRead"
    /\ WakeAll(t, Idle, Waiting(Readers))
    /\ UNCHANGED <<m_queueData, m_uCapSize, m_bStop, accepted, handed, swallowed, spurious>>

(* setSpaces, without the mutex.  FileLogger calls it in its constructor,  *)
(* before anybody uses the queue.                                          *)
SetSpaces(t) ==
    /\ "setSpaces" \in Calls[t]
    /\ accepted = 0 /\ \A u \in Threads : op[u] = Idle
    /\ m_uCapSize' \in Capacities
    /\ UNCHANGED <<m_queueData, m_bStop, op, accepted, handed, swallowed, spurious>>

SpuriousWakeup(t) ==
    /\ op[t].at = "wait"
    /\ spurious < NumSpurious
    /\ spurious' = spurious + 1
    /\ op' = [op EXCEPT ![t].at = "woken"]
    /\ UNCHANGED <<m_queueData, m_uCapSize, m_bStop, accepted, handed, swallowed>>

Call(t) == Push(t) \/ Front(t) \/ Back(t) \/ Pop(t) \/ PopFront(t)

(* What thread t does next in a call that it has made.                     *)
Continue(t) ==
    \/ Notified(t) /\ Call(t)
    \/ NotifyRead(t) \/ NotifyWrite(t) \/ StopWrite(t) \/ StopRead(t)

Next ==
    \E t \in Threads : \/ Call(t) \/ NotifyRead(t) \/ NotifyWrite(t)
                       \/ Wakeup(t) \/ StopWrite(t) \/ StopRead(t)
                       \/ SetSpaces(t) \/ SpuriousWakeup(t)

Spec == Init /\ [][Next]_vars

(* A thread that is not blocked goes on with its call; no thread has to    *)
(* make one.                                                               *)
FairSpec == Spec /\ \A t \in Threads : WF_vars(Continue(t))

-----------------------------------------------------------------------------
(* The queue holds the latest of the accepted values, in the order they    *)
(* were accepted: calls take from one end and add to the other.            *)
FifoOrder ==
    /\ Len(m_queueData) <= accepted
    /\ \A i \in 1 .. Len(m_queueData) :
           m_queueData[i].id = accepted - Len(m_queueData) + i

(* No value reaches two callers, though front and pop_front of different   *)
(* threads meet at the same element; an element is emptied exactly when    *)
(* its value was handed out.                                               *)
HandedOnce ==
    /\ \A v \in 1 .. NumValues : handed[v] <= 1
    /\ \A i \in 1 .. Len(m_queueData) :
           m_queueData[i].full <=> handed[m_queueData[i].id] = 0

(* While some reader sleeps, each queued element has a reader that was     *)
(* woken for it, or a notification on its way: unless a notified front or  *)
(* back left its element behind and kept the only notification.            *)
NoReaderStranded ==
    Waiting(Readers) # {} /\ ~ swallowed =>
        Len(m_queueData) <= Cardinality(Woken(Readers)) + Cardinality(At("notifyRead"))

(* While some pusher sleeps, each free place has a pusher that was woken   *)
(* for it, or a notification on its way: unless the queue is stopped, when *)
(* all are woken.                                                          *)
NoWriterStranded ==
    Waiting({"push"}) # {} /\ ~ m_bStop =>
        m_uCapSize - Len(m_queueData)
            <= Cardinality(Woken({"push"})) + Cardinality(At("notifyWrite"))

(* No notification is lost between the two sides.                          *)
NobodyStranded == NoReaderStranded /\ NoWriterStranded

(* "After wakeup all pop and push return at once and block no more": from  *)
(* some time after wakeup on nobody sleeps.                                *)
NobodySleepsAfterWakeup == m_bStop ~> [](At("wait") = {})

(* The queue is a bounded channel, of the largest capacity it is given.    *)
Largest == CHOOSE c \in Capacities : \A d \in Capacities : d <= c

Promise == INSTANCE Channel
               WITH Capacity <- Largest,
                    sent <- accepted,
                    received <- accepted - Len(m_queueData)

ImplementsChannel == Promise!Spec
==============================================================================
