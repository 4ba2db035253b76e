-------------------------------- MODULE Event --------------------------------
(***************************************************************************)
(* The event of Common/event.h where pthread builds it: a flag under a     *)
(* mutex and a condition variable.  Calls hold the mutex except while they *)
(* wait, and eventSet notifies under it, so a call is one step, or one to  *)
(* the wait and one per wake-up.  No pthread call fails here.              *)
(***************************************************************************)
EXTENDS Integers, FiniteSets

CONSTANTS
    Waiters,
    MaxSets,        \* bound: calls of eventSet and eventReset
    MaxWaits,       \* bound: calls of a wait
    MaxSurprises    \* bound: wake-ups that nobody sent

VARIABLES
    bManualReset, bState,
    waiter,         \* where each thread is
    returned,       \* what the last wait of each thread returned
    credit,         \* auto-reset: signals given since the last reset less waits passed
    timed,          \* history: some wait with a time limit went to sleep
    waits, sets, surprises   \* calls and wake-ups so far

eventVars == <<bManualReset, bState, waiter, returned, credit, timed, waits, sets, surprises>>

Asleep == {"wait", "timedWait"}
WokenUp == {"waitWoken", "timedWoken"}

EventInit ==
    /\ bManualReset \in BOOLEAN /\ bState \in BOOLEAN
    /\ waiter = [t \in Waiters |-> "out"]
    /\ returned = [t \in Waiters |-> "none"]
    /\ waits = 0 /\ sets = 0 /\ surprises = 0
    /\ credit = IF bState THEN 1 ELSE 0
    /\ timed = FALSE

Return(t, result) ==
    /\ waiter' = [waiter EXCEPT ![t] = "out"]
    /\ returned' = [returned EXCEPT ![t] = result]

(* A wait that succeeds takes the signal of an auto-reset event.           *)
AfterTakingLeft == bState   \* mutant: the signal stays
AfterTaking == bState /\ bManualReset

Take(t) ==
    /\ bState' = AfterTaking
    /\ credit' = IF bManualReset THEN credit ELSE credit - 1
    /\ Return(t, "success")

Enter(t, place) ==
    /\ waiter[t] = "out" /\ waits < MaxWaits
    /\ waits' = waits + 1
    /\ \/ bState /\ Take(t) /\ UNCHANGED timed
       \/ /\ ~bState
          /\ waiter' = [waiter EXCEPT ![t] = place]
          /\ timed' = (timed \/ place = "timedWait")
          /\ UNCHANGED <<bState, returned, credit>>
    /\ UNCHANGED <<bManualReset, sets, surprises>>

(* eventWait tests the flag again after every wake-up.                     *)
eventWait(t) ==
    \/ Enter(t, "wait")
    \/ /\ waiter[t] = "waitWoken"
       /\ \/ bState /\ Take(t)
          \/ /\ ~bState
             /\ waiter' = [waiter EXCEPT ![t] = "wait"]
             /\ UNCHANGED <<bState, returned, credit>>
       /\ UNCHANGED <<bManualReset, timed, waits, sets, surprises>>

(* eventWaitTimeOut returns after its one wait: 1 when the time ran out,   *)
(* whatever the flag says, and -1 when it was woken in time.               *)
eventWaitTimeOut(t) ==
    \/ Enter(t, "timedWait")
    \/ /\ \/ waiter[t] = "timedWait" /\ Return(t, "timeout")
          \/ waiter[t] = "timedWoken" /\ Return(t, "error")
       /\ UNCHANGED <<bManualReset, bState, credit, timed, waits, sets, surprises>>

Wake(place) == IF place = "wait" THEN "waitWoken" ELSE "timedWoken"

(* Whom eventSet may wake: broadcast on a manual-reset event, signal on an *)
(* auto-reset one.                                                         *)
Sleeping == {t \in Waiters : waiter[t] \in Asleep}

SignalledOne ==   \* mutant: signal on both kinds
    IF Sleeping = {} THEN {{}} ELSE {{t} : t \in Sleeping}
Signalled ==
    IF bManualReset \/ Sleeping = {} THEN {Sleeping} ELSE {{t} : t \in Sleeping}

eventSet ==
    /\ sets < MaxSets /\ sets' = sets + 1
    /\ bState' = TRUE
    /\ credit' = IF bManualReset THEN credit ELSE credit + 1
    /\ \E group \in Signalled :
          waiter' = [t \in Waiters |-> IF t \in group THEN Wake(waiter[t]) ELSE waiter[t]]
    /\ UNCHANGED <<bManualReset, returned, timed, waits, surprises>>

eventReset ==
    /\ sets < MaxSets /\ sets' = sets + 1
    /\ bState' = FALSE
    /\ credit' = IF bManualReset THEN credit ELSE 0
    /\ UNCHANGED <<bManualReset, waiter, returned, timed, waits, surprises>>

EventWakeup(t) ==
    /\ waiter[t] \in Asleep /\ surprises < MaxSurprises
    /\ surprises' = surprises + 1
    /\ waiter' = [waiter EXCEPT ![t] = Wake(@)]
    /\ UNCHANGED <<bManualReset, bState, returned, credit, timed, waits, sets>>

EventNext ==
    \/ \E t \in Waiters : eventWait(t) \/ eventWaitTimeOut(t) \/ EventWakeup(t)
    \/ eventSet \/ eventReset

(* A woken thread runs on.                                                 *)
EventContinue(t) == waiter[t] \in WokenUp /\ (eventWait(t) \/ eventWaitTimeOut(t))

EventSpec == EventInit /\ [][EventNext]_eventVars

-----------------------------------------------------------------------------
(* An auto-reset event lets through no more waits than it was set since the*)
(* last reset, whoever was woken and in whatever order they run on.        *)
OneWaitPerSet == ~bManualReset => credit >= IF bState THEN 1 ELSE 0

(* Nobody sleeps through an event that stays set, as long as no wait with a*)
(* time limit is about: eventSet may wake that one, which returns without  *)
(* taking the signal, and the others sleep on.                             *)
SetReaches(t) ==
    waiter[t] = "wait" /\ bState /\ ~timed ~> waiter[t] # "wait" \/ ~bState \/ timed

(* What the comments in eventWaitTimeOut say: 1 is the time-out, 0 success.*)
WokenIsSuccess == \A t \in Waiters : returned[t] # "error"
=============================================================================
