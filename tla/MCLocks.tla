------------------------------ MODULE MCLocks ------------------------------
(***************************************************************************)
(* Instances for TLC of the parts that threads wait in: the blocking queue *)
(* (two producers and two consumers, who make all calls between them), the *)
(* reader-writer lock, the event, and the launching of programs.  One run  *)
(* for all: the initial state names the part at work, and only that one    *)
(* moves, so that their states add up.                                     *)
(***************************************************************************)
EXTENDS LockQueue, RwLock, Event, Launch

CONSTANTS p1, p2, c1, c2, u1    \* u1 is a user of the lock and waits for the event

SomeCalls ==
    [t \in Threads |-> CASE t = p1 -> {"push", "setSpaces"}
                         [] t = p2 -> {"push", "wakeup"}
                         [] t = c1 -> {"front", "pop_front"}
                         [] t = c2 -> {"back", "pop"}]

VARIABLE part

allVars == <<part, vars, rwLockVars, eventVars, launchVars>>

(* A part that is not at work starts in one state only.                    *)
Large(cap) == \A c \in Capacities : c <= cap

LocksInit ==
    /\ part \in {"queue", "lock", "event", "launch"}
    /\ Init /\ (part # "queue" => Large(m_uCapSize))
    /\ LockInit
    /\ EventInit /\ (part # "event" => bState /\ bManualReset)
    /\ LaunchInit

InQueue(step) == part = "queue" /\ step /\ UNCHANGED <<part, rwLockVars, eventVars, launchVars>>
InLock(step) == part = "lock" /\ step /\ UNCHANGED <<part, vars, eventVars, launchVars>>
InEvent(step) == part = "event" /\ step /\ UNCHANGED <<part, vars, rwLockVars, launchVars>>
InLaunch(step) == part = "launch" /\ step /\ UNCHANGED <<part, vars, rwLockVars, eventVars>>

LocksNext == 
    InQueue(Next) \/ InLock(LockNext) \/ InEvent(EventNext) \/ InLaunch(LaunchNext)

(* A thread that is not blocked goes on with its call; one that holds the  *)
(* lock lets go of it.  A process that is not waiting goes on to exec or to*)
(* its end; a program need not end.                                        *)
LocksSpec ==
    /\ LocksInit /\ [][LocksNext]_allVars
    /\ \A t \in Threads : WF_allVars(InQueue(Continue(t)))
    /\ \A u \in Users : WF_allVars(InLock(LockContinue(u)))
    /\ \A u \in Waiters : WF_allVars(InEvent(EventContinue(u)))
    /\ \A p \in Pids : WF_allVars(InLaunch(LaunchContinue(p)))

-----------------------------------------------------------------------------
(* The users of the lock, and the threads at the event, are interchangeable*)
(* each among themselves: what is asked of all is asked of one.            *)

(* Lock: every call returns.  Launch: one that does not wait for the       *)
(* program returns.                                                        *)
CallsReturn == CallReturns(u1) /\ LaunchReturns

(* Event: nobody sleeps through a set event, time-limited waits apart.     *)
SetReachesWaiters == SetReaches(u1)
=============================================================================
