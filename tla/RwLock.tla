------------------------------- MODULE RwLock -------------------------------
(***************************************************************************)
(* RwLock of Common/RwLock.cpp, the branch that builds the lock itself: a  *)
(* mutex, two condition variables and three counters (the other branches   *)
(* wrap pthread_rwlock_t and std::shared_mutex).  Every call holds the     *)
(* mutex except while it waits, and notifies under it, so a call is one    *)
(* step, or one to the wait and one per wake-up.                           *)
(***************************************************************************)
EXTENDS Integers, FiniteSets

CONSTANTS
    Users,
    MaxCalls,       \* bound: times a thread takes the lock
    MaxWakeups      \* bound: wake-ups that nobody sent

VARIABLES
    m_iReadCnt, m_iWritCnt, m_iWaitingWriters,
    user,       \* where each thread is
    calls,      \* calls each thread made
    wakeups

rwLockVars == <<m_iReadCnt, m_iWritCnt, m_iWaitingWriters, user, calls, wakeups>>

Places == {"out", "reading", "writing", "readCond", "writeCond", "readWoken", "writeWoken"}

UsersIn(p) == {t \in Users : user[t] = p}

LockInit ==
    /\ m_iReadCnt = 0 /\ m_iWritCnt = 0 /\ m_iWaitingWriters = 0
    /\ user = [t \in Users |-> "out"]
    /\ calls = [t \in Users |-> 0]
    /\ wakeups = 0

Begin(t) ==
    /\ user[t] = "out" /\ calls[t] < MaxCalls
    /\ calls' = [calls EXCEPT ![t] = @ + 1]

ReadersWaitForWaiting == m_iWaitingWriters > 0   \* mutant: the writer inside is forgotten
ReadersWait == m_iWritCnt > 0 \/ m_iWaitingWriters > 0
WritersWait == m_iReadCnt > 0 \/ m_iWritCnt > 0

(* The loop of readLock: from the call, or woken on m_cvReadCond.          *)
readLock(t) ==
    /\ \/ Begin(t)
       \/ user[t] = "readWoken" /\ UNCHANGED calls
    /\ \/ /\ ReadersWait
          /\ user' = [user EXCEPT ![t] = "readCond"]
          /\ UNCHANGED m_iReadCnt
       \/ /\ ~ReadersWait
          /\ m_iReadCnt' = m_iReadCnt + 1
          /\ user' = [user EXCEPT ![t] = "reading"]
    /\ UNCHANGED <<m_iWritCnt, m_iWaitingWriters, wakeups>>

(* The loop of writeLock; a waiting writer stays counted until it is in.   *)
writeLock(t) ==
    /\ \/ Begin(t)
       \/ user[t] = "writeWoken" /\ UNCHANGED calls
    /\ LET waiting == m_iWaitingWriters + IF user[t] = "out" THEN 1 ELSE 0 IN
       \/ /\ WritersWait
          /\ m_iWaitingWriters' = waiting
          /\ user' = [user EXCEPT ![t] = "writeCond"]
          /\ UNCHANGED m_iWritCnt
       \/ /\ ~WritersWait
          /\ m_iWaitingWriters' = waiting - 1
          /\ m_iWritCnt' = m_iWritCnt + 1
          /\ user' = [user EXCEPT ![t] = "writing"]
    /\ UNCHANGED <<m_iReadCnt, wakeups>>

(* t leaves, and one sleeping writer is woken, if there is one.            *)
NotifyNoWriter(t) == user' = [user EXCEPT ![t] = "out"]   \* mutant: no notification
NotifyWriter(t) ==
    LET left == [user EXCEPT ![t] = "out"] IN
    \/ UsersIn("writeCond") = {} /\ user' = left
    \/ \E w \in UsersIn("writeCond") : user' = [left EXCEPT ![w] = "writeWoken"]

NotifyOneReader(t) ==   \* mutant: notify_one for notify_all
    LET left == [user EXCEPT ![t] = "out"] IN
    \/ UsersIn("readCond") = {} /\ user' = left
    \/ \E r \in UsersIn("readCond") : user' = [left EXCEPT ![r] = "readWoken"]
NotifyAllReaders(t) ==
    user' = [r \in Users |-> CASE r = t -> "out"
                               [] user[r] = "readCond" -> "readWoken"
                               [] OTHER -> user[r]]

readUnlock(t) ==
    /\ user[t] = "reading"
    /\ m_iReadCnt' = m_iReadCnt - 1
    /\ IF m_iReadCnt = 1 /\ m_iWaitingWriters > 0
       THEN NotifyWriter(t)
       ELSE user' = [user EXCEPT ![t] = "out"]
    /\ UNCHANGED <<m_iWritCnt, m_iWaitingWriters, calls, wakeups>>

writeUnlock(t) ==
    /\ user[t] = "writing"
    /\ m_iWritCnt' = m_iWritCnt - 1
    /\ IF m_iWaitingWriters > 0 THEN NotifyWriter(t) ELSE NotifyAllReaders(t)
    /\ UNCHANGED <<m_iReadCnt, m_iWaitingWriters, calls, wakeups>>

LockWakeup(t) ==
    /\ wakeups < MaxWakeups
    /\ wakeups' = wakeups + 1
    /\ \/ user[t] = "readCond" /\ user' = [user EXCEPT ![t] = "readWoken"]
       \/ user[t] = "writeCond" /\ user' = [user EXCEPT ![t] = "writeWoken"]
    /\ UNCHANGED <<m_iReadCnt, m_iWritCnt, m_iWaitingWriters, calls>>

(* What a thread does once it has called: run on when woken, and unlock.   *)
LockContinue(t) ==
    \/ user[t] = "readWoken" /\ readLock(t)
    \/ user[t] = "writeWoken" /\ writeLock(t)
    \/ readUnlock(t)
    \/ writeUnlock(t)

LockNext == \E t \in Users :
    readLock(t) \/ writeLock(t) \/ readUnlock(t) \/ writeUnlock(t) \/ LockWakeup(t)

LockSpec == LockInit /\ [][LockNext]_rwLockVars

-----------------------------------------------------------------------------
LockTypeOK ==
    /\ m_iReadCnt \in Int /\ m_iWritCnt \in Int /\ m_iWaitingWriters \in Int
    /\ user \in [Users -> Places]
    /\ calls \in [Users -> Nat]
    /\ wakeups \in Nat

(* The counters the waits test are the threads they stand for.             *)
WaitingWriters == UsersIn("writeCond") \cup UsersIn("writeWoken")

CountersExact ==
    /\ m_iReadCnt = Cardinality(UsersIn("reading"))
    /\ m_iWritCnt = Cardinality(UsersIn("writing"))
    /\ m_iWaitingWriters = Cardinality(WaitingWriters)

(* A reader is never inside with a writer, nor two writers.                *)
ReadersWritersApart ==
    /\ UsersIn("writing") # {} => UsersIn("reading") = {}
    /\ \A t, u \in UsersIn("writing") : t = u

(* Somebody asleep has somebody awake to count on: a writer sleeps only    *)
(* while the lock is held or another writer is on its way in, a reader only*)
(* while a writer holds the lock or waits for it.                          *)
NobodyForgotten ==
    /\ UsersIn("writeCond") # {} =>
           UsersIn("reading") \cup UsersIn("writing") \cup UsersIn("writeWoken") # {}
    /\ UsersIn("readCond") # {} =>
           UsersIn("writing") \cup UsersIn("writeCond") \cup UsersIn("writeWoken") # {}

(* The counters say who is in and who waits, and nobody who waits has been *)
(* passed over by a release.                                               *)
LockSound == CountersExact /\ NobodyForgotten

(* The inductive invariant: what the sets of threads need besides, to be   *)
(* counted.                                                                *)
IInv ==
    /\ LockTypeOK
    /\ IsFiniteSet(UsersIn("reading")) /\ IsFiniteSet(UsersIn("writing")) /\ IsFiniteSet(WaitingWriters)
    /\ CountersExact
    /\ ReadersWritersApart
    /\ NobodyForgotten

(* Nobody waits for ever, given that everyone inside unlocks: with calls   *)
(* bounded, no wake-up is lost and the two conditions cannot wait for each *)
(* other.                                                                  *)
CallReturns(t) ==
    user[t] \in {"readCond", "readWoken", "writeCond", "writeWoken"}
        ~> user[t] \in {"reading", "writing"}

Lock == INSTANCE ReadersWriters WITH
    Threads <- Users, readers <- UsersIn("reading"), writers <- UsersIn("writing")

ImplementsReadersWriters == Lock!Spec
=============================================================================
