----------------------------- MODULE LocksProof -----------------------------
(***************************************************************************)
(* The parts that threads and processes wait in, for any number of them    *)
(* and any number of calls.                                                *)
(*                                                                         *)
(* The reader-writer lock: its counters are exact, a release passes nobody *)
(* over, and it implements the abstract lock.  The proof follows the sets  *)
(* of threads that read, write and wait through each step.  The auto-reset *)
(* event: it lets no more waits through than it was set.  Launching: what  *)
(* is forked comes to an end or to its program, and leaves one application.*)
(* The blocking queue, for any capacities and values: it hands values on in*)
(* their order, once each, strands nobody, and implements a channel.       *)
(***************************************************************************)
EXTENDS LockQueue, RwLock, Event, Launch, FiniteSetTheorems, TLAPS

Reading == UsersIn("reading")
Writing == UsersIn("writing")

(* Counting a set that gains or loses one member.                          *)
LEMMA Gains ==
    ASSUME NEW S, NEW t, IsFiniteSet(S), t \notin S
    PROVE  IsFiniteSet(S \cup {t}) /\ Cardinality(S \cup {t}) = Cardinality(S) + 1
  BY FS_AddElement

LEMMA Loses ==
    ASSUME NEW S, NEW t, IsFiniteSet(S), t \in S
    PROVE  IsFiniteSet(S \ {t}) /\ Cardinality(S \ {t}) = Cardinality(S) - 1
  BY FS_RemoveElement

LEMMA Counted ==
    ASSUME NEW S, IsFiniteSet(S)
    PROVE  Cardinality(S) \in Nat /\ (Cardinality(S) > 0 <=> S # {})
  BY FS_EmptySet, FS_CardinalityType

(* What the waits test.                                                    *)
LEMMA Tests ==
    ASSUME IInv
    PROVE  /\ ReadersWait <=> Writing # {} \/ WaitingWriters # {}
           /\ WritersWait <=> Reading # {} \/ Writing # {}
           /\ m_iWaitingWriters > 0 <=> WaitingWriters # {}
  <1>1. m_iReadCnt > 0 <=> Reading # {}
    BY Counted DEF IInv, CountersExact, Reading
  <1>2. m_iWritCnt > 0 <=> Writing # {}
    BY Counted DEF IInv, CountersExact, Writing
  <1>3. m_iWaitingWriters > 0 <=> WaitingWriters # {}
    BY Counted DEF IInv, CountersExact
  <1> QED
    BY <1>1, <1>2, <1>3 DEF ReadersWait, WritersWait

(* Before the first call everyone is out.                                  *)
LEMMA InitIInv == LockInit => IInv
  <1> SUFFICES ASSUME LockInit PROVE IInv
    OBVIOUS
  <1>1. \A p \in Places : p # "out" => UsersIn(p) = {}
    BY DEF LockInit, UsersIn
  <1>2. UsersIn("reading") = {} /\ UsersIn("writing") = {} /\ WaitingWriters = {}
        /\ UsersIn("readCond") = {} /\ UsersIn("writeCond") = {}
    BY <1>1 DEF Places, WaitingWriters
  <1>3. LockTypeOK
    BY DEF LockInit, LockTypeOK, Places
  <1> QED
    BY <1>2, <1>3, FS_EmptySet
    DEF LockInit, IInv, CountersExact, ReadersWritersApart, NobodyForgotten

(* A reader that has to wait.                                              *)
LEMMA ReaderSleeps ==
    ASSUME IInv, NEW t \in Users, user[t] \in {"out", "readWoken"}, ReadersWait,
           user' = [user EXCEPT ![t] = "readCond"],
           UNCHANGED <<m_iReadCnt, m_iWritCnt, m_iWaitingWriters>>, LockTypeOK'
    PROVE  IInv'
  <1>1. /\ Reading' = Reading /\ Writing' = Writing /\ WaitingWriters' = WaitingWriters
        /\ UsersIn("writeCond")' = UsersIn("writeCond")
        /\ UsersIn("writeWoken")' = UsersIn("writeWoken")
    BY DEF IInv, LockTypeOK, UsersIn, Reading, Writing, WaitingWriters
  <1>2. Writing # {} \/ WaitingWriters # {}
    BY Tests
  <1> QED
    BY <1>1, <1>2 DEF IInv, CountersExact, ReadersWritersApart, NobodyForgotten,
                      Reading, Writing, WaitingWriters

(* A reader that comes in.                                                 *)
LEMMA ReaderEnters ==
    ASSUME IInv, NEW t \in Users, user[t] \in {"out", "readWoken"}, ~ReadersWait,
           user' = [user EXCEPT ![t] = "reading"], m_iReadCnt' = m_iReadCnt + 1,
           UNCHANGED <<m_iWritCnt, m_iWaitingWriters>>, LockTypeOK'
    PROVE  IInv'
  <1>1. /\ Reading' = Reading \cup {t} /\ t \notin Reading
        /\ Writing' = Writing /\ WaitingWriters' = WaitingWriters
        /\ UsersIn("writeCond")' = UsersIn("writeCond")
        /\ UsersIn("readCond")' = UsersIn("readCond")
    BY DEF IInv, LockTypeOK, UsersIn, Reading, Writing, WaitingWriters
  <1>2. Writing = {} /\ WaitingWriters = {}
    BY Tests
  <1>3. IsFiniteSet(Reading') /\ Cardinality(Reading') = Cardinality(Reading) + 1
    BY <1>1, Gains DEF IInv, Reading
  <1>4. CountersExact'
    BY <1>1, <1>3 DEF IInv, CountersExact, Reading, Writing
  <1>5. ReadersWritersApart' /\ NobodyForgotten'
    BY <1>1, <1>2 DEF IInv, ReadersWritersApart, NobodyForgotten, Reading, Writing, WaitingWriters
  <1> QED
    BY <1>1, <1>3, <1>4, <1>5 DEF IInv, Reading, Writing

(* A writer that has to wait: it is counted once, however often it wakes.  *)
LEMMA WriterSleeps ==
    ASSUME IInv, NEW t \in Users, user[t] \in {"out", "writeWoken"}, WritersWait,
           user' = [user EXCEPT ![t] = "writeCond"],
           m_iWaitingWriters' = m_iWaitingWriters + (IF user[t] = "out" THEN 1 ELSE 0),
           UNCHANGED <<m_iReadCnt, m_iWritCnt>>, LockTypeOK'
    PROVE  IInv'
  <1>1. /\ Reading' = Reading /\ Writing' = Writing
        /\ WaitingWriters' = WaitingWriters \cup {t}
        /\ t \in UsersIn("writeCond")'
        /\ t \in WaitingWriters <=> user[t] # "out"
    BY DEF IInv, LockTypeOK, UsersIn, Reading, Writing, WaitingWriters
  <1>2. Reading # {} \/ Writing # {}
    BY Tests
  <1>3. IsFiniteSet(WaitingWriters') /\ m_iWaitingWriters' = Cardinality(WaitingWriters')
    <2>1. CASE user[t] = "out"
      BY <1>1, <2>1, Gains DEF IInv, CountersExact
    <2>2. CASE user[t] = "writeWoken"
      <3>1. WaitingWriters' = WaitingWriters
        BY <1>1, <2>2
      <3> QED
        BY <2>2, <3>1 DEF IInv, CountersExact, LockTypeOK
    <2> QED
      BY <2>1, <2>2
  <1>4. CountersExact'
    BY <1>1, <1>3 DEF IInv, CountersExact, Reading, Writing
  <1>5. ReadersWritersApart' /\ NobodyForgotten'
    BY <1>1, <1>2 DEF IInv, ReadersWritersApart, NobodyForgotten, Reading, Writing
  <1> QED
    BY <1>1, <1>3, <1>4, <1>5 DEF IInv, Reading, Writing

(* A writer that comes in.                                                 *)
LEMMA WriterEnters ==
    ASSUME IInv, NEW t \in Users, user[t] \in {"out", "writeWoken"}, ~WritersWait,
           user' = [user EXCEPT ![t] = "writing"], m_iWritCnt' = m_iWritCnt + 1,
           m_iWaitingWriters' = m_iWaitingWriters + (IF user[t] = "out" THEN 0 ELSE -1),
           UNCHANGED m_iReadCnt, LockTypeOK'
    PROVE  IInv'
  <1>1. /\ Reading' = Reading /\ Writing' = Writing \cup {t} /\ t \notin Writing
        /\ WaitingWriters' = WaitingWriters \ {t}
        /\ UsersIn("writeCond")' = UsersIn("writeCond")
        /\ t \in WaitingWriters <=> user[t] # "out"
    BY DEF IInv, LockTypeOK, UsersIn, Reading, Writing, WaitingWriters
  <1>2. Reading = {} /\ Writing = {}
    BY Tests
  <1>3. IsFiniteSet(Writing') /\ Cardinality(Writing') = Cardinality(Writing) + 1
    BY <1>1, Gains DEF IInv, Writing
  <1>4. IsFiniteSet(WaitingWriters') /\ m_iWaitingWriters' = Cardinality(WaitingWriters')
    <2>1. CASE user[t] = "out"
      <3>1. WaitingWriters' = WaitingWriters
        BY <1>1, <2>1
      <3> QED
        BY <2>1, <3>1 DEF IInv, CountersExact, LockTypeOK
    <2>2. CASE user[t] = "writeWoken"
      <3>1. IsFiniteSet(WaitingWriters \ {t}) /\ Cardinality(WaitingWriters \ {t}) = Cardinality(WaitingWriters) - 1
        BY <1>1, <2>2, Loses DEF IInv
      <3> QED
        BY <1>1, <2>2, <3>1 DEF IInv, CountersExact, LockTypeOK
    <2> QED
      BY <2>1, <2>2
  <1>5. CountersExact'
    BY <1>1, <1>3, <1>4 DEF IInv, CountersExact, Reading, Writing
  <1>6. ReadersWritersApart' /\ NobodyForgotten'
    BY <1>1, <1>2 DEF IInv, ReadersWritersApart, NobodyForgotten, Reading, Writing
  <1> QED
    BY <1>1, <1>3, <1>4, <1>5, <1>6 DEF IInv, Reading, Writing

-----------------------------------------------------------------------------
(* What a release does to the sleepers: the one who leaves is out, some of *)
(* the sleepers are woken, nobody else moves.                              *)
Released(t) ==
    /\ user' \in [Users -> Places]
    /\ user'[t] = "out"
    /\ \A u \in Users \ {t} :
          \/ user'[u] = user[u]
          \/ user[u] = "writeCond" /\ user'[u] = "writeWoken"
          \/ user[u] = "readCond" /\ user'[u] = "readWoken"

LEMMA WriterNotified ==
    ASSUME IInv, NEW t \in Users, user[t] \in {"reading", "writing"}, NotifyWriter(t)
    PROVE  /\ Released(t)
           /\ WaitingWriters # {} => \E w \in Users : user'[w] = "writeWoken"
           /\ \A u \in Users : user[u] = "readCond" => user'[u] = "readCond"
  <1>1. CASE UsersIn("writeCond") = {} /\ user' = [user EXCEPT ![t] = "out"]
    BY <1>1 DEF IInv, LockTypeOK, Released, Places, WaitingWriters, UsersIn
  <1>2. ASSUME NEW w \in UsersIn("writeCond"),
               user' = [[user EXCEPT ![t] = "out"] EXCEPT ![w] = "writeWoken"]
        PROVE  /\ Released(t)
               /\ \E v \in Users : user'[v] = "writeWoken"
               /\ \A u \in Users : user[u] = "readCond" => user'[u] = "readCond"
    BY <1>2 DEF IInv, LockTypeOK, Released, Places, UsersIn
  <1> QED
    BY <1>1, <1>2 DEF NotifyWriter

LEMMA ReadersNotified ==
    ASSUME IInv, NEW t \in Users, user[t] = "writing", NotifyAllReaders(t)
    PROVE  Released(t) /\ \A u \in Users : user'[u] # "readCond"
  BY DEF IInv, LockTypeOK, Released, Places, NotifyAllReaders

(* The sets after a release: waking moves writers within Waiting.          *)
LEMMA AfterRelease ==
    ASSUME IInv, NEW t \in Users, user[t] \in {"reading", "writing"}, Released(t)
    PROVE  /\ Reading' = Reading \ {t} /\ Writing' = Writing \ {t} /\ WaitingWriters' = WaitingWriters
           /\ UsersIn("writeCond")' \subseteq UsersIn("writeCond")
           /\ UsersIn("readCond")' \subseteq UsersIn("readCond")
  BY DEF IInv, LockTypeOK, Released, UsersIn, Reading, Writing, WaitingWriters

LEMMA ReaderLeaves ==
    ASSUME IInv, NEW t \in Users, readUnlock(t), LockTypeOK'
    PROVE  IInv'
  <1>1. t \in Reading /\ Writing = {} /\ user[t] = "reading"
    BY DEF readUnlock, IInv, ReadersWritersApart, Reading, Writing, UsersIn
  <1>2. Released(t)
    <2>1. CASE m_iReadCnt = 1 /\ m_iWaitingWriters > 0
      BY <1>1, <2>1, WriterNotified DEF readUnlock
    <2>2. CASE ~(m_iReadCnt = 1 /\ m_iWaitingWriters > 0)
      BY <2>2 DEF readUnlock, Released, IInv, LockTypeOK, Places
    <2> QED
      BY <2>1, <2>2
  <1>3. /\ Reading' = Reading \ {t} /\ Writing' = {} /\ WaitingWriters' = WaitingWriters
        /\ UsersIn("writeCond")' \subseteq UsersIn("writeCond")
        /\ UsersIn("readCond")' \subseteq UsersIn("readCond")
    BY <1>1, <1>2, AfterRelease
  <1>4. IsFiniteSet(Reading') /\ Cardinality(Reading') = Cardinality(Reading) - 1
    BY <1>1, <1>3, Loses DEF IInv, Reading
  <1>5. CountersExact'
    BY <1>1, <1>3, <1>4 DEF readUnlock, IInv, CountersExact, Reading, Writing
  <1>6. ReadersWritersApart'
    BY <1>3 DEF ReadersWritersApart, Writing
  <1>7. UsersIn("writeCond")' # {} => Reading' \cup UsersIn("writeWoken")' # {}
    <2>1. CASE m_iReadCnt = 1
      <3> SUFFICES ASSUME WaitingWriters # {} PROVE UsersIn("writeWoken")' # {}
        BY <1>3 DEF WaitingWriters
      <3>1. m_iWaitingWriters > 0
        BY Tests
      <3>2. \E w \in Users : user'[w] = "writeWoken"
        BY <1>1, <2>1, <3>1, WriterNotified DEF readUnlock
      <3> QED
        BY <3>2 DEF UsersIn
    <2>2. CASE m_iReadCnt # 1
      <3>1. m_iReadCnt' # 0
        BY <2>2 DEF readUnlock, IInv, LockTypeOK
      <3>2. Cardinality(Reading') # 0
        BY <1>5, <3>1 DEF CountersExact, Reading
      <3> QED
        BY <3>2, FS_EmptySet
    <2> QED
      BY <2>1, <2>2
  <1>8. UsersIn("readCond")' # {} => WaitingWriters' # {}
    BY <1>1, <1>3 DEF IInv, NobodyForgotten, WaitingWriters, Writing
  <1>9. NobodyForgotten'
    BY <1>7, <1>8 DEF NobodyForgotten, Reading, WaitingWriters
  <1> QED
    BY <1>1, <1>3, <1>4, <1>5, <1>6, <1>9 DEF IInv, Reading, Writing

LEMMA WriterLeaves ==
    ASSUME IInv, NEW t \in Users, writeUnlock(t), LockTypeOK'
    PROVE  IInv'
  <1>1. t \in Writing /\ Writing = {t} /\ Reading = {} /\ user[t] = "writing"
    BY DEF writeUnlock, IInv, ReadersWritersApart, Reading, Writing, UsersIn
  <1>2. Released(t)
    BY <1>1, WriterNotified, ReadersNotified DEF writeUnlock
  <1>3. /\ Reading' = {} /\ Writing' = {} /\ WaitingWriters' = WaitingWriters
        /\ Writing' = Writing \ {t}
        /\ UsersIn("writeCond")' \subseteq UsersIn("writeCond")
    BY <1>1, <1>2, AfterRelease
  <1>4. IsFiniteSet(Writing') /\ Cardinality(Writing') = Cardinality(Writing) - 1
    BY <1>1, <1>3, Loses DEF IInv, Writing
  <1>5. CountersExact'
    BY <1>1, <1>3, <1>4 DEF writeUnlock, IInv, CountersExact, Reading, Writing
  <1>6. ReadersWritersApart'
    BY <1>3 DEF ReadersWritersApart, Writing
  <1>7. NobodyForgotten'
    <2>1. CASE m_iWaitingWriters > 0
      <3>1. \E w \in Users : user'[w] = "writeWoken"
        BY <1>1, <2>1, WriterNotified, Tests DEF writeUnlock
      <3> QED
        BY <3>1 DEF NobodyForgotten, UsersIn
    <2>2. CASE ~(m_iWaitingWriters > 0)
      <3>1. WaitingWriters = {}
        BY <2>2, Tests
      <3>2. UsersIn("readCond")' = {}
        BY <1>1, <2>2, ReadersNotified DEF writeUnlock, UsersIn
      <3> QED
        BY <1>3, <3>1, <3>2 DEF NobodyForgotten, WaitingWriters
    <2> QED
      BY <2>1, <2>2
  <1> QED
    BY <1>1, <1>3, <1>4, <1>5, <1>6, <1>7 DEF IInv, Reading, Writing

LEMMA SleeperWakes ==
    ASSUME IInv, NEW t \in Users, LockWakeup(t), LockTypeOK'
    PROVE  IInv'
  <1>1. /\ Reading' = Reading /\ Writing' = Writing /\ WaitingWriters' = WaitingWriters
        /\ UsersIn("writeCond")' \subseteq UsersIn("writeCond")
        /\ UsersIn("readCond")' \subseteq UsersIn("readCond")
        /\ UsersIn("writeWoken") \subseteq UsersIn("writeWoken")'
    BY DEF LockWakeup, IInv, LockTypeOK, UsersIn, Reading, Writing, WaitingWriters
  <1>2. UNCHANGED <<m_iReadCnt, m_iWritCnt, m_iWaitingWriters>>
    BY DEF LockWakeup
  <1>3. NobodyForgotten'
    BY <1>1 DEF IInv, NobodyForgotten, Reading, Writing, WaitingWriters
  <1> QED
    BY <1>1, <1>2, <1>3 DEF IInv, CountersExact, ReadersWritersApart, Reading, Writing

(* The calls, as the cases above.                                          *)
LEMMA ReadLockCases ==
    ASSUME NEW t \in Users, readLock(t)
    PROVE  /\ user[t] \in {"out", "readWoken"}
           /\ \/ /\ ReadersWait /\ user' = [user EXCEPT ![t] = "readCond"]
                 /\ UNCHANGED <<m_iReadCnt, m_iWritCnt, m_iWaitingWriters>>
              \/ /\ ~ReadersWait /\ user' = [user EXCEPT ![t] = "reading"]
                 /\ m_iReadCnt' = m_iReadCnt + 1
                 /\ UNCHANGED <<m_iWritCnt, m_iWaitingWriters>>
  BY DEF readLock, Begin

LEMMA WriteLockCases ==
    ASSUME IInv, NEW t \in Users, writeLock(t)
    PROVE  /\ user[t] \in {"out", "writeWoken"}
           /\ \/ /\ WritersWait /\ user' = [user EXCEPT ![t] = "writeCond"]
                 /\ m_iWaitingWriters' = m_iWaitingWriters + (IF user[t] = "out" THEN 1 ELSE 0)
                 /\ UNCHANGED <<m_iReadCnt, m_iWritCnt>>
              \/ /\ ~WritersWait /\ user' = [user EXCEPT ![t] = "writing"]
                 /\ m_iWaitingWriters' = m_iWaitingWriters + (IF user[t] = "out" THEN 0 ELSE -1)
                 /\ m_iWritCnt' = m_iWritCnt + 1
                 /\ UNCHANGED m_iReadCnt
  <1>1. user[t] \in {"out", "writeWoken"}
    BY DEF writeLock, Begin
  <1>2. CASE WritersWait
    BY <1>1, <1>2 DEF writeLock
  <1>3. CASE ~WritersWait
    BY <1>1, <1>3 DEF writeLock, IInv, LockTypeOK
  <1> QED
    BY <1>1, <1>2, <1>3

LEMMA StepTypeOK == IInv /\ [LockNext]_rwLockVars => LockTypeOK'
  <1> SUFFICES ASSUME IInv, [LockNext]_rwLockVars PROVE LockTypeOK'
    OBVIOUS
  <1>1. ASSUME NEW t \in Users, readLock(t) PROVE LockTypeOK'
    BY <1>1, ReadLockCases DEF readLock, Begin, IInv, LockTypeOK, Places
  <1>2. ASSUME NEW t \in Users, writeLock(t) PROVE LockTypeOK'
    <2>1. calls' \in [Users -> Nat] /\ wakeups' = wakeups
      BY <1>2 DEF writeLock, Begin, IInv, LockTypeOK
    <2> QED
      BY <1>2, <2>1, WriteLockCases DEF IInv, LockTypeOK, Places
  <1>3. ASSUME NEW t \in Users, readUnlock(t) PROVE LockTypeOK'
    BY <1>3, WriterNotified DEF readUnlock, Released, IInv, LockTypeOK, Places
  <1>4. ASSUME NEW t \in Users, writeUnlock(t) PROVE LockTypeOK'
    BY <1>4, WriterNotified, ReadersNotified DEF writeUnlock, Released, IInv, LockTypeOK
  <1>5. ASSUME NEW t \in Users, LockWakeup(t) PROVE LockTypeOK'
    BY <1>5 DEF LockWakeup, IInv, LockTypeOK, Places
  <1>6. CASE UNCHANGED rwLockVars
    BY <1>6 DEF rwLockVars, IInv, LockTypeOK
  <1> QED
    BY <1>1, <1>2, <1>3, <1>4, <1>5, <1>6 DEF LockNext

LEMMA StepIInv == IInv /\ [LockNext]_rwLockVars => IInv'
  <1> SUFFICES ASSUME IInv, [LockNext]_rwLockVars PROVE IInv'
    OBVIOUS
  <1> LockTypeOK'
    BY StepTypeOK
  <1>1. ASSUME NEW t \in Users, readLock(t) PROVE IInv'
    BY <1>1, ReadLockCases, ReaderSleeps, ReaderEnters
  <1>2. ASSUME NEW t \in Users, writeLock(t) PROVE IInv'
    BY <1>2, WriteLockCases, WriterSleeps, WriterEnters
  <1>3. ASSUME NEW t \in Users, readUnlock(t) PROVE IInv'
    BY <1>3, ReaderLeaves
  <1>4. ASSUME NEW t \in Users, writeUnlock(t) PROVE IInv'
    BY <1>4, WriterLeaves
  <1>5. ASSUME NEW t \in Users, LockWakeup(t) PROVE IInv'
    BY <1>5, SleeperWakes
  <1>6. CASE UNCHANGED rwLockVars
    BY <1>6 DEF rwLockVars, IInv, LockTypeOK, CountersExact, ReadersWritersApart,
                NobodyForgotten, UsersIn, WaitingWriters
  <1> QED
    BY <1>1, <1>2, <1>3, <1>4, <1>5, <1>6 DEF LockNext

(* The lock keeps its inductive invariant.                                 *)
THEOREM Invariant == LockSpec => []IInv
  BY InitIInv, StepIInv, PTL DEF LockSpec

(* The counters are exact and nobody who waits is passed over by a release:*)
(* readUnlock and writeUnlock notify whom the waits of readLock and        *)
(* writeLock need.                                                         *)
THEOREM Sound == LockSpec => []LockSound
  <1>1. IInv => LockSound
    BY DEF IInv, LockSound
  <1> QED
    BY <1>1, Invariant, PTL

-----------------------------------------------------------------------------
(* Each step is one of the abstract lock, or none.                         *)
LEMMA InitLock == LockInit => Lock!Init
  BY DEF LockInit, Lock!Init, UsersIn

LEMMA StepLock == IInv /\ [LockNext]_rwLockVars => [Lock!Next]_(Lock!rwVars)
  <1> SUFFICES ASSUME IInv, [LockNext]_rwLockVars
               PROVE  Lock!Next \/ UNCHANGED <<Reading, Writing>>
    BY DEF Lock!rwVars, Reading, Writing
  <1>1. ASSUME NEW t \in Users, readLock(t)
        PROVE  Lock!Next \/ UNCHANGED <<Reading, Writing>>
    <2>1. CASE ReadersWait
      BY <1>1, <2>1, ReadLockCases DEF IInv, LockTypeOK, UsersIn, Reading, Writing
    <2>2. CASE ~ReadersWait
      <3>1. Writing = {} /\ t \notin Reading
        BY <1>1, <2>2, ReadLockCases, Tests DEF Reading, UsersIn
      <3>2. Reading' = Reading \cup {t} /\ Writing' = Writing
        BY <1>1, <2>2, ReadLockCases DEF IInv, LockTypeOK, UsersIn, Reading, Writing
      <3> QED
        BY <3>1, <3>2 DEF Lock!Next, Lock!Read, Reading, Writing
    <2> QED
      BY <2>1, <2>2
  <1>2. ASSUME NEW t \in Users, writeLock(t)
        PROVE  Lock!Next \/ UNCHANGED <<Reading, Writing>>
    <2>1. CASE WritersWait
      BY <1>2, <2>1, WriteLockCases DEF IInv, LockTypeOK, UsersIn, Reading, Writing
    <2>2. CASE ~WritersWait
      <3>1. Writing = {} /\ Reading = {}
        BY <2>2, Tests
      <3>2. Reading' = Reading /\ Writing' = Writing \cup {t}
        BY <1>2, <2>2, WriteLockCases DEF IInv, LockTypeOK, UsersIn, Reading, Writing
      <3> QED
        BY <3>1, <3>2 DEF Lock!Next, Lock!Write, Reading, Writing
    <2> QED
      BY <2>1, <2>2
  <1>3. ASSUME NEW t \in Users, readUnlock(t) \/ writeUnlock(t)
        PROVE  Lock!Next
    <2>1. user[t] \in {"reading", "writing"} /\ t \in Reading \cup Writing
      BY <1>3 DEF readUnlock, writeUnlock, Reading, Writing, UsersIn
    <2>2. Released(t)
      <3>1. CASE NotifyWriter(t)
        BY <2>1, <3>1, WriterNotified
      <3>2. CASE user[t] = "writing" /\ NotifyAllReaders(t)
        BY <3>2, ReadersNotified
      <3>3. CASE user' = [user EXCEPT ![t] = "out"]
        BY <3>3 DEF Released, IInv, LockTypeOK, Places
      <3> QED
        BY <1>3, <3>1, <3>2, <3>3 DEF readUnlock, writeUnlock
    <2> QED
      BY <2>1, <2>2, AfterRelease DEF Lock!Next, Lock!Release, Reading, Writing
  <1>4. ASSUME NEW t \in Users, LockWakeup(t)
        PROVE  UNCHANGED <<Reading, Writing>>
    BY <1>4 DEF LockWakeup, IInv, LockTypeOK, UsersIn, Reading, Writing
  <1>5. CASE UNCHANGED rwLockVars
    BY <1>5 DEF rwLockVars, UsersIn, Reading, Writing
  <1> QED
    BY <1>1, <1>2, <1>3, <1>4, <1>5 DEF LockNext

(* RwLock keeps the promise of a reader-writer lock: any number of readers,*)
(* or one writer and no reader.                                            *)
THEOREM Implements == LockSpec => ImplementsReadersWriters
  BY InitLock, StepLock, Invariant, PTL DEF LockSpec, ImplementsReadersWriters, Lock!Spec

-----------------------------------------------------------------------------
(* The inductive invariant: a set flag stands for a credit of its own.     *)
EventIInv ==
    /\ bManualReset \in BOOLEAN /\ bState \in BOOLEAN
    /\ credit \in Int
    /\ OneWaitPerSet

(* A wait that passes finds the flag set, takes it and one credit.         *)
LEMMA WaitPassed ==
    ASSUME EventIInv, NEW t, bState, Take(t), UNCHANGED bManualReset
    PROVE  EventIInv'
  BY DEF EventIInv, OneWaitPerSet, Take, AfterTaking

(* A wait that goes to sleep, or is woken and fails, changes neither.      *)
LEMMA WaitKept ==
    ASSUME EventIInv, UNCHANGED <<bManualReset, bState, credit>>
    PROVE  EventIInv'
  BY DEF EventIInv, OneWaitPerSet

(* A wait at its call.                                                     *)
LEMMA WaitEntered ==
    ASSUME EventIInv, NEW t, NEW place, Enter(t, place)
    PROVE  EventIInv'
  <1>1. CASE bState /\ Take(t) /\ UNCHANGED timed
    BY <1>1, WaitPassed DEF Enter
  <1>2. CASE UNCHANGED <<bState, returned, credit>>
    BY <1>2, WaitKept DEF Enter
  <1> QED
    BY <1>1, <1>2 DEF Enter

(* Every step of the event keeps its invariant.                            *)
LEMMA StepEventIInv == EventIInv /\ [EventNext]_eventVars => EventIInv'
  <1> SUFFICES ASSUME EventIInv, [EventNext]_eventVars PROVE EventIInv'
    OBVIOUS
  <1>1. ASSUME NEW t \in Waiters, eventWait(t) PROVE EventIInv'
    <2>1. CASE Enter(t, "wait")
      BY <2>1, WaitEntered
    <2>2. CASE bState /\ Take(t) /\ UNCHANGED bManualReset
      BY <2>2, WaitPassed
    <2>3. CASE UNCHANGED <<bManualReset, bState, credit>>
      BY <2>3, WaitKept
    <2> QED
      BY <1>1, <2>1, <2>2, <2>3 DEF eventWait
  <1>2. ASSUME NEW t \in Waiters, eventWaitTimeOut(t) PROVE EventIInv'
    <2>1. CASE Enter(t, "timedWait")
      BY <2>1, WaitEntered
    <2>2. CASE UNCHANGED <<bManualReset, bState, credit>>
      BY <2>2, WaitKept
    <2> QED
      BY <1>2, <2>1, <2>2 DEF eventWaitTimeOut
  <1>3. ASSUME NEW t \in Waiters, EventWakeup(t) PROVE EventIInv'
    BY <1>3, WaitKept DEF EventWakeup
  <1>4. CASE eventSet
    BY <1>4 DEF eventSet, EventIInv, OneWaitPerSet
  <1>5. CASE eventReset
    <2>1. bState' = FALSE /\ bManualReset' = bManualReset
      BY <1>5 DEF eventReset
    <2>2. CASE bManualReset
      <3>1. credit' = credit
        BY <1>5, <2>2 DEF eventReset
      <3> QED
        BY <2>1, <2>2, <3>1 DEF EventIInv, OneWaitPerSet
    <2>3. CASE ~bManualReset
      <3>1. credit' = 0
        BY <1>5, <2>3 DEF eventReset
      <3>2. credit' >= IF bState' THEN 1 ELSE 0
        BY <2>1, <3>1, SMT
      <3>3. OneWaitPerSet'
        BY <3>2 DEF OneWaitPerSet
      <3>4. bManualReset' \in BOOLEAN /\ bState' \in BOOLEAN
        BY <2>1 DEF EventIInv
      <3>5. credit' \in Int
        BY <3>1
      <3> QED
        BY <3>3, <3>4, <3>5 DEF EventIInv
    <2> QED
      BY <2>2, <2>3
  <1>6. CASE UNCHANGED eventVars
    BY <1>6, WaitKept DEF eventVars
  <1> QED
    BY <1>1, <1>2, <1>3, <1>4, <1>5, <1>6 DEF EventNext

(* Whoever eventSet and eventReset wake or leave asleep, and whatever order*)
(* waits run on in, an auto-reset event is passed at most once per set.    *)
THEOREM OneWait == EventSpec => []OneWaitPerSet
  <1>1. EventInit => EventIInv
    BY DEF EventInit, EventIInv, OneWaitPerSet
  <1>2. EventIInv => OneWaitPerSet
    BY DEF EventIInv
  <1> QED
    BY <1>1, <1>2, StepEventIInv, PTL DEF EventSpec

-----------------------------------------------------------------------------
Stations == {"none", "application", "fork", "forkAgain", "exec", "wait", "look",
             "exit", "program", "zombie"}

Requests == [bStandalone : BOOLEAN, waitForExit : BOOLEAN, call : 0 .. MaxLaunches]

LaunchTypeOK ==
    /\ at \in [Pids -> Stations]
    /\ parent \in [Pids -> Pids \cup {InitProcess}]
    /\ child \in [Pids -> Pids]
    /\ request \in [Pids -> Requests]
    /\ launches \in 0 .. MaxLaunches
    /\ runs \in [1 .. MaxLaunches -> Nat]

(* Of the processes of a call one at most has the program yet to start.    *)
Starting == {p \in Pids : at[p] \in {"fork", "forkAgain", "exec"}}

OneStarter ==
    /\ \A p \in Starting : request[p].call \in 1 .. launches /\ runs[request[p].call] = 0
    /\ \A p, q \in Starting : request[p].call = request[q].call => p = q
    /\ \A c \in 1 .. MaxLaunches : runs[c] <= 1 /\ (c > launches => runs[c] = 0)

(* A process with a parent that lives is the one the parent waits for, or  *)
(* it is past all forks: of a call that leaves a child, or of a parent that*)
(* is about to go.                                                         *)
Plain(r) == ~ r.bStandalone /\ ~ r.waitForExit
Past == {"exec", "exit", "program", "zombie"}

Related(q, p) ==
    /\ p # q
    /\ at[p] \notin {"none", "zombie"}
    /\ \/ at[p] = "wait" /\ child[p] = q
       \/ at[q] \in Past /\ (Plain(request[q]) \/ at[p] = "exit")

Family == \A q \in Alive : parent[q] \in Pids => Related(q, parent[q])

OneApplication ==
    torn = {} => \A p \in Alive \ {Application} : at[p] \in Past \cup {"forkAgain"}

(* The inductive invariant of launching.                                   *)
LaunchIInv == LaunchTypeOK /\ OneStarter /\ Family /\ OneApplication

(* It says what has to be shown.                                           *)
LEMMA LaunchSafe == LaunchIInv => LaunchSound
  <1> SUFFICES ASSUME LaunchIInv PROVE LaunchSound
    OBVIOUS
  <1>1. \A c \in DOMAIN runs : runs[c] <= 1
    BY DEF LaunchIInv, LaunchTypeOK, OneStarter
  <1>2. ASSUME NEW p \in Alive, NEW q \in Alive, parent[q] = p, at[p] = "application"
        PROVE  ~ request[q].bStandalone /\ ~ request[q].waitForExit
    <2>1. Related(q, p)
      BY <1>2 DEF LaunchIInv, Family, Alive
    <2> QED
      BY <1>2, <2>1 DEF Related, Plain
  <1>3. torn = {} => \A p \in Alive \ {Application} :
          at[p] \in {"forkAgain", "exec", "exit", "program", "zombie"}
    BY DEF LaunchIInv, OneApplication, Past
  <1> QED
    BY <1>1, <1>2, <1>3 DEF LaunchSound

(* At first there is the application alone.                                *)
LEMMA InitLaunchIInv == LaunchInit => LaunchIInv
  <1> SUFFICES ASSUME LaunchInit PROVE LaunchIInv
    OBVIOUS
  <1> USE LaunchAssumption
  <1>1. LaunchTypeOK
    BY DEF LaunchInit, LaunchTypeOK, Stations, Requests
  <1>2. Starting = {}
    BY DEF LaunchInit, Starting
  <1>3. OneStarter
    BY <1>2 DEF LaunchInit, OneStarter
  <1>4. Family
    BY DEF LaunchInit, Family, Alive
  <1>5. OneApplication
    BY DEF LaunchInit, OneApplication, Alive
  <1> QED
    BY <1>1, <1>3, <1>4, <1>5 DEF LaunchIInv

(* A call begins with a number of its own.                                 *)
LEMMA StepCall ==
    ASSUME LaunchIInv, NEW p \in Pids, NEW standalone \in BOOLEAN, NEW wait \in BOOLEAN,
           createProcWithArg(p, standalone, wait)
    PROVE  LaunchIInv'
  <1> USE LaunchAssumption
  <1> DEFINE r == [bStandalone |-> standalone, waitForExit |-> wait, call |-> launches + 1]
  <1>1. /\ at[p] = "application" /\ launches < MaxLaunches /\ launches' = launches + 1
        /\ request' = [request EXCEPT ![p] = r] /\ at' = [at EXCEPT ![p] = "fork"]
        /\ UNCHANGED <<parent, child, runs, torn>>
    BY DEF createProcWithArg, Goto
  <1>2. /\ launches \in Nat /\ at \in [Pids -> Stations] /\ request \in [Pids -> Requests]
    BY DEF LaunchIInv, LaunchTypeOK
  <1>3. r \in Requests /\ r.call = launches + 1 /\ launches' \in 0 .. MaxLaunches
    BY <1>1, <1>2 DEF LaunchIInv, LaunchTypeOK, Requests
  <1> HIDE DEF r
  <1>4. /\ at'[p] = "fork" /\ request'[p] = r
        /\ \A q \in Pids : q # p => at'[q] = at[q] /\ request'[q] = request[q]
    BY <1>1, <1>2
  <1>5. LaunchTypeOK'
    BY <1>1, <1>3 DEF LaunchIInv, LaunchTypeOK, Stations
  <1>6. Starting' = Starting \cup {p} /\ p \notin Starting
    BY <1>1, <1>4 DEF Starting
  <1>7. OneStarter'
    <2>1. ASSUME NEW q \in Starting'
          PROVE  request'[q].call \in 1 .. launches' /\ runs'[request'[q].call] = 0
      <3>1. CASE q = p
        <4>1. launches + 1 \in 1 .. MaxLaunches /\ launches + 1 > launches
          BY <1>1, <1>2
        <4>2. runs[launches + 1] = 0
          BY <4>1 DEF LaunchIInv, OneStarter
        <4>3. request'[q].call = launches + 1
          BY <1>3, <1>4, <3>1
        <4>4. launches + 1 \in 1 .. launches'
          BY <1>1, <1>2
        <4> QED
          BY <1>1, <4>2, <4>3, <4>4
      <3>2. CASE q # p
        <4>1. q \in Starting /\ request'[q] = request[q]
          BY <1>4, <1>6, <3>2 DEF Starting
        <4>2. request[q].call \in 1 .. launches /\ runs[request[q].call] = 0
          BY <4>1 DEF LaunchIInv, OneStarter
        <4> QED
          BY <1>1, <1>2, <4>1, <4>2
      <3> QED
        BY <3>1, <3>2
    <2>2. ASSUME NEW q \in Starting', NEW s \in Starting', request'[q].call = request'[s].call
          PROVE  q = s
      <3>1. \A u \in Starting' : u # p =>
               u \in Starting /\ request'[u] = request[u] /\ request[u].call \in 1 .. launches
        BY <1>4, <1>6 DEF LaunchIInv, OneStarter, Starting
      <3>2. request'[p].call = launches + 1 /\ launches + 1 \notin 1 .. launches
        BY <1>2, <1>3, <1>4
      <3> QED
        BY <2>2, <3>1, <3>2 DEF LaunchIInv, OneStarter
    <2>3. \A c \in 1 .. MaxLaunches : runs'[c] <= 1 /\ (c > launches' => runs'[c] = 0)
      BY <1>1, <1>2 DEF LaunchIInv, OneStarter
    <2> QED
      BY <2>1, <2>2, <2>3 DEF OneStarter
  <1>8. Alive' = Alive
    BY <1>1, <1>4 DEF Alive
  <1>9. Family'
    <2> SUFFICES ASSUME NEW q \in Alive, parent[q] \in Pids PROVE Related(q, parent[q])'
      BY <1>1, <1>8 DEF Family
    <2>1. Related(q, parent[q]) /\ q \in Pids
      BY DEF LaunchIInv, Family, Alive
    <2>2. CASE q = p
      BY <1>1, <1>4, <2>1, <2>2 DEF Related, Past
    <2>3. CASE q # p
      <3>1. at'[q] = at[q] /\ request'[q] = request[q]
        BY <1>4, <2>1, <2>3
      <3> QED
        BY <1>1, <1>4, <2>1, <3>1 DEF Related
    <2> QED
      BY <2>2, <2>3
  <1>10. OneApplication'
    <2>1. torn = {} => p = Application
      BY <1>1 DEF LaunchIInv, OneApplication, Alive, Past
    <2> QED
      BY <1>1, <1>4, <1>8, <2>1 DEF LaunchIInv, OneApplication, Alive
  <1> QED
    BY <1>5, <1>7, <1>9, <1>10 DEF LaunchIInv

(* A fork hands the start of the program on to the new process ...         *)
LEMMA StarterMoves ==
    ASSUME LaunchTypeOK, OneStarter, NEW p \in Starting, NEW q \in Pids, q \notin Starting,
           Starting' \subseteq (Starting \ {p}) \cup {q},
           request'[q] = request[p],
           \A s \in Pids \ {q} : request'[s] = request[s],
           UNCHANGED <<launches, runs>>
    PROVE  OneStarter'
  <1>1. \A s \in Starting' : s # q => s \in Starting /\ s # p /\ request'[s] = request[s]
    BY DEF Starting
  <1>2. ASSUME NEW s \in Starting'
        PROVE  request'[s].call \in 1 .. launches /\ runs[request'[s].call] = 0
    BY <1>1 DEF OneStarter
  <1>3. ASSUME NEW s \in Starting', NEW u \in Starting', request'[s].call = request'[u].call
        PROVE  s = u
    BY <1>1, <1>3 DEF OneStarter
  <1> QED
    BY <1>2, <1>3 DEF OneStarter

(* ... and other steps leave it where it is, or fail.                      *)
LEMMA StarterStays ==
    ASSUME OneStarter, Starting' \subseteq Starting,
           \A s \in Starting' : request'[s].call = request[s].call,
           UNCHANGED <<launches, runs>>
    PROVE  OneStarter'
  BY DEF OneStarter

(* A fork, where it does not fail.                                         *)
LEMMA ForkedFacts ==
    ASSUME LaunchTypeOK, NEW p \in Pids, NEW q \in Pids, NEW place \in Stations,
           NEW childPlace \in Stations, at[p] # "none", Forked(p, q, place, childPlace)
    PROVE  /\ p # q /\ at[q] = "none"
           /\ at'[p] = place /\ at'[q] = childPlace
           /\ \A s \in Pids \ {p, q} : at'[s] = at[s]
           /\ parent'[q] = p /\ \A s \in Pids \ {q} : parent'[s] = parent[s]
           /\ child'[p] = q /\ \A s \in Pids \ {p} : child'[s] = child[s]
           /\ request'[q] = request[p] /\ \A s \in Pids \ {q} : request'[s] = request[s]
           /\ at' \in [Pids -> Stations]
           /\ parent' \in [Pids -> Pids \cup {InitProcess}]
           /\ child' \in [Pids -> Pids]
           /\ request' \in [Pids -> Requests]
  <1>1. p # q /\ at[q] = "none"
    BY DEF Forked
  <1>2. /\ at \in [Pids -> Stations] /\ parent \in [Pids -> Pids \cup {InitProcess}]
        /\ child \in [Pids -> Pids] /\ request \in [Pids -> Requests]
    BY DEF LaunchTypeOK
  <1>3. /\ at' = [at EXCEPT ![p] = place, ![q] = childPlace]
        /\ parent' = [parent EXCEPT ![q] = p]
        /\ child' = [child EXCEPT ![p] = q]
        /\ request' = [request EXCEPT ![q] = request[p]]
    BY DEF Forked
  <1>4. /\ at'[p] = place /\ at'[q] = childPlace /\ at' \in [Pids -> Stations]
        /\ \A s \in Pids \ {p, q} : at'[s] = at[s]
    BY <1>1, <1>2, <1>3
  <1>5. /\ parent'[q] = p /\ \A s \in Pids \ {q} : parent'[s] = parent[s]
        /\ parent' \in [Pids -> Pids \cup {InitProcess}]
    BY <1>2, <1>3
  <1>6. /\ child'[p] = q /\ \A s \in Pids \ {p} : child'[s] = child[s]
        /\ child' \in [Pids -> Pids]
    BY <1>2, <1>3
  <1>7. /\ request'[q] = request[p] /\ \A s \in Pids \ {q} : request'[s] = request[s]
        /\ request' \in [Pids -> Requests]
    BY <1>2, <1>3
  <1> QED
    BY <1>1, <1>4, <1>5, <1>6, <1>7

(* The caller forks, or a fork fails.                                      *)
LEMMA StepFork == ASSUME LaunchIInv, NEW p \in Pids, Fork(p) PROVE LaunchIInv'
  <1>1. at[p] = "fork" /\ UNCHANGED <<launches, runs, torn>> /\ p \in Starting
    BY DEF Fork, Starting
  <1>2. LaunchTypeOK /\ OneStarter /\ Family /\ OneApplication
    BY DEF LaunchIInv
  <1>3. ASSUME NEW q \in Pids,
               Forked(p, q,
                      IF Twofold(request[p]) \/ request[p].waitForExit THEN "wait" ELSE "look",
                      IF Twofold(request[p]) THEN "forkAgain" ELSE "exec")
        PROVE  LaunchIInv'
    <2>1. PICK place \in {"wait", "look"}, childPlace \in {"forkAgain", "exec"} :
             /\ Forked(p, q, place, childPlace)
             /\ place = "look" => Plain(request[p]) /\ childPlace = "exec"
      BY <1>3 DEF Twofold, Plain
    <2>2. /\ p # q /\ at[q] = "none"
          /\ at'[p] = place /\ at'[q] = childPlace
          /\ \A s \in Pids \ {p, q} : at'[s] = at[s]
          /\ parent'[q] = p /\ \A s \in Pids \ {q} : parent'[s] = parent[s]
          /\ child'[p] = q /\ \A s \in Pids \ {p} : child'[s] = child[s]
          /\ request'[q] = request[p] /\ \A s \in Pids \ {q} : request'[s] = request[s]
          /\ at' \in [Pids -> Stations]
          /\ parent' \in [Pids -> Pids \cup {InitProcess}]
          /\ child' \in [Pids -> Pids]
          /\ request' \in [Pids -> Requests]
      <3>1. place \in Stations /\ childPlace \in Stations /\ at[p] # "none"
        BY <1>1 DEF Stations
      <3> QED
        BY <1>2, <2>1, <3>1, ForkedFacts
    <2>3. LaunchTypeOK'
      BY <1>1, <1>2, <2>2 DEF LaunchTypeOK
    <2>4. OneStarter'
      <3>1. q \notin Starting /\ Starting' \subseteq (Starting \ {p}) \cup {q}
        BY <2>2 DEF Starting
      <3> QED
        BY <1>1, <1>2, <2>2, <3>1, StarterMoves
    <2>5. Alive' = Alive \cup {q} /\ q \notin Alive /\ p \in Alive
      BY <1>1, <2>2 DEF Alive
    <2>6. Family'
      <3> SUFFICES ASSUME NEW s \in Alive', parent'[s] \in Pids PROVE Related(s, parent[s])'
        BY DEF Family
      <3>1. CASE s = q
        BY <2>1, <2>2, <3>1 DEF Related, Past, Plain
      <3>2. CASE s # q
        <4>1. /\ s \in Alive /\ s \in Pids /\ parent'[s] = parent[s] /\ request'[s] = request[s]
              /\ parent[s] \in Pids
          BY <2>2, <2>5, <3>2 DEF Alive
        <4>2. Related(s, parent[s])
          BY <1>2, <4>1 DEF Family
        <4>3. parent[s] # q
          BY <2>2, <4>2 DEF Related
        <4>4. CASE parent[s] = p
          BY <1>1, <2>2, <4>1, <4>2, <4>4, <3>2 DEF Related
        <4>5. CASE parent[s] # p
          <5>1. at'[parent[s]] = at[parent[s]] /\ child'[parent[s]] = child[parent[s]]
            BY <2>2, <4>1, <4>3, <4>5
          <5>2. CASE s = p
            BY <1>1, <2>2, <4>1, <4>2, <5>1, <5>2 DEF Related, Past
          <5>3. CASE s # p
            BY <2>2, <3>2, <4>1, <4>2, <5>1, <5>3 DEF Related
          <5> QED
            BY <5>2, <5>3
        <4> QED
          BY <4>4, <4>5
      <3> QED
        BY <3>1, <3>2
    <2>7. OneApplication'
      <3>1. torn = {} => p = Application
        BY <1>1, <1>2, <2>5 DEF OneApplication, Past
      <3> QED
        BY <1>1, <1>2, <2>2, <2>5, <3>1 DEF OneApplication, Past, Alive
    <2> QED
      BY <2>3, <2>4, <2>6, <2>7 DEF LaunchIInv
  <1>4. CASE ReturnFrom(p, FALSE) /\ UNCHANGED <<parent, child, request>>
    <2>1. at' = [at EXCEPT ![p] = "application"] /\ UNCHANGED <<parent, child, request>>
      BY <1>4 DEF ReturnFrom, Goto
    <2>2. at'[p] = "application" /\ at' \in [Pids -> Stations]
          /\ \A s \in Pids \ {p} : at'[s] = at[s]
      BY <1>2, <2>1 DEF LaunchTypeOK, Stations
    <2>3. LaunchTypeOK'
      BY <1>1, <1>2, <2>1, <2>2 DEF LaunchTypeOK
    <2>4. OneStarter'
      <3>1. Starting' \subseteq Starting
        BY <2>2 DEF Starting
      <3> QED
        BY <1>1, <1>2, <2>1, <3>1, StarterStays
    <2>5. Alive' = Alive
      BY <1>1, <2>2 DEF Alive
    <2>6. Family'
      <3> SUFFICES ASSUME NEW s \in Alive, parent[s] \in Pids PROVE Related(s, parent[s])'
        BY <2>1, <2>5 DEF Family
      <3>1. Related(s, parent[s]) /\ s \in Pids
        BY <1>2 DEF Family, Alive
      <3>2. CASE s = p
        BY <1>1, <2>1, <2>2, <3>1, <3>2 DEF Related, Past
      <3>3. CASE s # p
        BY <1>1, <2>1, <2>2, <3>1, <3>3 DEF Related
      <3> QED
        BY <3>2, <3>3
    <2>7. OneApplication'
      <3>1. torn = {} => p = Application
        BY <1>1, <1>2, <2>5 DEF OneApplication, Past, Alive
      <3> QED
        BY <1>1, <1>2, <2>2, <2>5, <3>1 DEF OneApplication, Past, Alive
    <2> QED
      BY <2>3, <2>4, <2>6, <2>7 DEF LaunchIInv
  <1> QED
    BY <1>3, <1>4 DEF Fork

(* The second process of a standalone launch forks, or it fails and returns*)
(* to the application: torn, or past all forks.                            *)
LEMMA StepForkAgain == ASSUME LaunchIInv, NEW p \in Pids, ForkAgain(p) PROVE LaunchIInv'
  <1>1. at[p] = "forkAgain" /\ UNCHANGED <<launches, runs>> /\ p \in Starting
    BY DEF ForkAgain, Starting
  <1>2. LaunchTypeOK /\ OneStarter /\ Family /\ OneApplication
    BY DEF LaunchIInv
  <1>3. ASSUME NEW q \in Pids, Forked(p, q, "exit", "exec"), UNCHANGED torn
        PROVE  LaunchIInv'
    <2>2. /\ p # q /\ at[q] = "none"
          /\ at'[p] = "exit" /\ at'[q] = "exec"
          /\ \A s \in Pids \ {p, q} : at'[s] = at[s]
          /\ parent'[q] = p /\ \A s \in Pids \ {q} : parent'[s] = parent[s]
          /\ child'[p] = q /\ \A s \in Pids \ {p} : child'[s] = child[s]
          /\ request'[q] = request[p] /\ \A s \in Pids \ {q} : request'[s] = request[s]
          /\ at' \in [Pids -> Stations]
          /\ parent' \in [Pids -> Pids \cup {InitProcess}]
          /\ child' \in [Pids -> Pids]
          /\ request' \in [Pids -> Requests]
      <3>1. "exit" \in Stations /\ "exec" \in Stations /\ at[p] # "none"
        BY <1>1 DEF Stations
      <3> QED
        BY <1>2, <1>3, <3>1, ForkedFacts
    <2>3. LaunchTypeOK'
      BY <1>1, <1>2, <2>2 DEF LaunchTypeOK
    <2>4. OneStarter'
      <3>1. q \notin Starting /\ Starting' \subseteq (Starting \ {p}) \cup {q}
        BY <2>2 DEF Starting
      <3> QED
        BY <1>1, <1>2, <2>2, <3>1, StarterMoves
    <2>5. Alive' = Alive \cup {q} /\ q \notin Alive /\ p \in Alive
      BY <1>1, <2>2 DEF Alive
    <2>6. Family'
      <3> SUFFICES ASSUME NEW s \in Alive', parent'[s] \in Pids PROVE Related(s, parent[s])'
        BY DEF Family
      <3>1. CASE s = q
        BY <2>2, <3>1 DEF Related, Past
      <3>2. CASE s # q
        <4>1. /\ s \in Alive /\ s \in Pids /\ parent'[s] = parent[s] /\ request'[s] = request[s]
              /\ parent[s] \in Pids
          BY <2>2, <2>5, <3>2 DEF Alive
        <4>2. Related(s, parent[s])
          BY <1>2, <4>1 DEF Family
        <4>3. parent[s] # q
          BY <2>2, <4>2 DEF Related
        <4>4. CASE parent[s] = p
          BY <1>1, <2>2, <4>1, <4>2, <4>4, <3>2 DEF Related
        <4>5. CASE parent[s] # p
          <5>1. at'[parent[s]] = at[parent[s]] /\ child'[parent[s]] = child[parent[s]]
            BY <2>2, <4>1, <4>3, <4>5
          <5>2. CASE s = p
            BY <1>1, <2>2, <4>1, <4>2, <5>1, <5>2 DEF Related, Past
          <5>3. CASE s # p
            BY <2>2, <3>2, <4>1, <4>2, <5>1, <5>3 DEF Related
          <5> QED
            BY <5>2, <5>3
        <4> QED
          BY <4>4, <4>5
      <3> QED
        BY <3>1, <3>2
    <2>7. OneApplication'
      BY <1>2, <1>3, <2>2, <2>5 DEF OneApplication, Past, Alive
    <2> QED
      BY <2>3, <2>4, <2>6, <2>7 DEF LaunchIInv
  <1>4. CASE /\ ReturnFrom(p, FALSE)
             /\ torn' = torn \cup {request[p].call} /\ UNCHANGED <<parent, child, request>>
    <2>1. at' = [at EXCEPT ![p] = "application"] /\ UNCHANGED <<parent, child, request>>
      BY <1>4 DEF ReturnFrom, Goto
    <2>2. at'[p] = "application" /\ at' \in [Pids -> Stations]
          /\ \A s \in Pids \ {p} : at'[s] = at[s]
      BY <1>2, <2>1 DEF LaunchTypeOK, Stations
    <2>3. LaunchTypeOK'
      BY <1>1, <1>2, <2>1, <2>2 DEF LaunchTypeOK
    <2>4. OneStarter'
      <3>1. Starting' \subseteq Starting
        BY <2>2 DEF Starting
      <3> QED
        BY <1>1, <1>2, <2>1, <3>1, StarterStays
    <2>5. Alive' = Alive
      BY <1>1, <2>2 DEF Alive
    <2>6. Family'
      <3> SUFFICES ASSUME NEW s \in Alive, parent[s] \in Pids PROVE Related(s, parent[s])'
        BY <2>1, <2>5 DEF Family
      <3>1. Related(s, parent[s]) /\ s \in Pids
        BY <1>2 DEF Family, Alive
      <3>2. CASE s = p
        BY <1>1, <2>1, <2>2, <3>1, <3>2 DEF Related, Past
      <3>3. CASE s # p
        BY <1>1, <2>1, <2>2, <3>1, <3>3 DEF Related
      <3> QED
        BY <3>2, <3>3
    <2>7. OneApplication'
      BY <1>4 DEF OneApplication
    <2> QED
      BY <2>3, <2>4, <2>6, <2>7 DEF LaunchIInv
  <1> QED
    BY <1>3, <1>4 DEF ForkAgain

(* exec starts the program of the call, the only time, or fails.           *)
LEMMA StepExec == ASSUME LaunchIInv, NEW p \in Pids, Exec(p) PROVE LaunchIInv'
  <1>1. /\ at[p] = "exec" /\ p \in Starting
        /\ UNCHANGED <<parent, child, request, launches, torn>>
    BY DEF Exec, Starting
  <1>2. LaunchTypeOK /\ OneStarter /\ Family /\ OneApplication
    BY DEF LaunchIInv
  <1>3. PICK place \in {"program", "exit"} :
           /\ at' = [at EXCEPT ![p] = place]
           /\ \/ runs' = [runs EXCEPT ![request[p].call] = @ + 1]
              \/ UNCHANGED runs
    BY DEF Exec, Goto
  <1>4. at'[p] = place /\ at' \in [Pids -> Stations] /\ \A s \in Pids \ {p} : at'[s] = at[s]
    BY <1>2, <1>3 DEF LaunchTypeOK, Stations
  <1>5. /\ request[p].call \in 1 .. launches /\ runs[request[p].call] = 0
        /\ launches \in 0 .. MaxLaunches /\ MaxLaunches \in Nat
        /\ runs \in [1 .. MaxLaunches -> Nat]
    BY <1>1, <1>2, LaunchAssumption DEF OneStarter, LaunchTypeOK
  <1>6. /\ runs' \in [1 .. MaxLaunches -> Nat]
        /\ runs'[request[p].call] \in {0, 1}
        /\ \A c \in 1 .. MaxLaunches : c # request[p].call => runs'[c] = runs[c]
    <2>1. request[p].call \in 1 .. MaxLaunches
      BY <1>5
    <2>2. CASE runs' = [runs EXCEPT ![request[p].call] = @ + 1]
      BY <1>5, <2>1, <2>2
    <2>3. CASE UNCHANGED runs
      BY <1>5, <2>3
    <2> QED
      BY <1>3, <2>2, <2>3
  <1>7. LaunchTypeOK'
    BY <1>1, <1>2, <1>4, <1>6 DEF LaunchTypeOK
  <1>8. Starting' = Starting \ {p}
    BY <1>4 DEF Starting
  <1>9. OneStarter'
    <2>1. ASSUME NEW s \in Starting'
          PROVE  request[s].call \in 1 .. launches /\ runs'[request[s].call] = 0
      <3>1. s \in Starting /\ s # p
        BY <1>8
      <3>2. request[s].call \in 1 .. launches /\ runs[request[s].call] = 0
        BY <1>2, <3>1 DEF OneStarter
      <3>3. request[s].call # request[p].call
        BY <1>1, <1>2, <3>1 DEF OneStarter
      <3>4. request[s].call \in 1 .. MaxLaunches
        BY <1>5, <3>2
      <3> QED
        BY <1>6, <3>2, <3>3, <3>4
    <2>2. \A s, u \in Starting' : request[s].call = request[u].call => s = u
      BY <1>2, <1>8 DEF OneStarter
    <2>3. ASSUME NEW c \in 1 .. MaxLaunches
          PROVE  runs'[c] <= 1 /\ (c > launches => runs'[c] = 0)
      <3>1. CASE c = request[p].call
        BY <1>5, <1>6, <3>1
      <3>2. CASE c # request[p].call
        BY <1>2, <1>6, <3>2 DEF OneStarter
      <3> QED
        BY <3>1, <3>2
    <2> QED
      BY <1>1, <2>1, <2>2, <2>3 DEF OneStarter
  <1>10. Alive' = Alive
    BY <1>1, <1>4 DEF Alive
  <1>11. Family'
    <2> SUFFICES ASSUME NEW s \in Alive, parent[s] \in Pids PROVE Related(s, parent[s])'
      BY <1>1, <1>10 DEF Family
    <2>1. Related(s, parent[s]) /\ s \in Pids
      BY <1>2 DEF Family, Alive
    <2>2. CASE s = p
      BY <1>1, <1>4, <2>1, <2>2 DEF Related, Past
    <2>3. CASE s # p
      BY <1>1, <1>4, <2>1, <2>3 DEF Related
    <2> QED
      BY <2>2, <2>3
  <1>12. OneApplication'
    BY <1>1, <1>2, <1>4, <1>10 DEF OneApplication, Past, Alive
  <1> QED
    BY <1>7, <1>9, <1>11, <1>12 DEF LaunchIInv

(* A process ends, and leaves its children to the init process.            *)
LEMMA StepEnds ==
    ASSUME LaunchIInv, NEW p \in Pids, NEW how, Ends(p, how),
           at[p] \in {"exit", "program"} \/ (at[p] = "application" /\ p # Application)
    PROVE  LaunchIInv'
  <1>1. UNCHANGED <<child, request, launches, runs, torn>>
    BY DEF Ends
  <1>2. LaunchTypeOK /\ OneStarter /\ Family /\ OneApplication
    BY DEF LaunchIInv
  <1>3. /\ at'[p] = IF parent[p] = InitProcess THEN "none" ELSE "zombie"
        /\ \A s \in Pids \ {p} : at'[s] = at[s] \/ (at[s] = "zombie" /\ at'[s] = "none")
        /\ at' \in [Pids -> Stations]
    <2>1. at' = [q \in Pids |->
                CASE q = p -> IF parent[p] = InitProcess THEN "none" ELSE "zombie"
                  [] parent[q] = p /\ q # p /\ at[q] = "zombie" -> "none"
                  [] OTHER -> at[q]]
      BY DEF Ends
    <2>2. at'[p] = IF parent[p] = InitProcess THEN "none" ELSE "zombie"
      BY <2>1
    <2>3. ASSUME NEW s \in Pids \ {p} PROVE at'[s] = at[s] \/ (at[s] = "zombie" /\ at'[s] = "none")
      <3>1. s # p /\ s \in Pids
        OBVIOUS
      <3>2. CASE parent[s] = p /\ at[s] = "zombie"
        <4>1. at'[s] = "none"
          BY <2>1, <3>1, <3>2
        <4> QED
          BY <3>2, <4>1
      <3>3. CASE ~ (parent[s] = p /\ at[s] = "zombie")
        <4>1. at'[s] = at[s]
          BY <2>1, <3>1, <3>3
        <4> QED
          BY <4>1
      <3> QED
        BY <3>2, <3>3
    <2>4. at' \in [Pids -> Stations]
      <3>1. \A s \in Pids : at'[s] \in Stations
        BY <1>2, <2>2, <2>3 DEF LaunchTypeOK, Stations
      <3> QED
        BY <2>1, <3>1
    <2> QED
      BY <2>2, <2>3, <2>4
  <1>4. /\ \A s \in Pids : parent'[s] = IF parent[s] = p /\ s # p THEN InitProcess ELSE parent[s]
        /\ parent' \in [Pids -> Pids \cup {InitProcess}]
    BY <1>2 DEF Ends, LaunchTypeOK
  <1>5. LaunchTypeOK'
    BY <1>1, <1>2, <1>3, <1>4 DEF LaunchTypeOK
  <1>6. OneStarter'
    <2>1. Starting' \subseteq Starting
      BY <1>3 DEF Starting
    <2> QED
      BY <1>1, <1>2, <2>1, StarterStays
  <1>7. Family'
    <2> SUFFICES ASSUME NEW s \in Alive', parent'[s] \in Pids PROVE Related(s, parent[s])'
      BY DEF Family
    <2>1. s \in Pids /\ at'[s] # "none" /\ at[s] # "none" /\ s \in Alive
      BY <1>3 DEF Alive
    <2>2. parent'[s] = parent[s] /\ (s # p => parent[s] # p)
      BY <1>4, <2>1, LaunchAssumption
    <2>3. Related(s, parent[s])
      BY <1>2, <2>1, <2>2 DEF Family
    <2>4. parent[s] # p
      BY <2>2, <2>3 DEF Related
    <2>5. at'[parent[s]] = at[parent[s]]
      BY <1>3, <2>2, <2>3, <2>4 DEF Related
    <2>6. CASE s = p
      <3>1. at'[s] = "zombie"
        BY <1>3, <2>1, <2>6
      <3> QED
        BY <1>1, <2>2, <2>3, <2>5, <2>6, <3>1 DEF Related, Past
    <2>7. CASE s # p
      BY <1>1, <1>3, <2>1, <2>2, <2>3, <2>5, <2>7 DEF Related
    <2> QED
      BY <2>6, <2>7
  <1>8. OneApplication'
    BY <1>1, <1>2, <1>3 DEF OneApplication, Past, Alive
  <1> QED
    BY <1>5, <1>6, <1>7, <1>8 DEF LaunchIInv

(* A child that ended is reaped, or looked for in vain: the process is back*)
(* in the application, and what it waited for is gone.                     *)
LEMMA StepReturn ==
    ASSUME LaunchIInv, NEW p \in Pids, Wait(p) \/ Look(p) PROVE LaunchIInv'
  <1>1. /\ at[p] \in {"wait", "look"}
        /\ UNCHANGED <<parent, child, request, launches, runs, torn>>
        /\ \/ at[child[p]] = "zombie" /\ Reap(p)
           \/ at[p] = "look" /\ Goto(p, "application")
    BY DEF Wait, Waited, Look
  <1>2. LaunchTypeOK /\ OneStarter /\ Family /\ OneApplication
    BY DEF LaunchIInv
  <1>3. /\ at'[p] = "application"
        /\ \A s \in Pids \ {p} : \/ at'[s] = at[s]
                                 \/ s = child[p] /\ at[s] = "zombie" /\ at'[s] = "none"
        /\ at[p] = "wait" => at'[child[p]] = "none"
        /\ at' \in [Pids -> Stations]
    <2>1. CASE at[child[p]] = "zombie" /\ Reap(p)
      <3>1. child[p] # p /\ child[p] \in Pids
        BY <1>1, <1>2, <2>1 DEF LaunchTypeOK
      <3>2. at' = [at EXCEPT ![p] = "application", ![child[p]] = "none"]
        BY <2>1 DEF Reap
      <3> QED
        BY <1>2, <2>1, <3>1, <3>2 DEF LaunchTypeOK, Stations
    <2>2. CASE at[p] = "look" /\ Goto(p, "application")
      BY <1>2, <2>2 DEF LaunchTypeOK, Stations, Goto
    <2> QED
      BY <1>1, <2>1, <2>2
  <1>4. LaunchTypeOK'
    BY <1>1, <1>2, <1>3 DEF LaunchTypeOK
  <1>5. OneStarter'
    <2>1. Starting' \subseteq Starting
      BY <1>3 DEF Starting
    <2> QED
      BY <1>1, <1>2, <2>1, StarterStays
  <1>6. Family'
    <2> SUFFICES ASSUME NEW s \in Alive', parent[s] \in Pids PROVE Related(s, parent[s])'
      BY <1>1 DEF Family
    <2>1. s \in Pids /\ at'[s] # "none" /\ at[s] # "none" /\ s \in Alive
      BY <1>1, <1>3 DEF Alive
    <2>2. Related(s, parent[s])
      BY <1>2, <2>1 DEF Family
    <2>3. CASE parent[s] = p
      BY <1>1, <1>3, <2>1, <2>2, <2>3 DEF Related
    <2>4. CASE parent[s] # p
      <3>1. at'[parent[s]] = at[parent[s]]
        BY <1>3, <2>2, <2>4 DEF Related
      <3>2. CASE s = p
        BY <1>1, <1>3, <2>2, <3>1, <3>2 DEF Related, Past
      <3>3. CASE s # p
        BY <1>1, <1>3, <2>1, <2>2, <3>1, <3>3 DEF Related
      <3> QED
        BY <3>2, <3>3
    <2> QED
      BY <2>3, <2>4
  <1>7. OneApplication'
    <2>1. torn = {} => p = Application
      BY <1>1, <1>2 DEF OneApplication, Past, Alive
    <2> QED
      BY <1>1, <1>2, <1>3, <2>1 DEF OneApplication, Past, Alive
  <1> QED
    BY <1>4, <1>5, <1>6, <1>7 DEF LaunchIInv

(* Every step of every process keeps the invariant.                        *)
LEMMA StepLaunchIInv == LaunchIInv /\ [LaunchNext]_launchVars => LaunchIInv'
  <1> SUFFICES ASSUME LaunchIInv, [LaunchNext]_launchVars PROVE LaunchIInv'
    OBVIOUS
  <1>1. CASE UNCHANGED launchVars
    BY <1>1 DEF launchVars, LaunchIInv, LaunchTypeOK, OneStarter, Starting, Family, Related,
                Alive, OneApplication
  <1>2. ASSUME NEW p \in Pids, NEW standalone \in BOOLEAN, NEW wait \in BOOLEAN,
               createProcWithArg(p, standalone, wait)
        PROVE  LaunchIInv'
    BY <1>2, StepCall
  <1>3. ASSUME NEW p \in Pids, LaunchContinue(p) PROVE LaunchIInv'
    <2>1. CASE Exit(p)
      BY <2>1, StepEnds DEF Exit
    <2> QED
      BY <1>3, <2>1, StepFork, StepForkAgain, StepExec, StepReturn DEF LaunchContinue
  <1>4. ASSUME NEW p \in Pids, Finish(p) PROVE LaunchIInv'
    BY <1>4, StepEnds DEF Finish
  <1> QED
    BY <1>1, <1>2, <1>3, <1>4 DEF LaunchNext

(* createProcWithArg starts a program at most once per call, leaves no     *)
(* child behind where it says it does not, and as long as no second fork   *)
(* failed the application goes on in one process: for any processes and    *)
(* calls, whoever fails to fork or to start and whoever ends when.         *)
THEOREM LaunchesSound == LaunchSpec => []LaunchSound
  <1> QED
    BY InitLaunchIInv, StepLaunchIInv, LaunchSafe, PTL DEF LaunchSpec

-----------------------------------------------------------------------------
(* The blocking queue.                                                     *)

Elements == [id : 1 .. NumValues, full : BOOLEAN]

(* Every value that a pusher waits to append still fits under the bound.   *)
Reserved == accepted + Cardinality(Pushers) <= NumValues

(* A value that was not accepted was not handed out either.                *)
Unsent == \A v \in 1 .. NumValues : v > accepted => handed[v] = 0

Bounded == Len(m_queueData) <= m_uCapSize

QueueIInv == TypeOK /\ Reserved /\ FifoOrder /\ HandedOnce /\ Unsent /\ Bounded

(* Pushers are threads, and so finitely many.                              *)
LEMMA PushersFinite == IsFiniteSet(Pushers)
BY LockQueueAssumption, FS_Subset DEF Pushers, Waiting, Woken, At

(* A step after which nobody new is among the pushers takes no reserved    *)
(* place.                                                                  *)
LEMMA SamePushers ==
    ASSUME QueueIInv, Pushers' \subseteq Pushers, accepted' = accepted
    PROVE  Reserved'
<1>1. IsFiniteSet(Pushers) /\ Cardinality(Pushers) \in Nat
  BY PushersFinite, FS_CardinalityType
<1>2. Cardinality(Pushers') <= Cardinality(Pushers) /\ Cardinality(Pushers') \in Nat
  BY <1>1, FS_Subset, FS_CardinalityType
<1> QED
  BY <1>1, <1>2, LockQueueAssumption DEF QueueIInv, TypeOK, Reserved

(* The invariant holds at the beginning.                                   *)
LEMMA InitQueue == Init => QueueIInv
<1> SUFFICES ASSUME Init PROVE QueueIInv
  OBVIOUS
<1>1. Pushers = {}
  BY DEF Init, Pushers, Waiting, Woken, At, Idle
<1>2. Cardinality(Pushers) = 0
  BY <1>1, FS_EmptySet
<1>3. m_queueData \in Seq(Elements) /\ Len(m_queueData) = 0
  BY DEF Init
<1>4. Idle \in Ops
  BY DEF Ops
<1>5. TypeOK
  <2>1. m_queueData \in Seq([id : 1 .. NumValues, full : BOOLEAN])
    BY <1>3 DEF Elements
  <2>2. op \in [Threads -> Ops]
    BY <1>4 DEF Init
  <2>3. /\ m_uCapSize \in Capacities /\ m_bStop \in BOOLEAN
        /\ swallowed \in BOOLEAN
    BY DEF Init
  <2>5. accepted \in 0 .. NumValues /\ spurious \in 0 .. NumSpurious
    BY LockQueueAssumption DEF Init
  <2>4. handed \in [1 .. NumValues -> Nat]
    BY DEF Init
  <2> QED
    BY <2>1, <2>2, <2>3, <2>4, <2>5 DEF TypeOK
<1>6. Reserved /\ Unsent /\ Bounded /\ FifoOrder /\ HandedOnce
  BY <1>2, <1>3, LockQueueAssumption DEF Init, Reserved, Unsent, Bounded, FifoOrder, HandedOnce
<1> QED
  BY <1>5, <1>6 DEF QueueIInv

(* A record that says what a thread waits for, after it was woken.         *)
LEMMA WokenOp ==
    ASSUME NEW o \in Ops, o.at = "wait"
    PROVE  /\ o.call \in Readers \union {"push"}
           /\ [o EXCEPT !.at = "woken"] \in Ops
           /\ [o EXCEPT !.at = "woken"].at = "woken"
           /\ [o EXCEPT !.at = "woken"].call = o.call
<1>1. o \in [at : {"wait", "woken"}, call : Readers \union {"push"}]
  BY DEF Ops, Idle
<1> QED
  BY <1>1 DEF Ops

(* One thread changes its place.                                           *)
LEMMA ChangeOne ==
    ASSUME op \in [Threads -> Ops], NEW t \in Threads, NEW o \in Ops, op' = [op EXCEPT ![t] = o]
    PROVE  /\ op' \in [Threads -> Ops]
           /\ ~ (o.at \in {"wait", "woken"} /\ o.call = "push") => Pushers' = Pushers \ {t}
           /\ o.at \in {"wait", "woken"} /\ o.call = "push" => Pushers' = Pushers \union {t}
BY DEF Pushers, Waiting, Woken, At
-----------------------------------------------------------------------------
(* The parts of the invariant that speak of the data only.                 *)
Data ==
    /\ m_queueData \in Seq(Elements)
    /\ handed \in [1 .. NumValues -> Nat]
    /\ accepted \in 0 .. NumValues
    /\ m_uCapSize \in Capacities
    /\ FifoOrder /\ HandedOnce /\ Unsent /\ Bounded

(* The data and the calls make up the invariant.                           *)
LEMMA Parts ==
    QueueIInv <=> /\ Data /\ Reserved
             /\ op \in [Threads -> Ops]
             /\ m_bStop \in BOOLEAN /\ swallowed \in BOOLEAN
             /\ spurious \in 0 .. NumSpurious
BY DEF QueueIInv, TypeOK, Data, Elements

(* A new value at the end.                                                 *)
LEMMA DataAppended ==
    ASSUME Data, accepted < NumValues, Len(m_queueData) # m_uCapSize,
           m_queueData' = Append(m_queueData, [id |-> accepted + 1, full |-> TRUE]),
           accepted' = accepted + 1,
           UNCHANGED <<m_uCapSize, handed>>
    PROVE  Data'
<1> DEFINE e == [id |-> accepted + 1, full |-> TRUE]
           n == Len(m_queueData)
<1>1. n \in Nat /\ accepted \in Nat /\ NumValues \in Nat /\ m_uCapSize \in Nat
  BY LockQueueAssumption DEF Data
<1>2. e \in Elements
  BY <1>1 DEF Elements
<1>3. /\ m_queueData' \in Seq(Elements) /\ Len(m_queueData') = n + 1
      /\ \A i \in 1 .. n : m_queueData'[i] = m_queueData[i]
      /\ m_queueData'[n + 1] = e
  BY <1>1, <1>2 DEF Data
<1>4. FifoOrder'
  <2>1. \A i \in 1 .. n : m_queueData'[i].id = accepted - n + i
    BY <1>3 DEF Data, FifoOrder
  <2> QED
    BY <1>1, <1>3, <2>1 DEF Data, FifoOrder
<1>5. HandedOnce'
  <2>1. \A i \in 1 .. n : m_queueData'[i].full <=> handed[m_queueData'[i].id] = 0
    BY <1>3 DEF Data, HandedOnce
  <2>2. handed[accepted + 1] = 0
    BY <1>1 DEF Data, Unsent
  <2>3. e.full <=> handed[e.id] = 0
    BY <2>2
  <2>4. \A i \in 1 .. n + 1 : m_queueData'[i].full <=> handed[m_queueData'[i].id] = 0
    BY <1>1, <1>3, <2>1, <2>3
  <2> QED
    BY <1>3, <2>4 DEF Data, HandedOnce
<1>6. Unsent' /\ Bounded'
  BY <1>1, <1>3 DEF Data, Unsent, Bounded
<1> QED
  BY <1>1, <1>3, <1>4, <1>5, <1>6 DEF Data

(* What a call hands out, it hands out for the first time.                 *)
LEMMA Handing ==
    ASSUME Data, m_queueData # <<>>
    PROVE  /\ Len(m_queueData) \in Nat /\ Len(m_queueData) >= 1
           /\ Head(m_queueData) = m_queueData[1]
           /\ m_queueData[1].id = accepted - Len(m_queueData) + 1
           /\ m_queueData[1].id \in 1 .. accepted
           /\ HandFirst \in [1 .. NumValues -> Nat]
           /\ HandFirst[m_queueData[1].id] = 1
           /\ \A v \in 1 .. NumValues :
                  v # m_queueData[1].id => HandFirst[v] = handed[v]
<1> DEFINE n == Len(m_queueData)
           h == m_queueData[1].id
<1>1. n \in Nat /\ n >= 1 /\ Head(m_queueData) = m_queueData[1]
  BY DEF Data
<1>2. accepted \in Nat /\ accepted <= NumValues /\ NumValues \in Nat
  BY LockQueueAssumption DEF Data
<1>3. n <= accepted /\ h = accepted - n + 1 /\ h \in 1 .. accepted
  BY <1>1, <1>2 DEF Data, FifoOrder
<1>4. h \in 1 .. NumValues /\ handed[h] \in Nat /\ handed[h] <= 1
  BY <1>2, <1>3 DEF Data, HandedOnce
<1>5. m_queueData[1].full <=> handed[h] = 0
  BY <1>1 DEF Data, HandedOnce
<1>6. HandFirst = IF m_queueData[1].full THEN [handed EXCEPT ![h] = @ + 1] ELSE handed
  BY <1>1 DEF HandFirst
<1>7. handed \in [1 .. NumValues -> Nat]
  BY DEF Data
<1>8. CASE m_queueData[1].full
  <2>0. handed[h] = 0 /\ HandFirst = [handed EXCEPT ![h] = handed[h] + 1]
    BY <1>5, <1>6, <1>8
  <2>1. HandFirst = [handed EXCEPT ![h] = 1]
    BY <2>0
  <2> QED
    BY <1>1, <1>3, <1>4, <1>7, <2>1
<1>9. CASE ~ m_queueData[1].full
  <2>1. HandFirst = handed /\ handed[h] = 1
    BY <1>4, <1>5, <1>6, <1>9
  <2> QED
    BY <1>1, <1>3, <1>4, <1>7, <2>1
<1> QED
  BY <1>8, <1>9

(* The first element leaves; its value may go to the caller.               *)
LEMMA DataRemoved ==
    ASSUME Data, m_queueData' = WithoutFirst, handed' \in {handed, HandFirst},
           UNCHANGED <<accepted, m_uCapSize>>
    PROVE  Data'
<1>1. CASE m_queueData = <<>>
  <2>1. UNCHANGED <<m_queueData, handed>>
    BY <1>1 DEF WithoutFirst, HandFirst
  <2> QED
    BY <2>1 DEF Data, FifoOrder, HandedOnce, Unsent, Bounded
<1>2. CASE m_queueData # <<>>
  <2> DEFINE n == Len(m_queueData)
             h == m_queueData[1].id
  <2> USE <1>2
  <2>1. /\ n \in Nat /\ n >= 1 /\ h = accepted - n + 1 /\ h \in 1 .. accepted
        /\ accepted \in Nat /\ accepted <= NumValues /\ NumValues \in Nat
    BY Handing, LockQueueAssumption DEF Data
  <2>2. /\ handed' \in [1 .. NumValues -> Nat]
        /\ handed'[h] <= 1
        /\ \A v \in 1 .. NumValues : v # h => handed'[v] = handed[v]
    BY <2>1, Handing DEF Data, HandedOnce
  <2>3. /\ m_queueData' \in Seq(Elements) /\ Len(m_queueData') = n - 1
        /\ \A i \in 1 .. n - 1 : m_queueData'[i] = m_queueData[i + 1]
    BY <2>1 DEF Data, WithoutFirst
  <2>4. \A i \in 1 .. n - 1 :
           /\ m_queueData'[i].id = h + i
           /\ m_queueData'[i].full <=> handed[h + i] = 0
    <3>1. \A i \in 1 .. n : /\ m_queueData[i].id = accepted - n + i
                            /\ m_queueData[i].full <=> handed[m_queueData[i].id] = 0
      BY DEF Data, FifoOrder, HandedOnce
    <3>2. SUFFICES ASSUME NEW i \in 1 .. n - 1
                   PROVE  /\ m_queueData'[i].id = h + i
                          /\ m_queueData'[i].full <=> handed[h + i] = 0
      OBVIOUS
    <3>3. i + 1 \in 1 .. n /\ accepted - n + (i + 1) = h + i
      BY <2>1
    <3>4. m_queueData'[i] = m_queueData[i + 1]
      BY <2>3
    <3>5. m_queueData[i + 1].id = h + i
      BY <3>1, <3>3
    <3>6. m_queueData[i + 1].full <=> handed[m_queueData[i + 1].id] = 0
      BY <3>1, <3>3
    <3> QED
      BY <3>4, <3>5, <3>6
  <2>5. FifoOrder'
    BY <2>1, <2>3, <2>4 DEF FifoOrder
  <2>6. HandedOnce'
    <3>1. \A i \in 1 .. n - 1 : h + i \in 1 .. NumValues /\ handed'[h + i] = handed[h + i]
      BY <2>1, <2>2
    <3>2. \A v \in 1 .. NumValues : handed'[v] <= 1
      BY <2>2 DEF Data, HandedOnce
    <3> QED
      BY <2>3, <2>4, <3>1, <3>2 DEF HandedOnce
  <2>7. Unsent'
    BY <2>1, <2>2 DEF Data, Unsent
  <2>8. Bounded'
    BY <2>1, <2>3, LockQueueAssumption DEF Data, Bounded
  <2> QED
    BY <2>2, <2>3, <2>5, <2>6, <2>7, <2>8 DEF Data
<1> QED
  BY <1>1, <1>2

(* The value of the first element goes to the caller, the element stays.   *)
LEMMA DataMoved ==
    ASSUME Data, m_queueData' = FirstMoved, handed' = HandFirst,
           UNCHANGED <<accepted, m_uCapSize>>
    PROVE  Data'
<1>1. CASE m_queueData = <<>>
  <2>1. UNCHANGED <<m_queueData, handed>>
    BY <1>1 DEF FirstMoved, HandFirst
  <2> QED
    BY <2>1 DEF Data, FifoOrder, HandedOnce, Unsent, Bounded
<1>2. CASE m_queueData # <<>>
  <2> DEFINE n == Len(m_queueData)
             h == m_queueData[1].id
  <2> USE <1>2
  <2>1. /\ n \in Nat /\ n >= 1 /\ h = accepted - n + 1 /\ h \in 1 .. accepted
        /\ accepted \in Nat /\ accepted <= NumValues /\ NumValues \in Nat
    BY Handing, LockQueueAssumption DEF Data
  <2>2. /\ handed' \in [1 .. NumValues -> Nat] /\ handed'[h] = 1
        /\ \A v \in 1 .. NumValues : v # h => handed'[v] = handed[v]
    BY Handing
  <2>3. m_queueData' = [m_queueData EXCEPT ![1].full = FALSE]
    BY DEF FirstMoved
  <2>4. \A i \in 1 .. n : m_queueData[i] \in Elements
    BY DEF Data
  <2>5. /\ m_queueData' \in Seq(Elements) /\ Len(m_queueData') = n
        /\ m_queueData'[1].id = h /\ m_queueData'[1].full = FALSE
        /\ \A i \in 2 .. n : m_queueData'[i] = m_queueData[i]
    <3>1. m_queueData[1] \in Elements
      BY <2>1, <2>4
    <3> DEFINE e == [m_queueData[1] EXCEPT !.full = FALSE]
    <3>2. e \in Elements /\ e.id = h /\ e.full = FALSE
      BY <3>1 DEF Elements
    <3>3. m_queueData' = [m_queueData EXCEPT ![1] = e]
      BY <2>3
    <3> HIDE DEF e
    <3>5. m_queueData' \in Seq(Elements) /\ Len(m_queueData') = n
      BY <2>1, <3>2, <3>3 DEF Data
    <3>6. m_queueData'[1] = e
      BY <2>1, <3>3 DEF Data
    <3>7. \A i \in 2 .. n : m_queueData'[i] = m_queueData[i]
      BY <2>1, <3>3 DEF Data
    <3> QED
      BY <3>2, <3>5, <3>6, <3>7
  <2>6. FifoOrder'
    BY <2>1, <2>5 DEF Data, FifoOrder
  <2>7. HandedOnce'
    <3>1. \A i \in 2 .. n : m_queueData[i].id \in 1 .. NumValues /\ m_queueData[i].id # h
      <4>1. \A i \in 1 .. n : m_queueData[i].id = accepted - n + i
        BY DEF Data, FifoOrder
      <4>2. \A i \in 2 .. n : i \in 1 .. n /\ accepted - n + i \in 1 .. NumValues
                               /\ accepted - n + i # h
        BY <2>1, Handing DEF Data, FifoOrder
      <4> QED
        BY <4>1, <4>2
    <3>2. \A i \in 2 .. n : m_queueData'[i].full <=> handed'[m_queueData'[i].id] = 0
      <4>1. \A i \in 1 .. n : m_queueData[i].full <=> handed[m_queueData[i].id] = 0
        BY DEF Data, HandedOnce
      <4>2. SUFFICES ASSUME NEW i \in 2 .. n
                     PROVE  m_queueData'[i].full <=> handed'[m_queueData'[i].id] = 0
        OBVIOUS
      <4>3. i \in 1 .. n /\ m_queueData'[i] = m_queueData[i]
        BY <2>1, <2>5
      <4>4. handed'[m_queueData[i].id] = handed[m_queueData[i].id]
        BY <2>2, <3>1
      <4> QED
        BY <4>1, <4>3, <4>4
    <3>3. m_queueData'[1].full <=> handed'[m_queueData'[1].id] = 0
      BY <2>2, <2>5
    <3>4. \A v \in 1 .. NumValues : handed'[v] <= 1
      BY <2>2 DEF Data, HandedOnce
    <3>5. \A i \in 1 .. n : m_queueData'[i].full <=> handed'[m_queueData'[i].id] = 0
      BY <2>1, <3>2, <3>3
    <3> QED
      BY <2>5, <3>4, <3>5 DEF HandedOnce
  <2>8. Unsent'
    BY <2>1, <2>2 DEF Data, Unsent
  <2>9. Bounded'
    BY <2>5 DEF Data, Bounded
  <2> QED
    BY <2>2, <2>5, <2>6, <2>7, <2>8, <2>9 DEF Data
<1> QED
  BY <1>1, <1>2

-----------------------------------------------------------------------------
(* A step that takes the pushers no further and treats the data well.      *)
LEMMA CallsChange ==
    ASSUME QueueIInv, Data', op' \in [Threads -> Ops], Pushers' \subseteq Pushers,
           accepted' = accepted, m_bStop' \in BOOLEAN, swallowed' \in BOOLEAN,
           spurious' \in 0 .. NumSpurious
    PROVE  QueueIInv'
<1>1. Reserved'
  BY SamePushers
<1> QED
  BY <1>1 DEF QueueIInv, TypeOK, Data, Elements

(* Notifications, waits and wakeups leave the data alone.                  *)
LEMMA SameData ==
    ASSUME Data, UNCHANGED <<m_queueData, handed, accepted, m_uCapSize>>
    PROVE  Data'
BY DEF Data, FifoOrder, HandedOnce, Unsent, Bounded

(* The places that calls go to.                                            *)
LEMMA OpsKinds ==
    /\ Idle \in Ops
    /\ \A place \in {"notifyRead", "notifyWrite", "stopWrite", "stopRead"} :
           [at |-> place] \in Ops
    /\ \A call \in Readers \union {"push"} : [at |-> "wait", call |-> call] \in Ops
BY DEF Ops

(* A reader starts to wait.                                                *)
LEMMA ReaderBlocks ==
    ASSUME QueueIInv, NEW t \in Threads, NEW call \in Readers, Blocks(t, call)
    PROVE  QueueIInv'
<1> DEFINE o == [at |-> "wait", call |-> call]
<1>1. o \in Ops /\ o.call # "push"
  BY OpsKinds DEF Readers
<1>2. op' \in [Threads -> Ops] /\ Pushers' \subseteq Pushers
  BY <1>1, ChangeOne DEF QueueIInv, TypeOK, Blocks
<1>3. Data /\ Data'
  BY Parts, SameData DEF Blocks
<1> QED
  BY <1>2, <1>3, CallsChange, Parts DEF Blocks

(* A call ends, or comes to a place where it waits for nothing.            *)
LEMMA GoesOn ==
    ASSUME QueueIInv, NEW t \in Threads, NEW o \in Ops, o.at \notin {"wait", "woken"},
           op' = [op EXCEPT ![t] = o], Data', accepted' = accepted,
           m_bStop' \in BOOLEAN, swallowed' \in BOOLEAN, spurious' = spurious
    PROVE  QueueIInv'
<1>1. op' \in [Threads -> Ops] /\ Pushers' \subseteq Pushers
  BY ChangeOne DEF QueueIInv, TypeOK
<1> QED
  BY <1>1, CallsChange, Parts

(* push waits, gives up or appends.                                        *)
LEMMA StepPush == ASSUME QueueIInv, NEW t \in Threads, Push(t) PROVE QueueIInv'
<1>1. /\ IsFiniteSet(Pushers) /\ Cardinality(Pushers) \in Nat
      /\ accepted \in Nat /\ NumValues \in Nat
      /\ accepted + Cardinality(Pushers) <= NumValues
  BY PushersFinite, FS_CardinalityType, LockQueueAssumption DEF QueueIInv, TypeOK, Reserved
<1>2. op \in [Threads -> Ops] /\ Data
  BY Parts
<1>3. t \in Pushers \/ accepted + Cardinality(Pushers) < NumValues
  BY DEF Push, Enters, Pushers, Waiting, Woken, At
<1>4. CASE ~ WriteReady /\ Blocks(t, "push")
  <2> DEFINE o == [at |-> "wait", call |-> "push"]
  <2>1. o \in Ops
    BY OpsKinds
  <2>2. op' \in [Threads -> Ops] /\ Pushers' = Pushers \union {t}
    BY <1>2, <1>4, <2>1, ChangeOne DEF Blocks
  <2>3. Cardinality(Pushers') = IF t \in Pushers THEN Cardinality(Pushers)
                                ELSE Cardinality(Pushers) + 1
    BY <1>1, <2>2, FS_AddElement
  <2>4. Reserved'
    BY <1>1, <1>3, <1>4, <2>3 DEF Blocks, Reserved
  <2>5. Data'
    BY <1>2, <1>4, SameData DEF Blocks
  <2> QED
    BY <1>4, <2>2, <2>4, <2>5 DEF QueueIInv, TypeOK, Data, Elements, Blocks
<1>5. CASE WriteReady /\ m_bStop
  <2>1. op' = [op EXCEPT ![t] = Idle] /\ Idle \in Ops /\ Idle.at = "idle"
    BY <1>5, OpsKinds DEF Push, Blocks, Idle
  <2>2. UNCHANGED <<m_queueData, m_uCapSize, m_bStop, accepted, handed, swallowed, spurious>>
    BY <1>5 DEF Push, Blocks
  <2>3. Data'
    BY <1>2, <2>2, SameData
  <2> QED
    BY <2>1, <2>2, <2>3, GoesOn, Parts
<1>6. CASE WriteReady /\ ~ m_bStop /\ ~ (~ WriteReady /\ Blocks(t, "push"))
  <2> DEFINE o == [at |-> "notifyRead"]
  <2>1. /\ op' = [op EXCEPT ![t] = o]
        /\ m_queueData' = Append(m_queueData, [id |-> accepted + 1, full |-> TRUE])
        /\ accepted' = accepted + 1
        /\ UNCHANGED <<m_uCapSize, m_bStop, handed, swallowed, spurious>>
    BY <1>6 DEF Push
  <2>2. o \in Ops
    BY OpsKinds
  <2>3. op' \in [Threads -> Ops] /\ Pushers' = Pushers \ {t}
    BY <1>2, <2>1, <2>2, ChangeOne
  <2>4. Cardinality(Pushers') = IF t \in Pushers THEN Cardinality(Pushers) - 1
                                ELSE Cardinality(Pushers)
    BY <1>1, <2>3, FS_RemoveElement
  <2>5. accepted < NumValues /\ Reserved'
    <3>1. t \in Pushers => Cardinality(Pushers) >= 1
      BY <1>1, FS_EmptySet
    <3> QED
      BY <1>1, <1>3, <2>1, <2>4, <3>1 DEF Reserved
  <2>6. Len(m_queueData) # m_uCapSize
    BY <1>6 DEF WriteReady
  <2>7. Data'
    BY <1>2, <2>1, <2>5, <2>6, DataAppended
  <2> QED
    BY <2>1, <2>3, <2>5, <2>7 DEF QueueIInv, TypeOK, Data, Elements
<1> QED
  BY <1>4, <1>5, <1>6 DEF Push

(* front empties the first element.                                        *)
LEMMA StepFront == ASSUME QueueIInv, NEW t \in Threads, Front(t) PROVE QueueIInv'
<1>1. CASE Blocks(t, "front")
  BY <1>1, ReaderBlocks DEF Readers
<1>2. CASE ~ Blocks(t, "front")
  <2>1. /\ handed' = HandFirst /\ m_queueData' = FirstMoved
        /\ op' = [op EXCEPT ![t] = Idle]
        /\ swallowed' \in BOOLEAN
        /\ UNCHANGED <<m_uCapSize, m_bStop, accepted, spurious>>
    BY <1>2 DEF Front
  <2>2. Data'
    BY <2>1, DataMoved, Parts
  <2> QED
    BY <2>1, <2>2, GoesOn, OpsKinds, Parts DEF Idle
<1> QED
  BY <1>1, <1>2

(* back looks at the last element.                                         *)
LEMMA StepBack == ASSUME QueueIInv, NEW t \in Threads, Back(t) PROVE QueueIInv'
<1>1. CASE Blocks(t, "back")
  BY <1>1, ReaderBlocks DEF Readers
<1>2. CASE ~ Blocks(t, "back")
  <2>1. /\ op' = [op EXCEPT ![t] = Idle]
        /\ swallowed' \in BOOLEAN
        /\ UNCHANGED <<m_queueData, handed, m_uCapSize, m_bStop, accepted, spurious>>
    BY <1>2 DEF Back
  <2>2. Data'
    BY <2>1, SameData, Parts
  <2> QED
    BY <2>1, <2>2, GoesOn, OpsKinds, Parts DEF Idle
<1> QED
  BY <1>1, <1>2

(* pop drops the first element.                                            *)
LEMMA StepPop == ASSUME QueueIInv, NEW t \in Threads, Pop(t) PROVE QueueIInv'
<1>1. CASE Blocks(t, "pop")
  BY <1>1, ReaderBlocks DEF Readers
<1>2. CASE ~ Blocks(t, "pop")
  <2>1. /\ op' = [op EXCEPT ![t] = [at |-> "notifyWrite"]]
        /\ m_queueData' = WithoutFirst
        /\ UNCHANGED <<handed, m_uCapSize, m_bStop, accepted, swallowed, spurious>>
    BY <1>2 DEF Pop
  <2>2. Data'
    BY <2>1, DataRemoved, Parts
  <2> QED
    BY <2>1, <2>2, GoesOn, OpsKinds, Parts
<1> QED
  BY <1>1, <1>2

(* pop_front takes the first element.                                      *)
LEMMA StepPopFront == ASSUME QueueIInv, NEW t \in Threads, PopFront(t) PROVE QueueIInv'
<1>1. CASE Blocks(t, "pop_front")
  BY <1>1, ReaderBlocks DEF Readers
<1>2. CASE ~ Blocks(t, "pop_front")
  <2>1. /\ op' = [op EXCEPT ![t] = [at |-> "notifyWrite"]]
        /\ m_queueData' = WithoutFirst /\ handed' = HandFirst
        /\ UNCHANGED <<m_uCapSize, m_bStop, accepted, swallowed, spurious>>
    BY <1>2 DEF PopFront
  <2>2. Data'
    BY <2>1, DataRemoved, Parts
  <2> QED
    BY <2>1, <2>2, GoesOn, OpsKinds, Parts
<1> QED
  BY <1>1, <1>2

(* Thread t goes on from a place where it waits for nothing, and some      *)
(* waiting threads are woken: nobody joins the pushers.                    *)
LEMMA Waking ==
    ASSUME QueueIInv, NEW t \in Threads, NEW o \in Ops, o.at \notin {"wait", "woken"},
           NEW W \in SUBSET At("wait"), t \notin W,
           op' = [u \in Threads |-> IF u = t THEN o
                                    ELSE IF u \in W THEN [op[u] EXCEPT !.at = "woken"]
                                    ELSE op[u]],
           UNCHANGED <<m_queueData, m_uCapSize, m_bStop, accepted, handed, swallowed, spurious>>
    PROVE  QueueIInv'
<1>1. op \in [Threads -> Ops] /\ Data
  BY Parts
<1>2. \A u \in W : /\ [op[u] EXCEPT !.at = "woken"] \in Ops
                    /\ [op[u] EXCEPT !.at = "woken"].call = op[u].call
  BY <1>1, WokenOp DEF At
<1>3. op' \in [Threads -> Ops]
  BY <1>1, <1>2
<1>4. Pushers' \subseteq Pushers
  <2> SUFFICES ASSUME NEW u \in Pushers' PROVE u \in Pushers
    OBVIOUS
  <2>1. u \in Threads /\ op'[u].at \in {"wait", "woken"} /\ op'[u].call = "push"
    BY DEF Pushers, Waiting, Woken, At
  <2>2. u # t
    BY <2>1
  <2>3. CASE u \in W
    <3>1. op[u].at = "wait" /\ op[u].call = "push"
      BY <1>2, <2>1, <2>2, <2>3 DEF At
    <3> QED
      BY <2>1, <3>1 DEF Pushers, Waiting, At
  <2>4. CASE u \notin W
    <3>1. op'[u] = op[u]
      BY <2>1, <2>2, <2>4
    <3> QED
      BY <2>1, <3>1 DEF Pushers, Waiting, Woken, At
  <2> QED
    BY <2>3, <2>4
<1>5. Data'
  BY <1>1, SameData
<1> QED
  BY <1>3, <1>4, <1>5, CallsChange, Parts

(* A notification wakes at most one thread.                                *)
LEMMA StepNotify ==
    ASSUME QueueIInv, NEW t \in Threads, op[t].at \in {"notifyRead", "notifyWrite"},
           NEW kinds, NotifyOne(t, Waiting(kinds)),
           UNCHANGED <<m_queueData, m_uCapSize, m_bStop, accepted, handed, swallowed, spurious>>
    PROVE  QueueIInv'
<1>1. op \in [Threads -> Ops] /\ Data
  BY Parts
<1>2. CASE op' = [op EXCEPT ![t] = Idle]
  <2>1. Data'
    BY <1>1, SameData
  <2> QED
    BY <1>2, <2>1, GoesOn, OpsKinds, Parts DEF Idle
<1>3. ASSUME NEW u \in Waiting(kinds), op' = [op EXCEPT ![t] = Idle, ![u].at = "woken"]
      PROVE  QueueIInv'
  <2>1. u \in Threads /\ op[u].at = "wait" /\ u # t
    BY DEF Waiting, At
  <2>2. {u} \in SUBSET At("wait") /\ t \notin {u}
    BY <2>1 DEF At
  <2>3. op' = [v \in Threads |-> IF v = t THEN Idle
                                 ELSE IF v \in {u} THEN [op[v] EXCEPT !.at = "woken"]
                                 ELSE op[v]]
    BY <1>1, <1>3, <2>1
  <2>4. Idle \in Ops /\ Idle.at \notin {"wait", "woken"}
    BY OpsKinds DEF Idle
  <2> QED
    BY <2>2, <2>3, <2>4, Waking
<1> QED
  BY <1>2, <1>3 DEF NotifyOne

(* wakeup stops the queue.                                                 *)
LEMMA StepWakeup == ASSUME QueueIInv, NEW t \in Threads, Wakeup(t) PROVE QueueIInv'
<1>1. Data'
  BY Parts, SameData DEF Wakeup
<1> QED
  BY <1>1, GoesOn, OpsKinds, Parts DEF Wakeup

(* A stopped queue wakes everybody.                                        *)
LEMMA StepStop ==
    ASSUME QueueIInv, NEW t \in Threads, StopWrite(t) \/ StopRead(t) PROVE QueueIInv'
<1>1. \A kinds : Waiting(kinds) \in SUBSET At("wait")
  BY DEF Waiting
<1>2. t \notin At("wait")
  BY DEF StopWrite, StopRead, At
<1>3. CASE StopWrite(t)
  <2> DEFINE o == [at |-> "stopRead"]
  <2>1. o \in Ops /\ o.at \notin {"wait", "woken"}
    BY OpsKinds
  <2>2. Waiting({"push"}) \in SUBSET At("wait") /\ t \notin Waiting({"push"})
    BY <1>1, <1>2
  <2> QED
    BY <1>3, <2>1, <2>2, Waking DEF StopWrite, WakeAll
<1>4. CASE StopRead(t)
  <2>1. Idle \in Ops /\ Idle.at \notin {"wait", "woken"}
    BY OpsKinds DEF Idle
  <2>2. Waiting(Readers) \in SUBSET At("wait") /\ t \notin Waiting(Readers)
    BY <1>1, <1>2
  <2> QED
    BY <1>4, <2>1, <2>2, Waking DEF StopRead, WakeAll
<1> QED
  BY <1>3, <1>4

(* setSpaces changes the capacity of an empty queue.                       *)
LEMMA StepSetSpaces == ASSUME QueueIInv, NEW t \in Threads, SetSpaces(t) PROVE QueueIInv'
<1>1. Data /\ Reserved /\ op \in [Threads -> Ops]
  BY Parts
<1>2. Len(m_queueData) = 0
  BY <1>1 DEF SetSpaces, Data, FifoOrder
<1>3. Data'
  BY <1>1, <1>2, LockQueueAssumption
     DEF SetSpaces, Data, FifoOrder, HandedOnce, Unsent, Bounded
<1>4. Pushers' = Pushers
  BY DEF SetSpaces, Pushers, Waiting, Woken, At
<1> QED
  BY <1>1, <1>3, <1>4, CallsChange, Parts DEF SetSpaces

(* A thread wakes up without a notification.                               *)
LEMMA StepSpurious == ASSUME QueueIInv, NEW t \in Threads, SpuriousWakeup(t) PROVE QueueIInv'
<1>1. op \in [Threads -> Ops] /\ op[t] \in Ops /\ Data /\ spurious \in 0 .. NumSpurious
  BY Parts
<1> DEFINE o == [op[t] EXCEPT !.at = "woken"]
<1>2. o \in Ops /\ o.at = "woken" /\ o.call = op[t].call
  BY <1>1, WokenOp DEF SpuriousWakeup
<1>3. op' = [op EXCEPT ![t] = o]
  BY DEF SpuriousWakeup
<1>4. op' \in [Threads -> Ops] /\ Pushers' \subseteq Pushers
  <2> HIDE DEF o
  <2>1. o.call = "push" => t \in Pushers
    BY <1>2 DEF SpuriousWakeup, Pushers, Waiting, At
  <2> QED
    BY <1>1, <1>2, <1>3, <2>1, ChangeOne
<1>5. Data'
  BY <1>1, SameData DEF SpuriousWakeup
<1>6. spurious' \in 0 .. NumSpurious
  BY <1>1, LockQueueAssumption DEF SpuriousWakeup
<1> QED
  BY <1>4, <1>5, <1>6, CallsChange, Parts DEF SpuriousWakeup

(* Every step keeps the invariant.                                         *)
LEMMA StepQueue == QueueIInv /\ [Next]_vars => QueueIInv'
<1> SUFFICES ASSUME QueueIInv, [Next]_vars PROVE QueueIInv'
  OBVIOUS
<1>1. CASE UNCHANGED vars
  <2>1. Data' /\ Pushers' = Pushers
    BY <1>1, Parts, SameData DEF vars, Pushers, Waiting, Woken, At
  <2> QED
    BY <1>1, <2>1, CallsChange, Parts DEF vars
<1>2. ASSUME NEW t \in Threads,
             \/ Call(t) \/ NotifyRead(t) \/ NotifyWrite(t)
             \/ Wakeup(t) \/ StopWrite(t) \/ StopRead(t)
             \/ SetSpaces(t) \/ SpuriousWakeup(t)
      PROVE  QueueIInv'
  <2>1. CASE Call(t)
    BY <2>1, StepPush, StepFront, StepBack, StepPop, StepPopFront DEF Call
  <2>2. CASE NotifyRead(t)
    BY <2>2, StepNotify DEF NotifyRead
  <2>3. CASE NotifyWrite(t)
    BY <2>3, StepNotify DEF NotifyWrite
  <2>4. CASE Wakeup(t)
    BY <2>4, StepWakeup
  <2>5. CASE StopWrite(t) \/ StopRead(t)
    BY <2>5, StepStop
  <2>6. CASE SetSpaces(t)
    BY <2>6, StepSetSpaces
  <2>7. CASE SpuriousWakeup(t)
    BY <2>7, StepSpurious
  <2> QED
    BY <1>2, <2>1, <2>2, <2>3, <2>4, <2>5, <2>6, <2>7
<1> QED
  BY <1>1, <1>2 DEF Next

-----------------------------------------------------------------------------
(* The inductive invariant holds in every reachable state.                 *)
THEOREM QueueInvariant == Spec => []QueueIInv
BY InitQueue, StepQueue, PTL DEF Spec

(* Every variable keeps its type; accepted stays within its bound, because *)
(* the values that pushers wait to append are reserved.                    *)
THEOREM TypeCorrect == Spec => []TypeOK
<1>1. QueueIInv => TypeOK
  BY DEF QueueIInv
<1> QED
  BY <1>1, QueueInvariant, PTL

(* LockQueue.h is first in, first out, whatever its callers mix.           *)
THEOREM InOrder == Spec => []FifoOrder
<1>1. QueueIInv => FifoOrder
  BY DEF QueueIInv
<1> QED
  BY <1>1, QueueInvariant, PTL

(* No value is handed to two callers of front and pop_front, and an        *)
(* element is empty exactly when its value was handed out.                 *)
THEOREM HandedAtMostOnce == Spec => []HandedOnce
<1>1. QueueIInv => HandedOnce
  BY DEF QueueIInv
<1> QED
  BY <1>1, QueueInvariant, PTL

-----------------------------------------------------------------------------
(* The largest capacity exists.                                            *)
LEMMA LargestIs == Largest \in Capacities /\ \A d \in Capacities : d <= Largest
BY LockQueueAssumption, Zenon DEF Largest

(* What a step does to the channel: it sends, receives or leaves it alone. *)
LEMMA ChannelStep ==
    ASSUME QueueIInv, NEW t \in Threads,
           \/ Call(t) \/ NotifyRead(t) \/ NotifyWrite(t)
           \/ Wakeup(t) \/ StopWrite(t) \/ StopRead(t)
           \/ SetSpaces(t) \/ SpuriousWakeup(t)
    PROVE  \/ /\ accepted' = accepted
              /\ Len(m_queueData') = Len(m_queueData)
           \/ /\ accepted' = accepted + 1
              /\ Len(m_queueData') = Len(m_queueData) + 1
              /\ Len(m_queueData) # m_uCapSize
           \/ /\ accepted' = accepted
              /\ Len(m_queueData) > 0
              /\ Len(m_queueData') = Len(m_queueData) - 1
<1>1. m_queueData \in Seq(Elements)
  BY Parts DEF Data
<1>2. CASE Push(t)
  <2>1. CASE UNCHANGED <<accepted, m_queueData>>
    BY <2>1
  <2>2. CASE ~ UNCHANGED <<accepted, m_queueData>>
    <3>1. /\ m_queueData' = Append(m_queueData, [id |-> accepted + 1, full |-> TRUE])
          /\ accepted' = accepted + 1
          /\ WriteReady /\ ~ m_bStop
      BY <1>2, <2>2 DEF Push, Blocks
    <3> QED
      BY <1>1, <3>1 DEF WriteReady
  <2> QED
    BY <2>1, <2>2
<1>3. CASE Front(t)
  <2>1. CASE m_queueData = <<>> \/ Blocks(t, "front")
    BY <1>3, <2>1 DEF Front, FirstMoved, Blocks
  <2>2. CASE m_queueData # <<>> /\ ~ Blocks(t, "front")
    <3>1. m_queueData' = [m_queueData EXCEPT ![1].full = FALSE] /\ accepted' = accepted
      BY <1>3, <2>2 DEF Front, FirstMoved
    <3>2. Len(m_queueData') = Len(m_queueData)
      BY <1>1, <3>1
    <3> QED
      BY <3>1, <3>2
  <2> QED
    BY <2>1, <2>2
<1>4. CASE Back(t)
  BY <1>4 DEF Back, Blocks
<1>5. CASE Pop(t) \/ PopFront(t)
  <2>1. \/ UNCHANGED <<accepted, m_queueData>>
        \/ accepted' = accepted /\ m_queueData' = WithoutFirst
    BY <1>5 DEF Pop, PopFront, Blocks
  <2>2. CASE m_queueData = <<>>
    BY <2>1, <2>2 DEF WithoutFirst
  <2>3. CASE m_queueData # <<>>
    <3>1. Len(m_queueData) \in Nat /\ Len(m_queueData) > 0
      BY <1>1, <2>3
    <3>2. CASE accepted' = accepted /\ m_queueData' = WithoutFirst
      <4>1. Len(m_queueData') = Len(m_queueData) - 1
        BY <1>1, <2>3, <3>2 DEF WithoutFirst
      <4> QED
        BY <3>1, <3>2, <4>1
    <3> QED
      BY <2>1, <3>2
  <2> QED
    BY <2>2, <2>3
<1>6. CASE ~ Call(t)
  BY <1>6 DEF NotifyRead, NotifyWrite, Wakeup, StopWrite, StopRead, SetSpaces, SpuriousWakeup
<1> QED
  BY <1>2, <1>3, <1>4, <1>5, <1>6 DEF Call

(* LockQueue.h is a bounded channel of its largest capacity.               *)
THEOREM IsChannel == Spec => ImplementsChannel
<1>1. Init => Promise!Init
  <2>1. Init => accepted = 0 /\ Len(m_queueData) = 0
    BY DEF Init
  <2>2. 0 - 0 = 0
    OBVIOUS
  <2> QED
    BY <2>1, <2>2 DEF Promise!Init
<1>2. ASSUME QueueIInv, [Next]_vars
      PROVE  [Promise!Next]_<<accepted, accepted - Len(m_queueData)>>
  <2> DEFINE n == Len(m_queueData)
             n2 == Len(m_queueData')
  <2>0. m_queueData \in Seq(Elements) /\ FifoOrder /\ Bounded
    BY <1>2, Parts DEF Data
  <2>1. /\ accepted \in Nat /\ n \in Nat /\ n <= accepted
        /\ n <= m_uCapSize /\ m_uCapSize \in Nat
    <3>1. m_uCapSize \in Nat /\ accepted \in Nat
      <4>1. m_uCapSize \in Capacities /\ accepted \in 0 .. NumValues
        BY <1>2, Parts DEF Data
      <4> QED
        BY <4>1, LockQueueAssumption
    <3> QED
      BY <2>0, <3>1 DEF FifoOrder, Bounded
  <2>2. m_uCapSize <= Largest /\ Largest \in Nat
    BY <1>2, LargestIs, LockQueueAssumption, Parts DEF Data
  <2>3. CASE accepted' = accepted /\ n2 = n
    BY <2>3
  <2>4. CASE accepted' = accepted + 1 /\ n2 = n + 1 /\ n # m_uCapSize
    BY <2>1, <2>2, <2>4 DEF Promise!Next, Promise!Send
  <2>5. CASE accepted' = accepted /\ n > 0 /\ n2 = n - 1
    BY <2>1, <2>5 DEF Promise!Next, Promise!Receive
  <2>6. CASE UNCHANGED vars
    BY <2>3, <2>6 DEF vars
  <2>7. CASE Next
    BY <1>2, <2>3, <2>4, <2>5, <2>7, ChannelStep DEF Next
  <2> QED
    BY <1>2, <2>6, <2>7
<1> QED
  BY <1>1, <1>2, QueueInvariant, PTL DEF Spec, ImplementsChannel, Promise!Spec

-----------------------------------------------------------------------------
(* Who is on the way to each side: woken for it, or about to notify it.    *)
ReadersDue == Cardinality(Woken(Readers)) + Cardinality(At("notifyRead"))
WritersDue == Cardinality(Woken({"push"})) + Cardinality(At("notifyWrite"))

(* The threads in one place are finitely many, before a step and after it. *)
LEMMA PlacesFinite ==
    /\ \A S : IsFiniteSet(Woken(S)) /\ Cardinality(Woken(S)) \in Nat
    /\ \A p : IsFiniteSet(At(p)) /\ Cardinality(At(p)) \in Nat
    /\ \A S : IsFiniteSet(Woken(S)') /\ Cardinality(Woken(S)') \in Nat
    /\ \A p : IsFiniteSet(At(p)') /\ Cardinality(At(p)') \in Nat
<1>1. \A T \in SUBSET Threads : IsFiniteSet(T) /\ Cardinality(T) \in Nat
  BY LockQueueAssumption, FS_Subset, FS_CardinalityType
<1>2. /\ \A S : Woken(S) \in SUBSET Threads /\ Woken(S)' \in SUBSET Threads
      /\ \A p : At(p) \in SUBSET Threads /\ At(p)' \in SUBSET Threads
  BY DEF Woken, At
<1> QED
  BY <1>1, <1>2

(* Comparing finite sets that differ by one member.                        *)
LEMMA Comparing ==
    ASSUME NEW A, NEW B, IsFiniteSet(A), IsFiniteSet(B), NEW t
    PROVE  /\ A \subseteq B => Cardinality(A) <= Cardinality(B)
           /\ A \ {t} \subseteq B => Cardinality(A) - 1 <= Cardinality(B)
           /\ t \notin A /\ A \union {t} \subseteq B => Cardinality(A) + 1 <= Cardinality(B)
<1>1. ASSUME A \subseteq B PROVE Cardinality(A) <= Cardinality(B)
  BY <1>1, FS_Subset
<1>2. ASSUME A \ {t} \subseteq B PROVE Cardinality(A) - 1 <= Cardinality(B)
  <2>1. /\ IsFiniteSet(A \ {t})
        /\ Cardinality(A \ {t}) = IF t \in A THEN Cardinality(A) - 1 ELSE Cardinality(A)
    BY FS_RemoveElement
  <2>2. Cardinality(A \ {t}) <= Cardinality(B)
    BY <1>2, <2>1, FS_Subset
  <2>3. Cardinality(A) \in Nat /\ Cardinality(B) \in Nat
    BY FS_CardinalityType
  <2> QED
    BY <2>1, <2>2, <2>3
<1>3. ASSUME t \notin A, A \union {t} \subseteq B PROVE Cardinality(A) + 1 <= Cardinality(B)
  <2>1. IsFiniteSet(A \union {t}) /\ Cardinality(A \union {t}) = Cardinality(A) + 1
    BY <1>3, FS_AddElement
  <2> QED
    BY <1>3, <2>1, FS_Subset
<1> QED
  BY <1>1, <1>2, <1>3

(* Where the threads are after one of them went somewhere else.            *)
LEMMA OneMoves ==
    ASSUME op \in [Threads -> Ops], NEW t \in Threads, NEW o \in Ops, op' = [op EXCEPT ![t] = o]
    PROVE  /\ \A p : At(p)' = IF o.at = p THEN At(p) \union {t} ELSE At(p) \ {t}
           /\ \A S : Woken(S)' = IF o.at = "woken" /\ o.call \in S
                                 THEN Woken(S) \union {t} ELSE Woken(S) \ {t}
           /\ \A S : Waiting(S)' = IF o.at = "wait" /\ o.call \in S
                                   THEN Waiting(S) \union {t} ELSE Waiting(S) \ {t}
<1>1. \A u \in Threads : op'[u] = IF u = t THEN o ELSE op[u]
  OBVIOUS
<1>2. ASSUME NEW p PROVE At(p)' = IF o.at = p THEN At(p) \union {t} ELSE At(p) \ {t}
  BY <1>1 DEF At
<1>3. ASSUME NEW S
      PROVE  Woken(S)' = IF o.at = "woken" /\ o.call \in S
                         THEN Woken(S) \union {t} ELSE Woken(S) \ {t}
  BY <1>1 DEF At, Woken
<1>4. ASSUME NEW S
      PROVE  Waiting(S)' = IF o.at = "wait" /\ o.call \in S
                           THEN Waiting(S) \union {t} ELSE Waiting(S) \ {t}
  BY <1>1 DEF At, Waiting
<1> QED
  BY <1>2, <1>3, <1>4

(* A thread that makes a call, or goes on with one, is not elsewhere.      *)
LEMMA EnterPlace ==
    ASSUME NEW t \in Threads, NEW call, Enters(t, call)
    PROVE  /\ t \notin At("notifyRead") /\ t \notin At("notifyWrite") /\ t \notin At("wait")
           /\ \A S : call \notin S => t \notin Woken(S)
           /\ \A S : t \notin Waiting(S)
           /\ ~ Notified(t) => \A S : t \notin Woken(S)
BY DEF Enters, Idle, At, Woken, Waiting, Notified

(* A side loses nobody on the way, gains as many as it has more to do, and *)
(* nobody new sleeps there.                                                *)
LEMMA ReadersKept ==
    ASSUME NoReaderStranded, Len(m_queueData) \in Nat, Len(m_queueData') \in Nat,
           Waiting(Readers)' # {} /\ ~ swallowed' => Waiting(Readers) # {} /\ ~ swallowed,
           Len(m_queueData') - Len(m_queueData) <= ReadersDue' - ReadersDue
    PROVE  NoReaderStranded'
<1>1. ReadersDue \in Nat /\ ReadersDue' \in Nat
  BY PlacesFinite DEF ReadersDue
<1>2. Waiting(Readers) # {} /\ ~ swallowed => Len(m_queueData) <= ReadersDue
  BY DEF NoReaderStranded, ReadersDue
<1>3. Waiting(Readers)' # {} /\ ~ swallowed' => Len(m_queueData') <= ReadersDue'
  BY <1>1, <1>2
<1> QED
  BY <1>3 DEF NoReaderStranded, ReadersDue

LEMMA WritersKept ==
    ASSUME NoWriterStranded, Len(m_queueData) \in Nat, Len(m_queueData') \in Nat,
           m_uCapSize \in Nat, m_uCapSize' = m_uCapSize,
           Waiting({"push"})' # {} /\ ~ m_bStop' => Waiting({"push"}) # {} /\ ~ m_bStop,
           Len(m_queueData) - Len(m_queueData') <= WritersDue' - WritersDue
    PROVE  NoWriterStranded'
<1>1. WritersDue \in Nat /\ WritersDue' \in Nat
  BY PlacesFinite DEF WritersDue
<1>2. Waiting({"push"}) # {} /\ ~ m_bStop => m_uCapSize - Len(m_queueData) <= WritersDue
  BY DEF NoWriterStranded, WritersDue
<1>3. Waiting({"push"})' # {} /\ ~ m_bStop' => m_uCapSize' - Len(m_queueData') <= WritersDue'
  BY <1>1, <1>2
<1> QED
  BY <1>3 DEF NoWriterStranded, WritersDue

(* Nobody who is on the way to a side goes elsewhere.                      *)
LEMMA ReadersStay ==
    ASSUME Woken(Readers) \subseteq Woken(Readers)', At("notifyRead") \subseteq At("notifyRead")'
    PROVE  ReadersDue' - ReadersDue >= 0
<1>1. Cardinality(Woken(Readers)) <= Cardinality(Woken(Readers)')
  BY PlacesFinite, Comparing
<1>2. Cardinality(At("notifyRead")) <= Cardinality(At("notifyRead")')
  BY PlacesFinite, Comparing
<1> QED
  BY <1>1, <1>2, PlacesFinite DEF ReadersDue

LEMMA WritersStay ==
    ASSUME Woken({"push"}) \subseteq Woken({"push"})', At("notifyWrite") \subseteq At("notifyWrite")'
    PROVE  WritersDue' - WritersDue >= 0
<1>1. Cardinality(Woken({"push"})) <= Cardinality(Woken({"push"})')
  BY PlacesFinite, Comparing
<1>2. Cardinality(At("notifyWrite")) <= Cardinality(At("notifyWrite")')
  BY PlacesFinite, Comparing
<1> QED
  BY <1>1, <1>2, PlacesFinite DEF WritersDue

(* What every step starts from.                                            *)
LEMMA Stock ==
    ASSUME QueueIInv
    PROVE  /\ m_queueData \in Seq(Elements) /\ Len(m_queueData) \in Nat
           /\ m_uCapSize \in Nat /\ m_uCapSize > 0
           /\ op \in [Threads -> Ops]
<1>1. m_queueData \in Seq(Elements) /\ m_uCapSize \in Capacities /\ op \in [Threads -> Ops]
  BY Parts DEF Data
<1> QED
  BY <1>1, LockQueueAssumption

(* A call blocks: a reader only when there is nothing for it, a pusher only*)
(* when there is no place.                                                 *)
LEMMA BlocksStranded ==
    ASSUME QueueIInv, NobodyStranded, NEW t \in Threads, NEW call \in Readers \union {"push"},
           Enters(t, call), Blocks(t, call),
           call \in Readers => ~ ReadReady, call = "push" => ~ WriteReady
    PROVE  NobodyStranded'
<1> DEFINE o == [at |-> "wait", call |-> call]
<1>1. o \in Ops /\ o.at = "wait" /\ o.call = call /\ op' = [op EXCEPT ![t] = o]
      /\ UNCHANGED <<m_queueData, m_uCapSize, m_bStop, swallowed>>
  BY DEF Ops, Blocks
<1> HIDE DEF o
<1>2. /\ \A p : At(p)' = IF o.at = p THEN At(p) \union {t} ELSE At(p) \ {t}
      /\ \A S : Woken(S)' = IF o.at = "woken" /\ o.call \in S
                             THEN Woken(S) \union {t} ELSE Woken(S) \ {t}
      /\ \A S : Waiting(S)' = IF o.at = "wait" /\ o.call \in S
                               THEN Waiting(S) \union {t} ELSE Waiting(S) \ {t}
  BY <1>1, OneMoves, Stock
<1>3. At("notifyRead")' = At("notifyRead") /\ At("notifyWrite")' = At("notifyWrite")
  BY <1>1, <1>2, EnterPlace
<1>w. \A S : call \notin S => Woken(S)' = Woken(S) /\ Waiting(S)' = Waiting(S)
  BY <1>1, <1>2, EnterPlace
<1>4. CASE call = "push"
  <2>1. "push" \notin Readers
    BY DEF Readers
  <2>2. Woken(Readers)' = Woken(Readers) /\ Waiting(Readers)' = Waiting(Readers)
    BY <1>w, <1>4, <2>1
  <2>3. NoReaderStranded'
    BY <1>1, <1>3, <2>2, ReadersStay, ReadersKept, Stock DEF NobodyStranded
  <2>4. Len(m_queueData) = m_uCapSize
    BY <1>4 DEF WriteReady
  <2>5. m_uCapSize' - Len(m_queueData') <= WritersDue'
    BY <1>1, <2>4, Stock, PlacesFinite DEF WritersDue
  <2> QED
    BY <2>3, <2>5 DEF NobodyStranded, NoWriterStranded, WritersDue
<1>5. CASE call \in Readers
  <2>1. call \notin {"push"}
    BY <1>5 DEF Readers
  <2>2. Woken({"push"})' = Woken({"push"}) /\ Waiting({"push"})' = Waiting({"push"})
    BY <1>w, <2>1
  <2>3. NoWriterStranded'
    BY <1>1, <1>3, <2>2, WritersStay, WritersKept, Stock DEF NobodyStranded
  <2>4. Len(m_queueData) = 0
    BY <1>5 DEF ReadReady
  <2>5. Len(m_queueData') <= ReadersDue'
    BY <1>1, <2>4, PlacesFinite DEF ReadersDue
  <2> QED
    BY <2>3, <2>5 DEF NobodyStranded, NoReaderStranded, ReadersDue
<1> QED
  BY <1>4, <1>5

(* A value that is pushed has a notification of its own.                   *)
LEMMA PushStranded ==
    ASSUME QueueIInv, NobodyStranded, NEW t \in Threads, Push(t)
    PROVE  NobodyStranded'
<1>1. Enters(t, "push")
  BY DEF Push
<1>2. CASE ~ WriteReady /\ Blocks(t, "push")
  BY <1>1, <1>2, BlocksStranded DEF Readers
<1>3. CASE WriteReady /\ ~ m_bStop
  <2> DEFINE o == [at |-> "notifyRead"]
  <2>1. o \in Ops /\ o.at = "notifyRead" /\ op' = [op EXCEPT ![t] = o]
        /\ m_queueData' = Append(m_queueData, [id |-> accepted + 1, full |-> TRUE])
        /\ UNCHANGED <<m_uCapSize, m_bStop, swallowed>>
    BY <1>3, OpsKinds DEF Push, Blocks
  <2> HIDE DEF o
  <2>2. /\ At("notifyRead")' = At("notifyRead") \union {t}
        /\ At("notifyWrite")' = At("notifyWrite") \ {t}
        /\ \A S : Woken(S)' = Woken(S) \ {t}
        /\ \A S : Waiting(S)' = Waiting(S) \ {t}
    BY <2>1, OneMoves, Stock
  <2>3. Len(m_queueData') = Len(m_queueData) + 1
    BY <2>1, Stock
  <2>4. NoReaderStranded'
    <3>1. "push" \notin Readers
      BY DEF Readers
    <3>2. Woken(Readers)' = Woken(Readers)
      BY <1>1, <2>2, <3>1, EnterPlace
    <3>3. Cardinality(At("notifyRead")) + 1 <= Cardinality(At("notifyRead")')
      BY <1>1, <2>2, EnterPlace, Comparing, PlacesFinite
    <3>4. ReadersDue' - ReadersDue >= 1
      BY <3>2, <3>3, PlacesFinite DEF ReadersDue
    <3> QED
      BY <2>1, <2>2, <2>3, <3>4, ReadersKept, Stock, PlacesFinite DEF NobodyStranded, ReadersDue
  <2>5. NoWriterStranded'
    <3>1. Cardinality(Woken({"push"})) - 1 <= Cardinality(Woken({"push"})')
      BY <2>2, Comparing, PlacesFinite
    <3>2. At("notifyWrite")' = At("notifyWrite")
      BY <1>1, <2>2, EnterPlace
    <3>3. WritersDue' - WritersDue >= -1
      BY <3>1, <3>2, PlacesFinite DEF WritersDue
    <3> QED
      BY <2>1, <2>2, <2>3, <3>3, WritersKept, Stock, PlacesFinite DEF NobodyStranded, WritersDue
  <2> QED
    BY <2>4, <2>5 DEF NobodyStranded
<1>4. CASE WriteReady /\ m_bStop /\ ~ Blocks(t, "push")
  <2>1. Idle \in Ops /\ Idle.at = "idle" /\ op' = [op EXCEPT ![t] = Idle]
        /\ UNCHANGED <<m_queueData, m_uCapSize, m_bStop, swallowed>>
    BY <1>4, OpsKinds DEF Push, Blocks, Idle
  <2>2. /\ At("notifyRead")' = At("notifyRead") \ {t}
        /\ \A S : Woken(S)' = Woken(S) \ {t}
        /\ \A S : Waiting(S)' = Waiting(S) \ {t}
    BY <2>1, OneMoves, Stock
  <2>3. "push" \notin Readers
    BY DEF Readers
  <2>4. Woken(Readers)' = Woken(Readers) /\ At("notifyRead")' = At("notifyRead")
    BY <1>1, <2>2, <2>3, EnterPlace
  <2>5. NoReaderStranded'
    BY <2>1, <2>2, <2>4, ReadersStay, ReadersKept, Stock DEF NobodyStranded
  <2> QED
    BY <1>4, <2>1, <2>5 DEF NobodyStranded, NoWriterStranded
<1>5. WriteReady => ~ Blocks(t, "push") \/ ~ m_bStop
  <2>1. ASSUME WriteReady, Blocks(t, "push"), m_bStop PROVE FALSE
    <3>1. op' = [op EXCEPT ![t] = Idle]
      BY <2>1 DEF Push
    <3>2. op' = [op EXCEPT ![t] = [at |-> "wait", call |-> "push"]]
      BY <2>1 DEF Blocks
    <3>3. op'[t].at = "idle" /\ op'[t].at = "wait"
      BY <3>1, <3>2, Stock DEF Idle
    <3> QED
      BY <3>3
  <2> QED
    BY <2>1
<1> QED
  BY <1>2, <1>3, <1>4, <1>5 DEF Push

(* front and back leave the element: a reader that was notified for it and *)
(* goes has swallowed the notification.                                    *)
LEMMA LookStranded ==
    ASSUME QueueIInv, NobodyStranded, NEW t \in Threads, NEW call \in Readers, Enters(t, call),
           op' = [op EXCEPT ![t] = Idle],
           Len(m_queueData') = Len(m_queueData),
           swallowed' = (swallowed \/ (Notified(t) /\ m_queueData # <<>>)),
           UNCHANGED <<m_uCapSize, m_bStop>>
    PROVE  NobodyStranded'
<1>1. Idle \in Ops /\ Idle.at = "idle" /\ call \notin {"push"}
  BY OpsKinds DEF Idle, Readers
<1>2. /\ At("notifyRead")' = At("notifyRead") \ {t}
      /\ At("notifyWrite")' = At("notifyWrite") \ {t}
      /\ \A S : Woken(S)' = Woken(S) \ {t}
      /\ \A S : Waiting(S)' = Waiting(S) \ {t}
  BY <1>1, OneMoves, Stock
<1>3. At("notifyRead")' = At("notifyRead") /\ At("notifyWrite")' = At("notifyWrite")
      /\ Woken({"push"})' = Woken({"push"})
  BY <1>1, <1>2, EnterPlace
<1>4. NoWriterStranded'
  BY <1>2, <1>3, WritersStay, WritersKept, Stock DEF NobodyStranded
<1>5. NoReaderStranded'
  <2>1. CASE ~ Notified(t)
    <3>1. Woken(Readers)' = Woken(Readers)
      BY <1>2, <2>1, EnterPlace
    <3>2. ReadersDue' - ReadersDue >= 0
      BY <1>3, <3>1, ReadersStay
    <3>3. Waiting(Readers)' # {} /\ ~ swallowed' => Waiting(Readers) # {} /\ ~ swallowed
      BY <1>2
    <3>4. Len(m_queueData') - Len(m_queueData) <= ReadersDue' - ReadersDue
      BY <3>2, Stock, PlacesFinite DEF ReadersDue
    <3> QED
      BY <3>3, <3>4, ReadersKept, Stock DEF NobodyStranded
  <2>2. CASE Notified(t) /\ m_queueData # <<>>
    BY <2>2 DEF NoReaderStranded
  <2>3. CASE m_queueData = <<>>
    <3>1. Len(m_queueData') <= ReadersDue'
      BY <2>3, PlacesFinite DEF ReadersDue
    <3> QED
      BY <3>1 DEF NoReaderStranded, ReadersDue
  <2> QED
    BY <2>1, <2>2, <2>3
<1> QED
  BY <1>4, <1>5 DEF NobodyStranded

(* pop and pop_front take the element they were notified for, and notify a *)
(* pusher of the place.                                                    *)
LEMMA TakeStranded ==
    ASSUME QueueIInv, NobodyStranded, NEW t \in Threads, NEW call \in Readers, Enters(t, call),
           op' = [op EXCEPT ![t] = [at |-> "notifyWrite"]],
           m_queueData' = WithoutFirst,
           UNCHANGED <<m_uCapSize, m_bStop, swallowed>>
    PROVE  NobodyStranded'
<1> DEFINE o == [at |-> "notifyWrite"]
<1>1. o \in Ops /\ o.at = "notifyWrite" /\ call \notin {"push"} /\ op' = [op EXCEPT ![t] = o]
  BY OpsKinds DEF Readers
<1> HIDE DEF o
<1>2. /\ At("notifyRead")' = At("notifyRead") \ {t}
      /\ At("notifyWrite")' = At("notifyWrite") \union {t}
      /\ \A S : Woken(S)' = Woken(S) \ {t}
      /\ \A S : Waiting(S)' = Waiting(S) \ {t}
  BY <1>1, OneMoves, Stock
<1>3. At("notifyRead")' = At("notifyRead") /\ Woken({"push"})' = Woken({"push"})
  BY <1>1, <1>2, EnterPlace
<1>4. Len(m_queueData') = IF m_queueData = <<>> THEN 0 ELSE Len(m_queueData) - 1
  BY Stock DEF WithoutFirst
<1>5. Len(m_queueData') \in Nat /\ Len(m_queueData) - Len(m_queueData') <= 1
  <2>1. m_queueData # <<>> => Len(m_queueData) > 0
    BY Stock
  <2> QED
    BY <1>4, <2>1, Stock
<1>6. NoWriterStranded'
  <2>1. Cardinality(At("notifyWrite")) + 1 <= Cardinality(At("notifyWrite")')
    BY <1>2, EnterPlace, Comparing, PlacesFinite
  <2>2. WritersDue' - WritersDue >= 1
    BY <1>3, <2>1, PlacesFinite DEF WritersDue
  <2>3. Len(m_queueData) - Len(m_queueData') <= WritersDue' - WritersDue
    BY <1>5, <2>2, Stock, PlacesFinite DEF WritersDue
  <2> QED
    BY <1>2, <1>5, <2>3, WritersKept, Stock DEF NobodyStranded
<1>7. NoReaderStranded'
  <2>1. Cardinality(Woken(Readers)) - 1 <= Cardinality(Woken(Readers)')
    BY <1>2, Comparing, PlacesFinite
  <2>2. ReadersDue' - ReadersDue >= -1
    BY <1>3, <2>1, PlacesFinite DEF ReadersDue
  <2>3. CASE m_queueData = <<>>
    <3>1. Len(m_queueData') <= ReadersDue'
      BY <1>4, <2>3, PlacesFinite DEF ReadersDue
    <3> QED
      BY <3>1 DEF NoReaderStranded, ReadersDue
  <2>4. CASE m_queueData # <<>>
    <3>1. Len(m_queueData') - Len(m_queueData) <= ReadersDue' - ReadersDue
      BY <1>4, <2>2, <2>4, Stock, PlacesFinite DEF ReadersDue
    <3> QED
      BY <1>2, <1>5, <3>1, ReadersKept, Stock DEF NobodyStranded
  <2> QED
    BY <2>3, <2>4
<1> QED
  BY <1>6, <1>7 DEF NobodyStranded

(* The calls of the readers.                                               *)
LEMMA ReaderStranded ==
    ASSUME QueueIInv, NobodyStranded, NEW t \in Threads,
           Front(t) \/ Back(t) \/ Pop(t) \/ PopFront(t)
    PROVE  NobodyStranded'
<1> USE DEF Readers
<1>1. CASE Front(t)
  <2>1. Enters(t, "front")
    BY <1>1 DEF Front
  <2>2. CASE ~ ReadReady /\ Blocks(t, "front")
    BY <2>1, <2>2, BlocksStranded
  <2>3. CASE ~ (~ ReadReady /\ Blocks(t, "front"))
    <3>1. /\ m_queueData' = FirstMoved
          /\ op' = [op EXCEPT ![t] = Idle]
          /\ swallowed' = (swallowed \/ (Notified(t) /\ m_queueData # <<>>))
          /\ UNCHANGED <<m_uCapSize, m_bStop>>
      BY <1>1, <2>3 DEF Front
    <3>2. Len(m_queueData') = Len(m_queueData)
      BY <3>1, Stock DEF FirstMoved
    <3> QED
      BY <2>1, <3>1, <3>2, LookStranded
  <2> QED
    BY <2>2, <2>3
<1>2. CASE Back(t)
  <2>1. Enters(t, "back")
    BY <1>2 DEF Back
  <2>2. CASE ~ ReadReady /\ Blocks(t, "back")
    BY <2>1, <2>2, BlocksStranded
  <2>3. CASE ~ (~ ReadReady /\ Blocks(t, "back"))
    BY <1>2, <2>1, <2>3, LookStranded DEF Back
  <2> QED
    BY <2>2, <2>3
<1>3. CASE Pop(t)
  <2>1. Enters(t, "pop")
    BY <1>3 DEF Pop
  <2>2. CASE ~ ReadReady /\ Blocks(t, "pop")
    BY <2>1, <2>2, BlocksStranded
  <2>3. CASE ~ (~ ReadReady /\ Blocks(t, "pop"))
    BY <1>3, <2>1, <2>3, TakeStranded DEF Pop
  <2> QED
    BY <2>2, <2>3
<1>4. CASE PopFront(t)
  <2>1. Enters(t, "pop_front")
    BY <1>4 DEF PopFront
  <2>2. CASE ~ ReadReady /\ Blocks(t, "pop_front")
    BY <2>1, <2>2, BlocksStranded
  <2>3. CASE ~ (~ ReadReady /\ Blocks(t, "pop_front"))
    BY <1>4, <2>1, <2>3, TakeStranded DEF PopFront
  <2> QED
    BY <2>2, <2>3
<1> QED
  BY <1>1, <1>2, <1>3, <1>4

(* Where the threads are after one went on from a place where it waits for *)
(* nothing, and some waiting ones were woken.                              *)
LEMMA SomeWoken ==
    ASSUME NEW t \in Threads, op[t].at \notin {"wait", "woken"},
           op'[t].at \notin {"wait", "woken"},
           NEW W \in SUBSET At("wait"),
           \A u \in W : op'[u].at = "woken" /\ op'[u].call = op[u].call,
           \A u \in Threads \ W : u # t => op'[u] = op[u]
    PROVE  /\ \A S : Woken(S) \subseteq Woken(S)' /\ Waiting(S)' \subseteq Waiting(S) \ W
           /\ \A S, u : u \in W /\ op[u].call \in S => u \in Woken(S)'
           /\ \A p \in {"notifyRead", "notifyWrite"} : At(p) \ {t} \subseteq At(p)'
<1>1. t \notin W
  BY DEF At
<1>2. \A u \in W : /\ u \in Threads /\ op'[u].at = "woken" /\ op'[u].call = op[u].call
                   /\ op[u].at = "wait"
  BY DEF At
<1>3. \A u \in Threads : u # t /\ u \notin W => op'[u] = op[u]
  OBVIOUS
<1>4. op'[t].at # "wait"
  OBVIOUS
<1>5. ASSUME NEW S PROVE Woken(S) \subseteq Woken(S)' /\ Waiting(S)' \subseteq Waiting(S) \ W
  <2>1. Woken(S) \subseteq Woken(S)'
    <3> SUFFICES ASSUME NEW u \in Woken(S) PROVE u \in Woken(S)'
      OBVIOUS
    <3>1. u \in Threads /\ op[u].at = "woken" /\ op[u].call \in S
      BY DEF Woken, At
    <3>2. u # t /\ u \notin W
      BY <1>2, <3>1
    <3>3. op'[u] = op[u]
      BY <1>3, <3>1, <3>2
    <3> QED
      BY <3>1, <3>3 DEF Woken, At
  <2>2. Waiting(S)' \subseteq Waiting(S) \ W
    <3> SUFFICES ASSUME NEW u \in Waiting(S)' PROVE u \in Waiting(S) \ W
      OBVIOUS
    <3>1. u \in Threads /\ op'[u].at = "wait" /\ op'[u].call \in S
      BY DEF Waiting, At
    <3>2. u # t /\ u \notin W
      BY <1>2, <1>4, <3>1
    <3> QED
      BY <1>3, <3>1, <3>2 DEF Waiting, At
  <2> QED
    BY <2>1, <2>2
<1>6. ASSUME NEW S, NEW u, u \in W, op[u].call \in S PROVE u \in Woken(S)'
  BY <1>2, <1>6 DEF Woken, At
<1>7. ASSUME NEW p \in {"notifyRead", "notifyWrite"} PROVE At(p) \ {t} \subseteq At(p)'
  <2> SUFFICES ASSUME NEW u \in At(p), u # t PROVE u \in At(p)'
    OBVIOUS
  <2>1. u \in Threads /\ op[u].at = p /\ p # "wait"
    BY DEF At
  <2>2. u \notin W
    BY <1>2, <2>1
  <2>3. op'[u] = op[u]
    BY <1>3, <2>1, <2>2
  <2> QED
    BY <2>1, <2>3 DEF At
<1> QED
  BY <1>5, <1>6, <1>7

(* notify_one wakes one of its side, unless nobody sleeps there.           *)
LEMMA NotifyStranded ==
    ASSUME QueueIInv, NobodyStranded, NEW t \in Threads, NotifyRead(t) \/ NotifyWrite(t)
    PROVE  NobodyStranded'
<1>r. Readers # {"push"} /\ UNCHANGED <<m_queueData, m_uCapSize, m_bStop, swallowed>>
  BY DEF NotifyRead, NotifyWrite, Readers
<1>0. PICK kinds \in {Readers, {"push"}} :
         /\ NotifyOne(t, Waiting(kinds))
         /\ op[t].at = IF kinds = Readers THEN "notifyRead" ELSE "notifyWrite"
  BY <1>r DEF NotifyRead, NotifyWrite
<1>1. op \in [Threads -> Ops]
  BY Stock
<1>i. Idle \in Ops /\ Idle.at \notin {"wait", "woken"}
  BY OpsKinds DEF Idle
<1>2. PICK W \in SUBSET Waiting(kinds) :
         /\ op'[t].at \notin {"wait", "woken"}
         /\ \A u \in W : op'[u].at = "woken" /\ op'[u].call = op[u].call
         /\ \A u \in Threads \ W : u # t => op'[u] = op[u]
         /\ W = {} => Waiting(kinds) = {}
  <2>1. CASE Waiting(kinds) = {} /\ op' = [op EXCEPT ![t] = Idle]
    <3>1. op'[t] = Idle /\ \A u \in Threads : u # t => op'[u] = op[u]
      BY <1>1, <2>1
    <3> QED
      BY <1>i, <2>1, <3>1
  <2>2. ASSUME NEW u \in Waiting(kinds), op' = [op EXCEPT ![t] = Idle, ![u].at = "woken"]
        PROVE  /\ op'[t].at \notin {"wait", "woken"}
               /\ op'[u].at = "woken" /\ op'[u].call = op[u].call
               /\ \A v \in Threads : v \notin {u, t} => op'[v] = op[v]
    <3>1. u \in Threads /\ op[u].at = "wait" /\ u # t /\ op[u] \in Ops
      BY <1>0, <1>1 DEF Waiting, At
    <3>2. /\ [op[u] EXCEPT !.at = "woken"].at = "woken"
          /\ [op[u] EXCEPT !.at = "woken"].call = op[u].call
      BY <3>1, WokenOp
    <3>3. PICK r : r = [op[u] EXCEPT !.at = "woken"]
      OBVIOUS
    <3>4. [op EXCEPT ![t] = Idle][u] = op[u]
      BY <1>1, <3>1
    <3>5. op' = [[op EXCEPT ![t] = Idle] EXCEPT ![u] = r]
      BY <2>2, <3>3, <3>4
    <3>6. op'[t] = Idle /\ op'[u] = r /\ \A v \in Threads : v \notin {u, t} => op'[v] = op[v]
      BY <1>1, <3>1, <3>5
    <3> QED
      BY <1>i, <3>2, <3>3, <3>6
  <2>3. ASSUME NEW u \in Waiting(kinds), op' = [op EXCEPT ![t] = Idle, ![u].at = "woken"]
        PROVE  \E W \in SUBSET Waiting(kinds) :
                  /\ op'[t].at \notin {"wait", "woken"}
                  /\ \A v \in W : op'[v].at = "woken" /\ op'[v].call = op[v].call
                  /\ \A v \in Threads \ W : v # t => op'[v] = op[v]
                  /\ W = {} => Waiting(kinds) = {}
    <3> WITNESS {u} \in SUBSET Waiting(kinds)
    <3> QED
      BY <2>2, <2>3
  <2> QED
    BY <1>0, <2>1, <2>3 DEF NotifyOne
<1>3. /\ op[t].at \notin {"wait", "woken"} /\ W \in SUBSET At("wait")
      /\ \A S : t \notin Woken(S)
  BY <1>0 DEF Waiting, Woken, At
<1>4. /\ \A S : Woken(S) \subseteq Woken(S)' /\ Waiting(S)' \subseteq Waiting(S) \ W
      /\ \A S, u : u \in W /\ op[u].call \in S => u \in Woken(S)'
      /\ \A p \in {"notifyRead", "notifyWrite"} : At(p) \ {t} \subseteq At(p)'
  BY <1>2, <1>3, SomeWoken
<1>5. ASSUME NEW p \in {"notifyRead", "notifyWrite"}
      PROVE  /\ Cardinality(At(p)) - 1 <= Cardinality(At(p)')
             /\ op[t].at # p => At(p) \subseteq At(p)'
  <2>1. At(p) \ {t} \subseteq At(p)'
    BY <1>4
  <2>2. op[t].at # p => t \notin At(p)
    BY DEF At
  <2> QED
    BY <2>1, <2>2, Comparing, PlacesFinite
<1>6. W # {} => Cardinality(Woken(kinds)) + 1 <= Cardinality(Woken(kinds)')
  <2> SUFFICES ASSUME NEW u \in W
               PROVE  Cardinality(Woken(kinds)) + 1 <= Cardinality(Woken(kinds)')
    OBVIOUS
  <2>1. u \in Woken(kinds)'
    BY <1>4 DEF Waiting
  <2>2. u \notin Woken(kinds)
    BY <1>3 DEF Woken, At
  <2> QED
    BY <1>4, <2>1, <2>2, Comparing, PlacesFinite
<1>7. CASE kinds = Readers
  <2>1. NoWriterStranded'
    <3>1. At("notifyWrite") \subseteq At("notifyWrite")'
      BY <1>0, <1>r, <1>5, <1>7
    <3>2. WritersDue' - WritersDue >= 0
      BY <1>4, <3>1, WritersStay
    <3>3. Waiting({"push"})' \subseteq Waiting({"push"})
      BY <1>4
    <3> QED
      BY <1>r, <3>2, <3>3, WritersKept, Stock, PlacesFinite DEF NobodyStranded, WritersDue
  <2>2. CASE W = {}
    <3>1. Waiting(Readers)' = {}
      BY <1>2, <1>4, <1>7, <2>2
    <3> QED
      BY <2>1, <3>1 DEF NobodyStranded, NoReaderStranded
  <2>3. CASE W # {}
    <3>1. ReadersDue' - ReadersDue >= 0
      BY <1>5, <1>6, <1>7, <2>3, PlacesFinite DEF ReadersDue
    <3>2. Waiting(Readers)' \subseteq Waiting(Readers)
      BY <1>4
    <3>3. NoReaderStranded'
      BY <1>r, <3>1, <3>2, ReadersKept, Stock, PlacesFinite DEF NobodyStranded, ReadersDue
    <3> QED
      BY <2>1, <3>3 DEF NobodyStranded
  <2> QED
    BY <2>2, <2>3
<1>8. CASE kinds = {"push"}
  <2>1. NoReaderStranded'
    <3>1. At("notifyRead") \subseteq At("notifyRead")'
      BY <1>0, <1>r, <1>5, <1>8
    <3>2. ReadersDue' - ReadersDue >= 0
      BY <1>4, <3>1, ReadersStay
    <3>3. Waiting(Readers)' \subseteq Waiting(Readers)
      BY <1>4
    <3> QED
      BY <1>r, <3>2, <3>3, ReadersKept, Stock, PlacesFinite DEF NobodyStranded, ReadersDue
  <2>2. CASE W = {}
    <3>1. Waiting({"push"})' = {}
      BY <1>2, <1>4, <1>8, <2>2
    <3> QED
      BY <2>1, <3>1 DEF NobodyStranded, NoWriterStranded
  <2>3. CASE W # {}
    <3>1. WritersDue' - WritersDue >= 0
      BY <1>5, <1>6, <1>8, <2>3, PlacesFinite DEF WritersDue
    <3>2. Waiting({"push"})' \subseteq Waiting({"push"})
      BY <1>4
    <3>3. NoWriterStranded'
      BY <1>r, <3>1, <3>2, WritersKept, Stock, PlacesFinite DEF NobodyStranded, WritersDue
    <3> QED
      BY <2>1, <3>3 DEF NobodyStranded
  <2> QED
    BY <2>2, <2>3
<1> QED
  BY <1>0, <1>7, <1>8

(* A stopped queue wakes one side after the other.                         *)
LEMMA StopStranded ==
    ASSUME QueueIInv, NobodyStranded, NEW t \in Threads, StopWrite(t) \/ StopRead(t)
    PROVE  NobodyStranded'
<1>r. UNCHANGED <<m_queueData, m_uCapSize, m_bStop, swallowed>>
  BY DEF StopWrite, StopRead
<1>1. PICK kinds \in {Readers, {"push"}}, then \in {Idle, [at |-> "stopRead"]} :
         /\ WakeAll(t, then, Waiting(kinds))
         /\ op[t].at \in {"stopWrite", "stopRead"}
  BY DEF StopWrite, StopRead
<1>2. then.at \notin {"wait", "woken"}
  BY DEF Idle
<1> DEFINE W == Waiting(kinds)
<1>3. W \in SUBSET At("wait") /\ t \notin W /\ op[t].at \notin {"wait", "woken"}
  BY <1>1 DEF Waiting, At
<1>4. op'[t] = then /\ \A u \in Threads \ W : u # t => op'[u] = op[u]
  BY <1>1 DEF WakeAll
<1>5. ASSUME NEW u \in W PROVE op'[u].at = "woken" /\ op'[u].call = op[u].call
  <2>1. u \in Threads /\ op[u].at = "wait" /\ op[u] \in Ops /\ u # t
    BY <1>3, Stock DEF At
  <2>2. /\ [op[u] EXCEPT !.at = "woken"].at = "woken"
        /\ [op[u] EXCEPT !.at = "woken"].call = op[u].call
    BY <2>1, WokenOp
  <2>3. op'[u] = [op[u] EXCEPT !.at = "woken"]
    BY <1>1, <2>1 DEF WakeAll
  <2> QED
    BY <2>2, <2>3
<1> HIDE DEF W
<1>6. /\ \A S : Woken(S) \subseteq Woken(S)' /\ Waiting(S)' \subseteq Waiting(S)
      /\ \A p \in {"notifyRead", "notifyWrite"} : At(p) \ {t} \subseteq At(p)'
  BY <1>2, <1>3, <1>4, <1>5, SomeWoken
<1>7. At("notifyRead") \subseteq At("notifyRead")' /\ At("notifyWrite") \subseteq At("notifyWrite")'
  <2>1. t \notin At("notifyRead") /\ t \notin At("notifyWrite")
    BY <1>1 DEF At
  <2> QED
    BY <1>6, <2>1
<1>8. ReadersDue' - ReadersDue >= 0 /\ WritersDue' - WritersDue >= 0
  BY <1>6, <1>7, ReadersStay, WritersStay
<1>9. Waiting(Readers)' \subseteq Waiting(Readers) /\ Waiting({"push"})' \subseteq Waiting({"push"})
  BY <1>6
<1>10. NoReaderStranded'
  BY <1>r, <1>8, <1>9, ReadersKept, Stock, PlacesFinite DEF NobodyStranded, ReadersDue
<1>11. NoWriterStranded'
  BY <1>r, <1>8, <1>9, WritersKept, Stock, PlacesFinite DEF NobodyStranded, WritersDue
<1> QED
  BY <1>10, <1>11 DEF NobodyStranded

(* The steps that wait for nothing and wake nobody: wakeup until it        *)
(* notifies, setSpaces while nobody is in a call, a spurious wakeup.       *)
LEMMA OtherStranded ==
    ASSUME QueueIInv, NobodyStranded, NEW t \in Threads,
           Wakeup(t) \/ SetSpaces(t) \/ SpuriousWakeup(t)
    PROVE  NobodyStranded'
<1>1. CASE Wakeup(t)
  <2> DEFINE o == [at |-> "stopWrite"]
  <2>1. /\ o \in Ops /\ o.at = "stopWrite" /\ op' = [op EXCEPT ![t] = o] /\ op[t].at = "idle"
        /\ m_bStop' = TRUE /\ UNCHANGED <<m_queueData, m_uCapSize, swallowed>>
    BY <1>1, OpsKinds DEF Wakeup, Idle
  <2> HIDE DEF o
  <2>2. /\ At("notifyRead")' = At("notifyRead") \ {t}
        /\ \A S : Woken(S)' = Woken(S) \ {t}
        /\ \A S : Waiting(S)' = Waiting(S) \ {t}
    BY <2>1, OneMoves, Stock
  <2>3. t \notin At("notifyRead") /\ t \notin Woken(Readers)
    BY <2>1 DEF At, Woken
  <2>4. ReadersDue' - ReadersDue >= 0
    BY <2>2, <2>3, ReadersStay
  <2>5. NoReaderStranded'
    BY <2>1, <2>2, <2>4, ReadersKept, Stock, PlacesFinite DEF NobodyStranded, ReadersDue
  <2> QED
    BY <2>1, <2>5 DEF NobodyStranded, NoWriterStranded
<1>2. CASE SetSpaces(t)
  <2>1. \A S : Waiting(S)' = {}
    BY <1>2 DEF SetSpaces, Waiting, At, Idle
  <2> QED
    BY <2>1 DEF NobodyStranded, NoReaderStranded, NoWriterStranded
<1>3. CASE SpuriousWakeup(t)
  <2>1. PICK o : o = [op[t] EXCEPT !.at = "woken"]
    OBVIOUS
  <2>2. /\ o \in Ops /\ o.at = "woken" /\ o.call = op[t].call /\ op[t].at = "wait"
        /\ op' = [op EXCEPT ![t] = o]
        /\ UNCHANGED <<m_queueData, m_uCapSize, m_bStop, swallowed>>
    BY <1>3, <2>1, WokenOp, Stock DEF SpuriousWakeup
  <2>m. /\ \A p : At(p)' = IF o.at = p THEN At(p) \union {t} ELSE At(p) \ {t}
        /\ \A S : Woken(S)' = IF o.at = "woken" /\ o.call \in S
                               THEN Woken(S) \union {t} ELSE Woken(S) \ {t}
        /\ \A S : Waiting(S)' = IF o.at = "wait" /\ o.call \in S
                                 THEN Waiting(S) \union {t} ELSE Waiting(S) \ {t}
    BY <2>2, OneMoves, Stock
  <2>3. /\ \A p \in {"notifyRead", "notifyWrite"} : At(p)' = At(p) \ {t}
        /\ \A S : Woken(S) \ {t} \subseteq Woken(S)'
        /\ \A S : Waiting(S)' \subseteq Waiting(S)
    BY <2>2, <2>m
  <2>4. /\ \A p \in {"notifyRead", "notifyWrite"} : t \notin At(p)
        /\ \A S : t \notin Woken(S)
    BY <2>2 DEF At, Woken
  <2>5. /\ \A p \in {"notifyRead", "notifyWrite"} : At(p) \subseteq At(p)'
        /\ \A S : Woken(S) \subseteq Woken(S)'
    BY <2>3, <2>4
  <2>6. ReadersDue' - ReadersDue >= 0 /\ WritersDue' - WritersDue >= 0
    BY <2>5, ReadersStay, WritersStay
  <2>7. Waiting(Readers)' \subseteq Waiting(Readers) /\ Waiting({"push"})' \subseteq Waiting({"push"})
    BY <2>3
  <2>8. NoReaderStranded'
    BY <2>2, <2>6, <2>7, ReadersKept, Stock, PlacesFinite DEF NobodyStranded, ReadersDue
  <2>9. NoWriterStranded'
    BY <2>2, <2>6, <2>7, WritersKept, Stock, PlacesFinite DEF NobodyStranded, WritersDue
  <2> QED
    BY <2>8, <2>9 DEF NobodyStranded
<1> QED
  BY <1>1, <1>2, <1>3

(* No step strands anybody.                                                *)
LEMMA StepStranded == QueueIInv /\ NobodyStranded /\ [Next]_vars => NobodyStranded'
<1> SUFFICES ASSUME QueueIInv, NobodyStranded, [Next]_vars PROVE NobodyStranded'
  OBVIOUS
<1>1. CASE UNCHANGED vars
  BY <1>1 DEF vars, NobodyStranded, NoReaderStranded, NoWriterStranded, Waiting, Woken, At
<1>2. ASSUME NEW t \in Threads, Call(t) PROVE NobodyStranded'
  BY <1>2, PushStranded, ReaderStranded DEF Call
<1>3. ASSUME NEW t \in Threads, NotifyRead(t) \/ NotifyWrite(t) PROVE NobodyStranded'
  BY <1>3, NotifyStranded
<1>4. ASSUME NEW t \in Threads, StopWrite(t) \/ StopRead(t) PROVE NobodyStranded'
  BY <1>4, StopStranded
<1>5. ASSUME NEW t \in Threads, Wakeup(t) \/ SetSpaces(t) \/ SpuriousWakeup(t)
      PROVE  NobodyStranded'
  BY <1>5, OtherStranded
<1> QED
  BY <1>1, <1>2, <1>3, <1>4, <1>5 DEF Next

(* No notification of LockQueue.h is lost: a queued value, or a free place,*)
(* that a sleeping thread could use has a thread awake for it or a         *)
(* notification on its way, apart from those that a front or back kept.    *)
THEOREM NoneStranded == Spec => []NobodyStranded
<1>1. Init => NobodyStranded
  <2>1. Init => \A S : Waiting(S) = {}
    BY DEF Init, Waiting, At, Idle
  <2> QED
    BY <2>1 DEF NobodyStranded, NoReaderStranded, NoWriterStranded
<1> QED
  BY <1>1, QueueInvariant, StepStranded, PTL DEF Spec
=============================================================================
