------------------------------- MODULE Logger -------------------------------
(***************************************************************************)
(* FileLogger of FileLogger/FileLogger.cpp: the calls that log a line, the *)
(* queue m_ctxQueue, the detached threads in outPut2File that empty it into*)
(* m_pOutputMode, and the calls that set the logger up, change it and close*)
(* it.  LockQueue is modelled on its own; here it is the channel it        *)
(* implements.                                                             *)
(*                                                                         *)
(* The program keeps one rule: initLog and closeLog are called while no    *)
(* other thread is inside the logger (they take no lock).  The writer      *)
(* threads do not stop for them.                                           *)
(***************************************************************************)
EXTENDS Naturals, Sequences, FiniteSetsExt

CONSTANTS
    Threads,    \* the threads that log
    Changers,   \* those of them that also call setLogLevel and setLogFileName
    Spaces,     \* setSpaces of m_ctxQueue, 200 in the code
    MaxLines,   \* bound: lines, the logger's own included, after which no thread logs
    MaxInits,   \* bound: calls of initLog, each of which may start a writer
    MaxChanges  \* bound: calls of setLogLevel and setLogFileName

ASSUME LoggerAssumption ==
    /\ IsFiniteSet(Threads) /\ Changers \subseteq Threads
    /\ {"logger", "nobody"} \cap Threads = {}
    /\ Spaces \in Nat \ {0}
    /\ MaxLines \in Nat /\ MaxInits \in Nat /\ MaxChanges \in Nat

Nobody == "nobody"
Writers == 1 .. MaxInits
Info == 0       \* the level of the logger's own lines
Error == 1

VARIABLES
    m_emLogLevel, m_bSync,
    m_pOutputMode,  \* whether there is one; the pattern comes and goes with it
    m_ctxQueue,
    m_Mutex,        \* who holds it
    at,             \* where each logging thread is, and with which line
    control,        \* where the thread in initLog or closeLog is
    writers,        \* where each writer thread is
    written,        \* lines written, in order
    flushed,        \* how many of them have left the buffer
    broken,         \* a deleted or missing output was used: anything may follow
    lines, inits, changes

loggerVars == <<m_emLogLevel, m_bSync, m_pOutputMode, m_ctxQueue, m_Mutex, at, control,
          writers, written, flushed, broken, lines, inits, changes>>

setup == <<m_bSync, m_pOutputMode, control, inits>>

Outside == [pc |-> "idle"]
OwnLine(n) == [from |-> "logger", number |-> n]

LoggerInit ==
    /\ m_emLogLevel = Info /\ m_bSync = FALSE
    /\ m_pOutputMode = FALSE
    /\ m_ctxQueue = <<>>
    /\ m_Mutex = Nobody
    /\ at = [t \in Threads |-> Outside]
    /\ control = Outside
    /\ writers = [w \in Writers |-> Outside]
    /\ written = <<>> /\ flushed = 0
    /\ broken = FALSE
    /\ lines = [f \in Threads \cup {"logger"} |-> 0]
    /\ inits = 0 /\ changes = 0

-----------------------------------------------------------------------------
(* writeToOutPut: a push that waits for room, or a write under m_Mutex.    *)
PutInQueueOrWrite(line) ==   \* mutant: a full queue is passed by
    /\ ~m_bSync
    /\ IF Len(m_ctxQueue) < Spaces
       THEN m_ctxQueue' = Append(m_ctxQueue, line) /\ UNCHANGED written
       ELSE written' = Append(written, line) /\ UNCHANGED m_ctxQueue
PutInQueue(line) ==
    /\ ~m_bSync
    /\ Len(m_ctxQueue) < Spaces
    /\ m_ctxQueue' = Append(m_ctxQueue, line)
    /\ UNCHANGED written

Put(line) ==
    \/ PutInQueue(line)
    \/ /\ m_bSync /\ m_Mutex = Nobody
       /\ written' = Append(written, line)
       /\ UNCHANGED m_ctxQueue

(* Nobody is inside the logger.                                            *)
Quiet == control = Outside /\ \A t \in Threads : at[t] = Outside

(* formatMessage: without a pattern the call sets the logger up itself     *)
(* first, with initLog("").                                                *)
SetUp ==
    \/ m_pOutputMode /\ UNCHANGED control
    \/ /\ ~m_pOutputMode /\ Quiet /\ inits < MaxInits
       /\ control' = [pc |-> "closed", next |-> "default"]

(* A line below the level is dropped.                                      *)
log(t, level) ==
    /\ at[t] = Outside /\ control = Outside
    /\ level >= m_emLogLevel
    /\ MapThenSumSet(LAMBDA f : lines[f], DOMAIN lines) < MaxLines
    /\ SetUp
    /\ at' = [at EXCEPT ![t] = [pc |-> "put", line |-> [from |-> t, number |-> lines[t] + 1]]]
    /\ lines' = [lines EXCEPT ![t] = @ + 1]
    /\ UNCHANGED <<m_bSync, m_pOutputMode, inits, m_emLogLevel, m_ctxQueue, m_Mutex,
                   writers, written, flushed, changes>>

writeToOutPut(t) ==
    /\ at[t].pc = "put" /\ control = Outside
    /\ Put(at[t].line)
    /\ at' = [at EXCEPT ![t] = Outside]
    /\ UNCHANGED <<setup, m_emLogLevel, m_Mutex, writers, flushed, lines, changes>>

(* setLogLevel and setLogFileName log a line of the logger's own while they*)
(* hold m_Mutex; a level above its own drops it.                           *)
Change(t, level) ==
    /\ t \in Changers
    /\ at[t] = Outside /\ control = Outside
    /\ m_Mutex = Nobody
    /\ changes < MaxChanges /\ changes' = changes + 1
    /\ m_emLogLevel' = level
    /\ IF level > Info THEN UNCHANGED <<m_Mutex, at, lines, control>>
       ELSE /\ SetUp
            /\ m_Mutex' = t
            /\ lines' = [lines EXCEPT !["logger"] = @ + 1]
            /\ at' = [at EXCEPT ![t] = [pc |-> "holding",
                                        line |-> OwnLine(lines["logger"] + 1)]]
    /\ UNCHANGED <<m_bSync, m_pOutputMode, inits, m_ctxQueue, writers, written, flushed>>

setLogLevel(t) == \E level \in {Info, Error} : Change(t, level)
LoggerSetFileName(t) == m_pOutputMode /\ Change(t, m_emLogLevel)

(* In a synchronous logger the line would need the mutex its caller holds: *)
(* the call stays here.                                                    *)
FinishChange(t) ==
    /\ at[t].pc = "holding" /\ control = Outside
    /\ PutInQueue(at[t].line)
    /\ m_Mutex' = Nobody
    /\ at' = [at EXCEPT ![t] = Outside]
    /\ UNCHANGED <<setup, m_emLogLevel, writers, flushed, lines, changes>>

-----------------------------------------------------------------------------
(* initLog and closeLog: the closing line, the deletion of the output, and *)
(* for initLog the new output, its first line and the new writer.          *)
OwnPut ==
    \/ /\ m_emLogLevel = Info
       /\ lines' = [lines EXCEPT !["logger"] = @ + 1]
       /\ Put(OwnLine(lines["logger"] + 1))
    \/ m_emLogLevel > Info /\ UNCHANGED <<lines, m_ctxQueue, written>>

BeginClose(next) ==
    /\ Quiet
    /\ IF m_pOutputMode
       THEN OwnPut /\ control' = [pc |-> "delete", next |-> next]
       ELSE /\ control' = [pc |-> "closed", next |-> next]
            /\ UNCHANGED <<lines, m_ctxQueue, written>>
    /\ UNCHANGED <<m_emLogLevel, m_bSync, m_pOutputMode, m_Mutex, at, writers, flushed, inits, changes>>

closeLog == m_pOutputMode /\ BeginClose("none")

(* Closing the file flushes it.  A writer inside writeData or flushFile    *)
(* may be using it.                                                        *)
DeleteOutput ==
    /\ control.pc = "delete"
    /\ m_pOutputMode' = FALSE
    /\ flushed' = Len(written)
    /\ control' = IF control.next = "none" THEN Outside ELSE [control EXCEPT !.pc = "closed"]
    /\ UNCHANGED <<m_emLogLevel, m_bSync, m_ctxQueue, m_Mutex, at, writers, written, lines, inits, changes>>

(* The configuration gives the mode and the level; one that cannot be read *)
(* leaves both.                                                            *)
initLog(mode) == inits < MaxInits /\ BeginClose(mode)

NewOutput ==
    /\ control.pc = "closed"
    /\ IF control.next = "default" THEN UNCHANGED <<m_emLogLevel, m_bSync>>
       ELSE /\ \E level \in {Info, Error} : m_emLogLevel' = level
            /\ m_bSync' = (control.next = "sync")
    /\ m_pOutputMode' = TRUE
    /\ control' = [pc |-> "greet"]
    /\ UNCHANGED <<m_ctxQueue, m_Mutex, at, writers, written, flushed, lines, inits, changes>>

NoWriter ==   \* mutant: in the other mode
    IF m_bSync THEN [writers EXCEPT ![inits + 1] = [pc |-> "pop"]] ELSE writers
NewWriter == IF m_bSync THEN writers ELSE [writers EXCEPT ![inits + 1] = [pc |-> "pop"]]

StartWriter ==
    /\ control.pc = "greet"
    /\ OwnPut
    /\ inits' = inits + 1
    /\ writers' = NewWriter
    /\ control' = Outside
    /\ UNCHANGED <<m_emLogLevel, m_bSync, m_pOutputMode, m_Mutex, at, flushed, changes>>

-----------------------------------------------------------------------------
(* outPut2File, one round of its inner loop in three steps.                *)
writerUnchanged == <<setup, m_emLogLevel, m_Mutex, at, lines, changes>>

Pop(w) ==
    /\ writers[w].pc = "pop"
    /\ m_ctxQueue # <<>>
    /\ m_ctxQueue' = Tail(m_ctxQueue)
    /\ writers' = [writers EXCEPT ![w] = [pc |-> "write", line |-> Head(m_ctxQueue)]]
    /\ UNCHANGED <<written, flushed, writerUnchanged>>

WriteLine(w) ==
    /\ writers[w].pc = "write"
    /\ m_pOutputMode
    /\ written' = Append(written, writers[w].line)
    /\ writers' = [writers EXCEPT ![w] = [pc |-> "test"]]
    /\ UNCHANGED <<m_ctxQueue, flushed, writerUnchanged>>

AfterTestPop == "pop"   \* mutant: no flush
AfterTest == IF m_ctxQueue = <<>> THEN "flush" ELSE "pop"

TestEmpty(w) ==
    /\ writers[w].pc = "test"
    /\ writers' = [writers EXCEPT ![w] = [pc |-> AfterTest]]
    /\ UNCHANGED <<m_ctxQueue, written, flushed, writerUnchanged>>

FlushFile(w) ==
    /\ writers[w].pc = "flush"
    /\ m_pOutputMode
    /\ flushed' = Len(written)
    /\ writers' = [writers EXCEPT ![w] = [pc |-> "pop"]]
    /\ UNCHANGED <<m_ctxQueue, written, writerUnchanged>>

(* The output is used after its deletion, or deleted while in use.         *)
UseDeleted ==
    /\ \E w \in Writers : writers[w].pc \in {"write", "flush"}
    /\ ~m_pOutputMode \/ control.pc = "delete"
    /\ broken' = TRUE
    /\ UNCHANGED <<setup, m_emLogLevel, m_ctxQueue, m_Mutex, at, writers, written,
                   flushed, lines, changes>>

Writer(w) == ~broken /\ UNCHANGED broken /\ (Pop(w) \/ WriteLine(w) \/ TestEmpty(w) \/ FlushFile(w))
Finish(t) == ~broken /\ UNCHANGED broken /\ (writeToOutPut(t) \/ FinishChange(t))
Control == ~broken /\ UNCHANGED broken /\ (DeleteOutput \/ NewOutput \/ StartWriter)
Call ==
    /\ ~broken /\ UNCHANGED broken
    /\ \/ \E t \in Threads :
             \/ \E level \in {Info, Error} : log(t, level)
             \/ setLogLevel(t) \/ LoggerSetFileName(t)
       \/ closeLog
       \/ \E mode \in {"sync", "async", "default"} : initLog(mode)

LoggerNext ==
    \/ Call \/ Control
    \/ \E t \in Threads : Finish(t)
    \/ \E w \in Writers : Writer(w)
    \/ ~broken /\ UseDeleted

LoggerSpec == LoggerInit /\ [][LoggerNext]_loggerVars

LoggerFairSpec ==
    /\ LoggerSpec
    /\ WF_loggerVars(Control)
    /\ \A t \in Threads : WF_loggerVars(Finish(t))
    /\ \A w \in Writers : WF_loggerVars(Writer(w))
-----------------------------------------------------------------------------
Hands == {w \in Writers : writers[w].pc = "write"}
Putting == {t \in Threads : at[t] # Outside}

Occurs(line) ==
    Cardinality({i \in DOMAIN written : written[i] = line})
      + Cardinality({i \in DOMAIN m_ctxQueue : m_ctxQueue[i] = line})
      + Cardinality({w \in Hands : writers[w].line = line})
      + Cardinality({t \in Putting : at[t].line = line})

OnePlaceEach ==
    ~broken => \A f \in DOMAIN lines : \A n \in 1 .. lines[f] :
                  Occurs([from |-> f, number |-> n]) = 1

InOrder ==
    ~broken /\ inits <= 1 =>
        LET hand == IF Hands = {} THEN <<>> ELSE <<writers[1].line>>
            way == written \o hand \o m_ctxQueue
        IN  \A i, j \in DOMAIN way :
                i < j /\ way[i].from = way[j].from /\ way[i].from \in Threads
                    => way[i].number < way[j].number

(* Every line that passed the level is in one place, on its way or written:*)
(* never lost, never twice, over any closing and setting up again with     *)
(* writers of earlier set-ups still running.  With one writer the lines of *)
(* a thread stay in the order it logged them.  (Each further initLog adds a*)
(* writers, and two writers may overtake.)                                  *)
LinesKept == OnePlaceEach /\ InOrder

(* What is queued comes out of the buffer too: the writer that empties the *)
(* queue flushes, unless the logger is closed meanwhile.                   *)
LineIsFlushed(t) ==
    \A n \in 1 .. MaxLines :
        LET line == [from |-> t, number |-> n] IN
        (\E i \in DOMAIN m_ctxQueue : m_ctxQueue[i] = line)
          ~> \/ \E i \in 1 .. flushed : written[i] = line
             \/ broken \/ ~m_pOutputMode

(* A synchronous logger in setLogLevel or setLogFileName waits for itself. *)
SelfLocked == m_bSync /\ \E t \in Threads : at[t].pc = "holding"

(* Every call returns, also against a full queue and from under m_Mutex,   *)
(* as long as the logger is open and has not locked itself out.            *)
CallReturns(t) ==
    at[t] # Outside ~> at[t] = Outside \/ broken \/ ~m_pOutputMode \/ SelfLocked
=============================================================================
