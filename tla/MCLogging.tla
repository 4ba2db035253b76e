----------------------------- MODULE MCLogging -----------------------------
(***************************************************************************)
(* Instances for TLC of the two halves of the logger: the front end with   *)
(* its queue, and the files with their rotation.  One run for both: the    *)
(* initial state names the part at work, and only that one moves.          *)
(***************************************************************************)
EXTENDS LogRotation, Logger

CONSTANTS t1, t2   \* the threads of the front end

VARIABLE part

allVars == <<part, vars, loggerVars>>

(* A part that is not at work starts in one state only.  (Bound: with an   *)
(* extension no file is left from before.)                                 *)
LoggingInit ==
    /\ part \in {"front", "files"}
    /\ LoggerInit
    /\ Init /\ (part = "front" => created = 0) /\ (hasExt => created = 0)
    /\ part = "front" => hasExt

(* Bound: when a level or a name is changed the threads log one line.      *)
ThreadLines == lines[t1] + lines[t2]
InFront(step) ==
    /\ part = "front" /\ step /\ UNCHANGED <<part, vars>>
    /\ changes' = 1 /\ changes' + ThreadLines' > changes + ThreadLines => ThreadLines' <= 1
(* Bounds: restarts and changes of name have one file less; after both of  *)
(* them nobody wakes up by himself; and the directory is listed only when a*)
(* purge may find a surplus in it.                                         *)
InFiles(step) ==
    /\ part = "files" /\ step /\ UNCHANGED <<part, loggerVars>>
    /\ restarts' + nameChanges' = 0 \/ created' < NumFiles
    /\ SpuriousWakeup => restarts + nameChanges <= 1
    /\ purger' = "list" => Cardinality(Taken(disk)) >= MaxFileNum

LoggingNext == InFront(LoggerNext) \/ InFiles(Next)

(* The threads of both parts keep running; nobody has to call, and nobody  *)
(* has to write a line.  (Only one part moves, so a condition may serve a  *)
(* thread of each.)                                                        *)
LoggingSpec ==
    /\ LoggingInit /\ [][LoggingNext]_allVars
    /\ WF_allVars(InFiles(WriterStep) \/ InFront(Control))
    /\ WF_allVars(InFiles(PurgerStep) \/ InFront(Finish(t1)))
    /\ WF_allVars(InFront(Finish(t2)))
    /\ \A w \in 1 .. MaxInits : WF_allVars(InFront(Writer(w)))

-----------------------------------------------------------------------------
(* The statements of the front end, under the names the run lists.  Its    *)
(* threads are interchangeable: what is asked of each is asked of one.     *)

(* What is queued gets to the file, unless the logger is closed.           *)
QueuedIsFlushed == LineIsFlushed(t1)

(* Calls return, unless the logger locks itself out.                       *)
LoggerCallsReturn == CallReturns(t1)
=============================================================================
