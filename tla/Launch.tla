-------------------------------- MODULE Launch --------------------------------
(***************************************************************************)
(* createProcWithArg of Common/PocessMange.cpp on Unix: forks, sessions,   *)
(* exec and the waits for children.  The application is one process at     *)
(* first; a fork makes another that goes on in the same code.  What the    *)
(* system does (exits, zombies, orphans) is external.                      *)
(***************************************************************************)
EXTENDS Integers, FiniteSets

CONSTANTS
    Pids,
    Application,    \* the process that calls first
    InitProcess,    \* who takes in orphans and reaps them
    MaxLaunches     \* bound: calls

ASSUME LaunchAssumption ==
    /\ Application \in Pids /\ InitProcess \notin Pids
    /\ MaxLaunches \in Nat

VARIABLES
    at,         \* where each process is, or "none"
    parent,
    child,      \* the pid that the last fork gave each process
    request,    \* the arguments of the call each process is in, or was in
    status,     \* how a zombie ended: "exited" or "killed"
    answer,     \* what the last call returned in each process
    launches,   \* calls so far
    runs,       \* per call: how often it started the program
    torn        \* the calls in which the second fork failed

launchVars == <<at, parent, child, request, status, answer, launches, runs, torn>>

Twofold(r) == r.bStandalone /\ ~ r.waitForExit     \* forks twice

LaunchInit ==
    /\ at = [p \in Pids |-> IF p = Application THEN "application" ELSE "none"]
    /\ parent = [p \in Pids |-> InitProcess]
    /\ child = [p \in Pids |-> p]
    /\ request = [p \in Pids |-> [bStandalone |-> FALSE, waitForExit |-> TRUE, call |-> 0]]
    /\ status = [p \in Pids |-> "exited"]
    /\ answer = [p \in Pids |-> TRUE]
    /\ launches = 0
    /\ runs = [c \in 1 .. MaxLaunches |-> 0]
    /\ torn = {}

Goto(p, place) == at' = [at EXCEPT ![p] = place]

ReturnFrom(p, result) ==
    /\ Goto(p, "application")
    /\ answer' = [answer EXCEPT ![p] = result]

createProcWithArg(p, standalone, wait) ==
    /\ at[p] = "application" /\ launches < MaxLaunches
    /\ launches' = launches + 1
    /\ request' = [request EXCEPT ![p] = [bStandalone |-> standalone, waitForExit |-> wait,
                                          call |-> launches + 1]]
    /\ Goto(p, "fork")
    /\ UNCHANGED <<parent, child, status, answer, runs, torn>>

(* p goes on at one place, the new process q at another.                   *)
Forked(p, q, place, childPlace) ==
    /\ at[q] = "none"
    /\ at' = [at EXCEPT ![p] = place, ![q] = childPlace]
    /\ parent' = [parent EXCEPT ![q] = p]
    /\ child' = [child EXCEPT ![p] = q]
    /\ request' = [request EXCEPT ![q] = request[p]]

(* The second process of a standalone launch forks once more; the caller   *)
(* waits for it, for the program, or only looks.                           *)
Fork(p) ==
    /\ at[p] = "fork"
    /\ \/ \E q \in Pids :
             Forked(p, q,
                    IF Twofold(request[p]) \/ request[p].waitForExit THEN "wait" ELSE "look",
                    IF Twofold(request[p]) THEN "forkAgain" ELSE "exec")
          /\ UNCHANGED answer
       \/ ReturnFrom(p, FALSE) /\ UNCHANGED <<parent, child, request>>
    /\ UNCHANGED <<status, launches, runs, torn>>

(* setsid does not fail for a process that was just forked.  When the fork *)
(* fails, the function returns in this process too, and the application    *)
(* goes on twice.                                                          *)
ForkAgain(p) ==
    /\ at[p] = "forkAgain"
    /\ \/ \E q \in Pids : Forked(p, q, "exit", "exec")
          /\ UNCHANGED <<answer, torn>>
       \/ /\ ReturnFrom(p, FALSE)
          /\ torn' = torn \cup {request[p].call}
          /\ UNCHANGED <<parent, child, request>>
    /\ UNCHANGED <<status, launches, runs>>

Exec(p) ==
    /\ at[p] = "exec"
    /\ \/ /\ Goto(p, "program")
          /\ runs' = [runs EXCEPT ![request[p].call] = @ + 1]
       \/ Goto(p, "exit") /\ UNCHANGED runs
    /\ UNCHANGED <<parent, child, request, status, answer, launches, torn>>

(* A process ends: it stays for its parent to see, its children go to the  *)
(* init process, which reaps those that ended.                             *)
Ends(p, how) ==
    LET Orphan(q) == parent[q] = p /\ q # p IN
    /\ at' = [q \in Pids |->
                CASE q = p -> IF parent[p] = InitProcess THEN "none" ELSE "zombie"
                  [] Orphan(q) /\ at[q] = "zombie" -> "none"
                  [] OTHER -> at[q]]
    /\ parent' = [q \in Pids |-> IF Orphan(q) THEN InitProcess ELSE parent[q]]
    /\ status' = [status EXCEPT ![p] = how]
    /\ UNCHANGED <<child, request, answer, launches, runs, torn>>

Exit(p) == at[p] = "exit" /\ Ends(p, "exited")

(* A program, or a copy of the application, may end by itself.             *)
Finish(p) ==
    /\ at[p] = "program" \/ (at[p] = "application" /\ p # Application)
    /\ \E how \in {"exited", "killed"} : Ends(p, how)

Reap(p) == at' = [at EXCEPT ![p] = "application", ![child[p]] = "none"]

(* waitpid(pid, &status, 0).  The code of an exit, also of one after a     *)
(* failed exec, is not negative.                                           *)
ReturnAtOnce(p) == at[p] = "wait" /\ ReturnFrom(p, TRUE)   \* mutant: nobody waits
Waited(p) ==
    /\ at[p] = "wait"
    /\ at[child[p]] = "zombie"
    /\ Reap(p)
    /\ answer' = [answer EXCEPT ![p] = Twofold(request[p]) \/ status[child[p]] = "exited"]

Wait(p) == Waited(p) /\ UNCHANGED <<parent, child, request, status, launches, runs, torn>>

(* waitpid(pid, NULL, WNOHANG).                                            *)
Look(p) ==
    /\ at[p] = "look"
    /\ IF at[child[p]] = "zombie" THEN Reap(p) ELSE Goto(p, "application")
    /\ answer' = [answer EXCEPT ![p] = TRUE]
    /\ UNCHANGED <<parent, child, request, status, launches, runs, torn>>

LaunchContinue(p) == Fork(p) \/ ForkAgain(p) \/ Exec(p) \/ Exit(p) \/ Wait(p) \/ Look(p)

LaunchNext == \E p \in Pids :
    \/ \E standalone, wait \in BOOLEAN : createProcWithArg(p, standalone, wait)
    \/ LaunchContinue(p)
    \/ Finish(p)

LaunchSpec == LaunchInit /\ [][LaunchNext]_launchVars

-----------------------------------------------------------------------------
Alive == {p \in Pids : at[p] # "none"}

(* A call starts its program at most once, and one that waited and returned*)
(* TRUE saw it through; who forks twice or waits leaves no child behind,   *)
(* neither running nor to be reaped (a call that does neither leaves one); *)
(* and the application goes on in one process, unless a second fork failed.*)
LaunchSound ==
    /\ \A c \in DOMAIN runs : runs[c] <= 1
    /\ \A p, q \in Alive :
          parent[q] = p /\ at[p] = "application" =>
              ~ request[q].bStandalone /\ ~ request[q].waitForExit
    /\ torn = {} => \A p \in Alive \ {Application} :
          at[p] \in {"forkAgain", "exec", "exit", "program", "zombie"}

(* A standalone launch that is not waited for returns, however long the    *)
(* program runs.                                                           *)
LaunchReturns ==
    at[Application] = "fork" /\ Twofold(request[Application])
        ~> at[Application] = "application" \/ torn # {}
=============================================================================
