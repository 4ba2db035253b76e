---------------------------- MODULE LockFreeStack ----------------------------
(***************************************************************************)
(* LockFreeStack of Common/LockFreeStack.h: a linked list whose head is    *)
(* the only atomic.  One access to shared memory is one step.  A deleted   *)
(* node goes back to the allocator, and the next push may get it again.    *)
(*                                                                         *)
(* pop reads the node it found at the head before it owns it; that another *)
(* pop does not delete the node meanwhile is up to the program, which must *)
(* let one thread pop at a time (Poppers).                                 *)
(***************************************************************************)
EXTENDS Naturals, FiniteSets

CONSTANTS
    Callers,    \* the threads that share the stack
    Poppers,    \* those of them that pop
    StackNodes,      \* the addresses the allocator has
    NULL,
    MaxPushes   \* bound: pushes in all; values are numbered

(* What the program and the instance must see to.                          *)
OnePopper ==
    /\ Poppers \subseteq Callers /\ \A t, u \in Poppers : t = u
    /\ IsFiniteSet(StackNodes) /\ NULL \notin StackNodes /\ MaxPushes \in Nat

VARIABLES
    head,
    node,       \* data and next of each address
    allocated,
    call,       \* how far each thread is in its call
    pushes

stackVars == <<head, node, allocated, call, pushes>>

Returned == [pc |-> "idle"]

StackInit ==
    /\ head = NULL
    /\ node = [n \in StackNodes |-> [data |-> 0, next |-> NULL]]
    /\ allocated = {}
    /\ call = [t \in Callers |-> Returned]
    /\ pushes = 0

Goto(t, next) == call' = [call EXCEPT ![t] = next]

(* new Node{ value, head.load() }                                          *)
push(t) ==
    /\ call[t] = Returned /\ pushes < MaxPushes
    /\ pushes' = pushes + 1
    /\ \E n \in StackNodes \ allocated :
          /\ allocated' = allocated \cup {n}
          /\ node' = [node EXCEPT ![n] = [data |-> pushes', next |-> head]]
          /\ Goto(t, [pc |-> "link", new_node |-> n])
    /\ UNCHANGED head

(* compare_exchange_strong writes what it found where it expected it.      *)
Link(t) ==
    /\ call[t].pc = "link"
    /\ LET n == call[t].new_node IN
       \/ /\ head = node[n].next
          /\ head' = n
          /\ Goto(t, Returned)
          /\ UNCHANGED node
       \/ /\ head # node[n].next
          /\ node' = [node EXCEPT ![n].next = head]
          /\ UNCHANGED <<head, call>>
    /\ UNCHANGED <<allocated, pushes>>

pop(t) ==
    /\ t \in Poppers /\ call[t] = Returned
    /\ Goto(t, IF head = NULL THEN Returned ELSE [pc |-> "next", old_head |-> head])
    /\ UNCHANGED <<head, node, allocated, pushes>>

(* old_head->next, an argument of the exchange.                            *)
ReadNext(t) ==
    /\ call[t].pc = "next"
    /\ LET old_head == call[t].old_head IN
       Goto(t, [pc |-> "unlink", old_head |-> old_head, next |-> node[old_head].next])
    /\ UNCHANGED <<head, node, allocated, pushes>>

(* What a failed exchange goes on with: the head it found, if there is one.*)
KeepNext(t) ==   \* mutant: next is not read again
    IF head = NULL THEN Returned ELSE [call[t] EXCEPT !.old_head = head]
Retry(t) == IF head = NULL THEN Returned ELSE [pc |-> "next", old_head |-> head]

Unlink(t) ==
    /\ call[t].pc = "unlink"
    /\ \/ /\ head = call[t].old_head
          /\ head' = call[t].next
          /\ Goto(t, [pc |-> "take", old_head |-> call[t].old_head])
       \/ /\ head # call[t].old_head
          /\ Goto(t, Retry(t))
          /\ UNCHANGED head
    /\ UNCHANGED <<node, allocated, pushes>>

(* value = old_head->data; delete old_head.                                *)
Take(t) ==
    /\ call[t].pc = "take"
    /\ allocated' = allocated \ {call[t].old_head}
    /\ Goto(t, Returned)
    /\ UNCHANGED <<head, node, pushes>>

StackNext ==
    \E t \in Callers :
        push(t) \/ Link(t) \/ pop(t) \/ ReadNext(t) \/ Unlink(t) \/ Take(t)

StackSpec == StackInit /\ [][StackNext]_stackVars

-----------------------------------------------------------------------------
(* The node k places below the head.                                       *)
Below[k \in 0 .. Cardinality(StackNodes)] ==
    IF k = 0 THEN head
    ELSE IF Below[k - 1] = NULL THEN NULL ELSE node[Below[k - 1]].next

Linked == {k \in 1 .. Cardinality(StackNodes) : Below[k - 1] # NULL}
Contents == [k \in Linked |-> node[Below[k - 1]].data]

(* The value a thread took off the list and is about to read.              *)
TakenOff(t) == IF call[t].pc = "take" THEN node[call[t].old_head].data ELSE 0

(* What the threads push and pop is what they would with a stack of values:*)
(* exchanges that fail, and nodes that come back at an address somebody    *)
(* still compares with, lose no value and return none twice.               *)
Promise == INSTANCE Stack WITH
    Threads <- Callers, Values <- 1 .. MaxPushes, NoValue <- 0,
    items <- Contents, out <- [t \in Callers |-> TakenOff(t)]

ImplementsStack == Promise!Spec
=============================================================================
