-------------------------------- MODULE Stack --------------------------------
(***************************************************************************)
(* What a shared stack promises: last in, first out, whoever pushes and    *)
(* pops.  A value that was popped stays with its caller until it returns.  *)
(***************************************************************************)
EXTENDS Sequences

CONSTANTS Threads, Values, NoValue

VARIABLES
    items,   \* the first is on top
    out      \* the value each thread popped and did not return yet

Init == items = <<>> /\ out = [t \in Threads |-> NoValue]

Push(v) == items' = <<v>> \o items /\ UNCHANGED out

Pop(t) ==
    /\ items # <<>> /\ out[t] = NoValue
    /\ items' = Tail(items)
    /\ out' = [out EXCEPT ![t] = Head(items)]

Return(t) ==
    /\ out[t] # NoValue
    /\ out' = [out EXCEPT ![t] = NoValue]
    /\ UNCHANGED items

Next ==
    \/ \E v \in Values : Push(v)
    \/ \E t \in Threads : Pop(t) \/ Return(t)

Spec == Init /\ [][Next]_<<items, out>>
=============================================================================
