--------------------------- MODULE ReadersWriters ---------------------------
(***************************************************************************)
(* What a reader-writer lock promises: any number of readers, or one       *)
(* writer and no reader.                                                   *)
(***************************************************************************)
CONSTANT Threads

VARIABLES readers, writers

rwVars == <<readers, writers>>

Init == readers = {} /\ writers = {}

Read(t) ==
    /\ writers = {} /\ t \notin readers
    /\ readers' = readers \cup {t} /\ UNCHANGED writers

Write(t) ==
    /\ readers = {} /\ writers = {}
    /\ writers' = {t} /\ UNCHANGED readers

Release(t) ==
    /\ t \in readers \cup writers
    /\ readers' = readers \ {t} /\ writers' = writers \ {t}

Next == \E t \in Threads : Read(t) \/ Write(t) \/ Release(t)

Spec == Init /\ [][Next]_rwVars
=============================================================================
