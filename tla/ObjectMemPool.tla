---------------------------- MODULE ObjectMemPool ----------------------------
(***************************************************************************)
(* ObjectMemPool of mem/ObjectMemPool.h, which the page cache and the      *)
(* thread caches make their Span and ThreadCache objects with: it cuts     *)
(* objects off chunks of the system's memory and keeps deleted ones in a   *)
(* list that is linked through their first bytes.  An address is a chunk   *)
(* and an offset; Word is the size of a pointer.                           *)
(***************************************************************************)
EXTENDS Integers, Sequences, FiniteSets, Functions

CONSTANTS
    ObjectSizes,    \* sizes of the class T that are tried
    Word,
    PageSize,
    ChunkSize,      \* 128 KB in the code
    MaxChunks       \* bound: chunks in all

(* A class that is larger than a chunk should fill whole pages: the system *)
(* is asked for pages, rounded down.                                       *)
ClassesFit ==
    /\ {Word, PageSize, ChunkSize} \cup ObjectSizes \subseteq Nat \ {0}
    /\ ChunkSize % PageSize = 0 /\ ChunkSize % Word = 0
    /\ \A n \in ObjectSizes : n > ChunkSize => n % PageSize = 0

VARIABLES
    sizeofT,
    chunks,         \* bytes of each chunk
    _mem,           \* where the next object is cut
    _remainSize,
    deleted,        \* m_freeList, the first of the list first
    inUse           \* objects that New returned and Delete has not taken

objectVars == <<sizeofT, chunks, _mem, _remainSize, deleted, inUse>>

Larger(m, n) == IF m > n THEN m ELSE n

ObjectsInit ==
    /\ sizeofT \in ObjectSizes
    /\ chunks = <<>> /\ _mem = <<0, 0>> /\ _remainSize = 0
    /\ deleted = <<>> /\ inUse = {}

NewFromList ==
    /\ deleted # <<>>
    /\ deleted' = Tail(deleted)
    /\ inUse' = inUse \cup {Head(deleted)}
    /\ UNCHANGED <<sizeofT, chunks, _mem, _remainSize>>

(* A list of deleted objects needs room for a pointer in each.             *)
StepOfObject == sizeofT   \* mutant: a pointer may be larger
Step == Larger(sizeofT, Word)

(* What is left of a chunk is given up when it is too small.               *)
NewFromChunk ==
    LET allocSize == Larger(sizeofT, ChunkSize)
        full == _remainSize < sizeofT
        at == IF full THEN <<Len(chunks) + 1, 0>> ELSE _mem
    IN  /\ deleted = <<>>
        /\ full => Len(chunks) < MaxChunks
        /\ chunks' = IF full THEN Append(chunks, (allocSize \div PageSize) * PageSize) ELSE chunks
        /\ _remainSize' = (IF full THEN allocSize ELSE _remainSize) - Step
        /\ _mem' = <<at[1], at[2] + Step>>
        /\ inUse' = inUse \cup {at}
        /\ UNCHANGED <<sizeofT, deleted>>

DeleteObject(obj) ==
    /\ obj \in inUse
    /\ deleted' = <<obj>> \o deleted
    /\ inUse' = inUse \ {obj}
    /\ UNCHANGED <<sizeofT, chunks, _mem, _remainSize>>

ObjectsNext == NewFromList \/ NewFromChunk \/ \E obj \in inUse : DeleteObject(obj)

ObjectsSpec == ObjectsInit /\ [][ObjectsNext]_objectVars

-----------------------------------------------------------------------------
(* What is written at an object: itself while in use, a pointer after that.*)
BytesOf(obj, n) == {obj[1]} \X (obj[2] .. obj[2] + n - 1)
WrittenAt(obj) == BytesOf(obj, IF obj \in inUse THEN sizeofT ELSE Word)

(* No object, and no link of the list, is written over by another, or      *)
(* outside the memory the system gave; nothing is both in use and listed.  *)
ObjectsApart ==
    LET all == inUse \cup Range(deleted) IN
    /\ Cardinality(all) = Cardinality(inUse) + Len(deleted)
    /\ \A obj \in all : \A byte \in WrittenAt(obj) : byte[2] < chunks[byte[1]]
    /\ \A obj, other \in all : obj # other => WrittenAt(obj) \cap WrittenAt(other) = {}
=============================================================================
