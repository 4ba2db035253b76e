------------------------------- MODULE MapFile -------------------------------
(***************************************************************************)
(* MapFile of Common/MapFile.cpp, open: a mapping that one thread writes   *)
(* and another reads as a ring, each with an offset that only grows.  The  *)
(* bytes of the stream are numbered from 1; 0 is the byte NUL.             *)
(*                                                                         *)
(* openOrCreateMap asks for one byte more than m_uMemMaxSize on Windows,   *)
(* and on Linux the last page has it: it is Capacity in 0 .. Capacity.     *)
(* Nothing stops the writer from overtaking the reader; what the reader    *)
(* gets is then anybody's guess, and the model stops.                      *)
(***************************************************************************)
EXTENDS Integers

CONSTANTS
    Capacity,   \* m_uMemMaxSize
    MaxRead,    \* MAX_READ_MEM_BYTE
    MaxLen,     \* bound: length of one write
    MaxStream   \* bound: bytes written in all

(* Sizes the class can be used with.                                       *)
ASSUME MapFileAssumption ==
    /\ Capacity \in Nat \ {0} /\ MaxRead \in Nat \ {0}
    /\ MaxLen \in 1 .. Capacity /\ MaxStream \in Nat

VARIABLES
    mem,
    m_uWriteOffset,
    m_uReadOffset,
    writing,    \* the length of the write in progress, or 0
    reader,     \* how far the reader is
    ends,       \* history: where writes ended, and where the stream begins
    lapped,     \* history: a byte was overwritten before the reader passed it
    broken      \* a copy of the wrong length was begun: anything may follow

ringVars == <<mem, m_uWriteOffset, m_uReadOffset, writing, reader, ends, lapped, broken>>

NoRead == [pc |-> "idle"]

RingInit ==
    /\ mem = [i \in 0 .. Capacity |-> 0]
    /\ m_uWriteOffset = 0 /\ m_uReadOffset = 0
    /\ writing = 0 /\ reader = NoRead
    /\ ends = {0} /\ lapped = FALSE /\ broken = FALSE

-----------------------------------------------------------------------------
(* How many bytes there are from a place to the end of the mapping, the one*)
(* past m_uMemMaxSize included.                                            *)
ToEnd(pos) == Capacity - pos + 1

(* Two copies when the bytes do not fit; the second takes the NUL too.     *)
Written(pos, len) ==
    [i \in 0 .. Capacity |->
        IF pos <= i /\ i < pos + len THEN m_uWriteOffset + i - pos + 1
        ELSE IF i + ToEnd(pos) < len THEN m_uWriteOffset + i + ToEnd(pos) + 1
        ELSE IF i + ToEnd(pos) = len THEN 0
        ELSE mem[i]]

writeMap(len) ==
    /\ writing = 0
    /\ m_uWriteOffset + len <= MaxStream
    /\ mem' = Written(m_uWriteOffset % Capacity, len)
    /\ writing' = len
    /\ lapped' = (lapped \/ m_uWriteOffset + len > m_uReadOffset + Capacity)
    /\ UNCHANGED <<m_uWriteOffset, m_uReadOffset, reader, ends, broken>>

(* m_uWriteOffset.fetch_add                                                *)
Advance ==
    /\ writing > 0
    /\ m_uWriteOffset' = m_uWriteOffset + writing
    /\ writing' = 0
    /\ ends' = ends \cup {m_uWriteOffset'}
    /\ UNCHANGED <<mem, m_uReadOffset, reader, lapped, broken>>

-----------------------------------------------------------------------------
(* readMap gives the caller a place in the mapping when the bytes lie      *)
(* together, and otherwise a copy of them.                                 *)
Unread == m_uWriteOffset - m_uReadOffset

readMap ==
    /\ reader = NoRead
    /\ Unread > 0
    /\ reader' = [pc |-> "read", size |-> IF Unread < MaxRead THEN Unread ELSE MaxRead]
    /\ UNCHANGED <<mem, m_uWriteOffset, m_uReadOffset, writing, ends, lapped, broken>>

Place == m_uReadOffset % Capacity
Together(size) == Place + size < Capacity

CopiedToLast(size) == [i \in 1 .. size |->   \* mutant: up to m_uMemMaxSize only
    IF i < ToEnd(Place) THEN mem[Place + i - 1] ELSE mem[i - ToEnd(Place)]]
Copied(size) == [i \in 1 .. size |->
    IF i <= ToEnd(Place) THEN mem[Place + i - 1] ELSE mem[i - ToEnd(Place) - 1]]

Lend ==
    /\ reader.pc = "read"
    /\ Together(reader.size)
    /\ reader' = [reader EXCEPT !.pc = "lent"]
    /\ UNCHANGED <<mem, m_uWriteOffset, m_uReadOffset, writing, ends, lapped, broken>>

(* The length of the second copy is unsigned: one below zero is 2^32 - 1.  *)
Copy ==
    /\ reader.pc = "read"
    /\ ~Together(reader.size)
    /\ IF reader.size < ToEnd(Place) THEN broken' = TRUE /\ UNCHANGED reader
       ELSE /\ reader' = [pc |-> "copied", size |-> reader.size,
                          bytes |-> Copied(reader.size)]
            /\ UNCHANGED broken
    /\ UNCHANGED <<mem, m_uWriteOffset, m_uReadOffset, writing, ends, lapped>>

Held == reader.pc \in {"lent", "copied"}

(* The caller is done with the bytes, as in MepFile_Test.cpp.              *)
moveReadOffset ==
    /\ Held
    /\ m_uReadOffset' = m_uReadOffset + reader.size
    /\ reader' = NoRead
    /\ UNCHANGED <<mem, m_uWriteOffset, writing, ends, lapped, broken>>

setCurReadOffset(offset) ==
    /\ reader = NoRead
    /\ m_uReadOffset < offset /\ offset < m_uWriteOffset
    /\ m_uReadOffset' = offset
    /\ UNCHANGED <<mem, m_uWriteOffset, writing, reader, ends, lapped, broken>>

RingNext ==
    /\ ~broken /\ ~lapped
    /\ \/ \E len \in 1 .. MaxLen : writeMap(len)
       \/ Advance
       \/ readMap \/ Lend \/ Copy \/ moveReadOffset
       \/ \E offset \in 1 .. MaxStream : setCurReadOffset(offset)

RingSpec == RingInit /\ [][RingNext]_ringVars

-----------------------------------------------------------------------------
Seen ==
    IF reader.pc = "lent" THEN [i \in 1 .. reader.size |-> mem[Place + i - 1]]
    ELSE reader.bytes

Lap == (m_uReadOffset \div Capacity) * Capacity
NextLap == Lap + Capacity

(* A write that goes past the end of the mapping leaves a byte there that  *)
(* the offsets do not count: what follows it in the stream lies one place  *)
(* before its offset, up to the end of that write.                         *)
StartsInPlace == \E b \in ends : Lap <= b /\ b <= m_uReadOffset
EndsWithItsWrite ==
    LET end == m_uReadOffset + reader.size IN
    end > NextLap => ~\E b \in ends : NextLap <= b /\ b < end

(* What a reader holds is what was written, also when the bytes go round   *)
(* the end of the mapping, as long as the writer did not overtake it, it   *)
(* does not go on reading past a write that went round, and does not begin *)
(* in one.                                                                 *)
ReadsWhatWasWritten ==
    Held /\ ~lapped /\ StartsInPlace /\ EndsWithItsWrite =>
        Seen = [i \in 1 .. reader.size |-> m_uReadOffset + i]

(* The copy of the wrong length needs a read that ends with the mapping.   *)
BreaksAtEndOnly == broken => m_uReadOffset + reader.size = NextLap

RingSound == ReadsWhatWasWritten /\ BreaksAtEndOnly
=============================================================================
