------------------------------ MODULE SizeClass ------------------------------
(***************************************************************************)
(* The size classes of the memory pool (class SizeClass in                 *)
(* libSdk/mem/MemPoolCommon.h), with the code's own numbers.               *)
(***************************************************************************)
EXTENDS Integers

KB == 1024
KB8 == 8192        \* 8 * 1024
KB64 == 65536      \* 64 * 1024
MAX_BYTES == 262144  \* 256 * 1024
FREELISTS_NUM == 208
KPAGE == 129
PAGE_SIZE == 8192   \* 1 << PAGE_SHIFT

(* _RoundUp: the next multiple of align, a power of two.                   *)
RoundUpTo(size, align) == ((size + align - 1) \div align) * align

(* _Index: the position of size in a row of classes align bytes apart.     *)
IndexAtFloor(size, align) == size \div align   \* mutant: a multiple belongs to the next class
IndexAt(size, align) == (size + align - 1) \div align - 1

RoundUp(size) ==
    CASE size <= 128                     -> RoundUpTo(size, 8)
      [] 128 < size /\ size <= KB        -> RoundUpTo(size, 16)
      [] KB < size /\ size <= KB8     -> RoundUpTo(size, 128)
      [] KB8 < size /\ size <= KB64 -> RoundUpTo(size, KB)
      [] KB64 < size                  -> RoundUpTo(size, KB8)

(* Only for sizes up to MAX_BYTES: the code asserts it.  The rows have 16, *)
(* 56, 56, 56 and 24 classes.                                              *)
Index(size) ==
    CASE size <= 128                     -> IndexAt(size, 8)
      [] 128 < size /\ size <= KB        -> IndexAt(size - 128, 16) + 16
      [] KB < size /\ size <= KB8     -> IndexAt(size - KB, 128) + 72
      [] KB8 < size /\ size <= KB64 -> IndexAt(size - KB8, KB) + 128
      [] KB64 < size                  -> IndexAt(size - KB64, KB8) + 184

NumMoveSize(size) ==
    LET num == MAX_BYTES \div size
    IN  CASE num < 2                -> 2
          [] 2 <= num /\ num <= 512 -> num
          [] 512 < num              -> 512

NumMovePage(size) ==
    LET pages == (NumMoveSize(size) * size) \div PAGE_SIZE
    IN  IF pages < 1 THEN 1 ELSE pages

-----------------------------------------------------------------------------
(* Allocate files by Index(size) and Deallocate by Index(m_nObjSize), the  *)
(* rounded size: an object returns to the list it came from.               *)
ReturnsToItsList(size) == Index(RoundUp(size)) = Index(size)

(* The lists of a thread cache are just enough.                            *)
ListsSuffice(size) == Index(size) \in 0 .. FREELISTS_NUM - 1

(* Deallocate tells small from large by m_nObjSize alone.                  *)
SmallStaysSmall(size) == size <= MAX_BYTES => RoundUp(size) <= MAX_BYTES

(* A span cut for a class holds at least one object of it, and is short    *)
(* enough for the lists of the page cache, so it can be merged again; at   *)
(* least two objects may move at once.                                     *)
SpanFitsClass(size) ==
    LET s == RoundUp(size)
    IN  /\ NumMoveSize(s) \in 2 .. 512
        /\ s <= NumMovePage(s) * PAGE_SIZE
        /\ NumMovePage(s) \in 1 .. KPAGE - 1

-----------------------------------------------------------------------------
(* Requests of every size, one after the other: what a caller may ask the  *)
(* memory pool for, as states.  A state stands for eight sizes.            *)
CONSTANT FirstSizes     \* where a sweep begins, positive

SizesPositive == FirstSizes \subseteq Nat \ {0}

VARIABLE request

SizesInit == request \in FirstSizes

(* A sweep ends where the next one, 1024 bytes on, has begun.              *)
NextSize == request % KB # KB - 7 /\ request' = request + 8

SizesSpec == SizesInit /\ [][NextSize]_request

(* An object returns to the list it came from, every size has a list, and a*)
(* span that fits it.                                                      *)
SizesFit ==
    \A s \in request .. request + 7 : s <= MAX_BYTES =>
        /\ ReturnsToItsList(s)
        /\ ListsSuffice(s)
        /\ SpanFitsClass(s)
=============================================================================
