----------------------------- MODULE StringUtils -----------------------------
(***************************************************************************)
(* Trimming, splitting, replacing and the hexadecimal notation of          *)
(* Common/StringUtils.cpp.  A text is a sequence of characters or, where   *)
(* they are taken for numbers, of bytes.                                   *)
(***************************************************************************)
EXTENDS Integers, SequencesExt

(* The places where a text has one of some characters, or has not.         *)
With(s, chars) == {i \in DOMAIN s : s[i] \in chars}
Without(s, chars) == {i \in DOMAIN s : s[i] \notin chars}

trimLeft(s, chars) ==
    IF Without(s, chars) = {} THEN <<>> ELSE SubSeq(s, Min(Without(s, chars)), Len(s))
trimRight(s, chars) ==
    IF Without(s, chars) = {} THEN <<>> ELSE SubSeq(s, 1, Max(Without(s, chars)))
trimLeftOnly(s) == trimLeft(s, {" "})   \* mutant: the right end is forgotten
trim(s) == trimRight(trimLeft(s, {" "}), {" "})

(* subLeft: what stands before the first of the characters.                *)
subLeft(s, chars) ==
    IF With(s, chars) = {} THEN s ELSE SubSeq(s, 1, Min(With(s, chars)) - 1)

NoPair == <<<<>>, <<>>>>
spiltKv(s, chDelimiter) ==
    LET at == Min(With(s, {chDelimiter}))
        key == trim(SubSeq(s, 1, at - 1))
    IN  IF With(s, {chDelimiter}) = {} \/ key = <<>> THEN NoPair
        ELSE <<key, trim(SubSeq(s, at + 1, Len(s)))>>

-----------------------------------------------------------------------------
Occurs(s, from, i) ==
    i + Len(from) - 1 <= Len(s) /\ SubSeq(s, i, i + Len(from) - 1) = from
Places(s, from) == {i \in DOMAIN s : Occurs(s, from, i)}

(* string::replace at a place.                                             *)
Put(s, i, from, to) == SubSeq(s, 1, i - 1) \o to \o SubSeq(s, i + Len(from), Len(s))

replaceOne(s, from, to) ==
    IF from = <<>> \/ Places(s, from) = {} THEN s ELSE Put(s, Min(Places(s, from)), from, to)
replaceLast(s, from, to) ==
    IF from = <<>> \/ Places(s, from) = {} THEN s ELSE Put(s, Max(Places(s, from)), from, to)

(* The search goes on behind what was put in.                              *)
BehindNext(at, to) == at + Len(to) + 1   \* mutant: one character goes unsearched
Behind(at, to) == at + Len(to)

RECURSIVE ReplaceFrom(_, _, _, _)
ReplaceFrom(s, loc, from, to) ==
    LET found == {i \in Places(s, from) : i >= loc} IN
    IF found = {} THEN s
    ELSE ReplaceFrom(Put(s, Min(found), from, to), Behind(Min(found), to), from, to)
replaceAll(s, from, to) == IF from = <<>> THEN s ELSE ReplaceFrom(s, 1, from, to)

(* replaceOne of C strings: a match at the start counts as none, and one   *)
(* that counts has all that follow it replaced with it.  The buffer is     *)
(* made for a single replacement.                                          *)
replaceOneC(s, from, to) ==
    IF from = <<>> \/ Places(s, from) = {} \/ 1 \in Places(s, from) THEN s
    ELSE replaceAll(s, from, to)
FitsBuffer(s, from, to) ==
    Len(replaceOneC(s, from, to)) <= Len(replaceOne(s, from, to))

-----------------------------------------------------------------------------
(* Two digits for a byte, but eight for one above 127, which is negative as*)
(* a char and stays so as an int.                                          *)
Digits(b) == (IF b > 127 THEN [i \in 1 .. 6 |-> 15] ELSE <<>>) \o <<b \div 16, b % 16>>

ascii2HexString(s) ==
    IF s = <<>> THEN s ELSE <<"0", "x">> \o FlattenSeq([i \in DOMAIN s |-> Digits(s[i])])

(* Whatever "0x" is followed by: two digits for a byte, an odd one at the  *)
(* end for another, and none at all for a zero.                            *)
strtol16(digits) == FoldLeft(LAMBDA n, digit : 16 * n + digit, 0, digits)
hexString2Ascii(s) ==
    LET strHex == SubSeq(s, 3, Len(s)) IN
    IF s = <<>> THEN s
    ELSE [i \in 1 .. Max({1, (Len(strHex) + 1) \div 2}) |->
             strtol16(SubSeq(strHex, 2 * i - 1, Min({2 * i, Len(strHex)})))]

-----------------------------------------------------------------------------
(* The matches that a reader would mark from the left: none begins inside  *)
(* another.                                                                *)
Marked(s, from) ==
    LET marked[i \in DOMAIN s] ==
            /\ Occurs(s, from, i)
            /\ \A j \in DOMAIN s : i - Len(from) < j /\ j < i => ~ marked[j]
    IN  {i \in DOMAIN s : marked[i]}

(* Every marked match becomes `to`, and the rest stays.                    *)
Rewritten(s, from, to, places) ==
    FlattenSeq([i \in DOMAIN s |->
        IF i \in places THEN to
        ELSE IF \E j \in places : j < i /\ i < j + Len(from) THEN <<>>
        ELSE <<s[i]>>])

(* replaceAll replaces the matches of the text it was given, also when what*)
(* it puts in matches again; the others replace one of them, replaceOneC   *)
(* only when there is just one, and not at the start.                      *)
ReplacesMatches(s, from, to) ==
    LET marked == Marked(s, from) IN
    /\ replaceAll(s, from, to) = Rewritten(s, from, to, marked)
    /\ marked # {} =>
           /\ replaceOne(s, from, to) = Rewritten(s, from, to, {Min(marked)})
           /\ replaceLast(s, from, to) = Rewritten(s, from, to, {Max(Places(s, from))})
    /\ Cardinality(marked) = 1 /\ marked # {1} =>
           /\ replaceOneC(s, from, to) = replaceOne(s, from, to)
           /\ FitsBuffer(s, from, to)

(* Bytes up to 127 come back from their notation; of one that was cut      *)
(* within a byte, all but that one come back, and that one's upper half.   *)
HexRoundTrip(s) ==
    LET hex == ascii2HexString(s) IN
    (\A i \in DOMAIN s : s[i] < 128) =>
        /\ hexString2Ascii(hex) = s
        /\ s # <<>> => hexString2Ascii(Front(hex)) = Append(Front(s), Last(s) \div 16)
=============================================================================
