-------------------------------- MODULE Codecs --------------------------------
(***************************************************************************)
(* The codecs of Common/Base64.cpp and the cipher of SymRot13Cipher.cpp.   *)
(* A text is a sequence of bytes.  A symbol of an encoding is its place in *)
(* the alphabet, or Pad; the tables of the code are inverse to each other. *)
(*                                                                         *)
(* The tail of a text that does not fill a group is written out case by    *)
(* case in the code; each case is the group with zero bytes added, cut and *)
(* padded.                                                                 *)
(***************************************************************************)
EXTENDS Integers, SequencesExt, Bitwise

CONSTANTS
    Bytes,      \* those that texts are made of
    Key,        \* m_strKey
    MaxLen      \* bound: length of a text

Pad == 64

VARIABLE text

Init == text = <<>>
Next == Len(text) < MaxLen /\ \E b \in Bytes : text' = Append(text, b)

Spec == Init /\ [][Next]_text

-----------------------------------------------------------------------------
(* Group number g of n bytes or symbols, filled up with `fill`.            *)
Group(s, n, g, fill) ==
    [i \in 1 .. n |-> IF (g - 1) * n + i <= Len(s) THEN s[(g - 1) * n + i] ELSE fill]
Groups(s, n) == (Len(s) + n - 1) \div n

(* Encode group by group; the first `used` symbols of a group stand for    *)
(* bytes, the others become padding.                                       *)
Encode(s, n, Symbols(_), Used(_)) ==
    FlattenSeq([g \in 1 .. Groups(s, n) |->
        LET symbols == Symbols(Group(s, n, g, 0))
            bytes == IF g < Groups(s, n) THEN n ELSE Len(s) - (g - 1) * n
        IN  [i \in DOMAIN symbols |-> IF i <= Used(bytes) THEN symbols[i] ELSE Pad]])

Symbols64(p) ==
    << p[1] \div 4,
       (p[1] % 4) * 16 + p[2] \div 16,
       (p[2] % 16) * 4 + p[3] \div 64,
       p[3] % 64 >>

(* i + 1 == bytes: two symbols, i + 2: four, and so on.                    *)
UsedRoundedDown(bytes, bits) == (8 * bytes) \div bits   \* mutant: the last bits are cut
UsedSymbols(bytes, bits) == (8 * bytes + bits - 1) \div bits
Used64(bytes) == UsedSymbols(bytes, 6)

base64_encode(s) == Encode(s, 3, Symbols64, Used64)

Symbols32(p) ==
    << p[1] \div 8,
       (p[1] % 8) * 4 + p[2] \div 64,
       (p[2] \div 2) % 32,
       (p[2] % 2) * 16 + p[3] \div 16,
       (p[3] % 16) * 2 + p[4] \div 128,
       (p[4] \div 4) % 32,
       (p[4] % 4) * 8 + p[5] \div 32,
       p[5] % 32 >>
Used32(bytes) == UsedSymbols(bytes, 5)

base32_encode(s) == Encode(s, 5, Symbols32, Used32)

base16_encode(s) == FlattenSeq([i \in DOMAIN s |-> <<s[i] \div 16, s[i] % 16>>])

-----------------------------------------------------------------------------
(* Decoding stops at a group that begins with padding; s_base64_dec takes  *)
(* the padding for 0, and a byte keeps 8 bits of what is put into it.      *)
Value(symbol) == IF symbol = Pad THEN 0 ELSE symbol
Byte(n) == n % 256
Unless(symbol, byte) == IF symbol = Pad THEN <<>> ELSE <<byte>>

Bytes64(c) ==
    LET v == [i \in DOMAIN c |-> Value(c[i])] IN
    <<Byte(v[1] * 4 + v[2] \div 16)>>
      \o Unless(c[3], Byte(v[2] * 16 + v[3] \div 4))
      \o Unless(c[4], Byte(v[3] * 64 + v[4]))

Bytes32(c) ==
    LET v == [i \in DOMAIN c |-> Value(c[i])] IN
    <<Byte(v[1] * 8 + v[2] \div 4)>>
      \o Unless(c[3], Byte(v[2] * 64 + v[3] * 2 + v[4] \div 16))
      \o Unless(c[5], Byte(v[4] * 16 + v[5] \div 2))
      \o Unless(c[6], Byte(v[5] * 128 + v[6] * 4 + v[7] \div 8))
      \o Unless(c[8], Byte(v[7] * 32 + v[8]))

Decode(s, n, BytesOf(_)) ==
    FlattenSeq([g \in 1 .. Groups(s, n) |->
        IF \E h \in 1 .. g : s[(h - 1) * n + 1] = Pad THEN <<>>
        ELSE BytesOf(Group(s, n, g, Pad))])

base64_decode(s) == Decode(s, 4, Bytes64)
base32_decode(s) == Decode(s, 8, Bytes32)
base16_decode(s) == [i \in 1 .. Len(s) \div 2 |-> Byte(s[2 * i - 1] * 16 + s[2 * i])]

-----------------------------------------------------------------------------
expandKey(s) == [i \in DOMAIN s |-> Key[((i - 1) % Len(Key)) + 1]]

rot13(c) ==
    IF 97 <= c /\ c <= 122 THEN 97 + ((c - 97 + 13) % 26)
    ELSE IF 65 <= c /\ c <= 90 THEN 65 + ((c - 65 + 13) % 26)
    ELSE c

Mixed(s, t) == [i \in DOMAIN s |-> s[i] ^^ t[i]]
Rot13(s) == [i \in DOMAIN s |-> rot13(s[i])]
Stepped(key) == [i \in DOMAIN key |-> (key[i] + i - 1) % 256]

encrypt(s) == Reverse(Mixed(Rot13(s), expandKey(s)))
decrypt(s) == LET r == Reverse(s) IN Rot13(Mixed(r, expandKey(r)))

encryptAdvanced(s) == Mixed(Rot13(Mixed(s, expandKey(s))), Stepped(expandKey(s)))
decryptAdvanced(s) == Mixed(Rot13(Mixed(s, Stepped(expandKey(s)))), expandKey(s))

-----------------------------------------------------------------------------
(* Decoding what was encoded gives the text back, whatever its length      *)
(* leaves in the last group, also when the padding is stripped, as in URLs.*)
RoundTrip ==
    /\ base64_decode(base64_encode(text)) = text
    /\ base64_decode(SelectSeq(base64_encode(text), LAMBDA c : c # Pad)) = text
    /\ base32_decode(base32_encode(text)) = text
    /\ base16_decode(base16_encode(text)) = text
    /\ decrypt(encrypt(text)) = text
    /\ decryptAdvanced(encryptAdvanced(text)) = text
=============================================================================
