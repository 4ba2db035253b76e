---------------------------- MODULE FormatPattern ----------------------------
(***************************************************************************)
(* FormatterBuilder of FileLogger/formatPattern.h: a pattern becomes a list*)
(* of formatters, which print a line.  What each field prints is left out: *)
(* a formatter prints characters as they are, or a field with the format   *)
(* that was given for it.                                                  *)
(***************************************************************************)
EXTENDS Integers, SequencesExt

CONSTANTS
    Plain,      \* ordinary characters of patterns
    Fields,     \* the keys that print a field of the message, as v
    Times,      \* those that print it in a format of their own, as D
    MaxTokens   \* bound: tokens of a pattern

(* createItem: what the formatter of a key prints, given what stands in    *)
(* braces after it.  A key of no field prints that.                        *)
createItem(key, value) ==
    IF key \in Times THEN << <<key, value>> >>
    ELSE IF key \in Fields THEN << <<key, <<>>>> >>
    ELSE value

(* The place of the first ch at pos or behind it, or one past the end.     *)
SkipTo(ch, p, pos) ==
    LET places == {q \in pos .. Len(p) : p[q] = ch}
    IN  IF places = {} THEN Len(p) + 1 ELSE Min(places)

Failed == [ok |-> FALSE, items |-> <<>>]
Then(items, rest) == IF rest.ok THEN [ok |-> TRUE, items |-> items \o rest.items] ELSE Failed

(* Two percents in a row stand for one, which ends the run of ordinary     *)
(* characters before it.                                                   *)
TwiceUnread(p, q) == FALSE   \* mutant: the second percent is read as a key
Twice(p, q) == q < Len(p) /\ p[q + 1] = "%"

(* The loop of parsePattern from pos on.  (A pattern it does not accept    *)
(* leaves no formatter at all: they are only made at its end.)             *)
parsePattern(p) ==
    LET from[pos \in 1 .. Len(p) + 1] ==
            LET q == SkipTo("%", p, pos)
                value == SubSeq(p, pos, q - 1) \o (IF Twice(p, q) THEN <<"%">> ELSE <<>>)
                close == SkipTo("}", p, q + 3)
            IN  CASE pos > Len(p) -> [ok |-> TRUE, items |-> <<>>]
                  [] pos <= Len(p) /\ value # <<>> ->
                        Then(value, from[IF Twice(p, q) THEN q + 2 ELSE q])
                  [] pos = Len(p) /\ value = <<>> -> Failed
                  [] pos < Len(p) /\ value = <<>> ->
                        IF q + 2 > Len(p) \/ p[q + 2] # "{"
                        THEN Then(createItem(p[q + 1], <<>>), from[q + 2])
                        ELSE IF close > Len(p) THEN Failed
                        ELSE Then(createItem(p[q + 1], SubSeq(p, q + 3, close - 1)),
                                  from[close + 1])
    IN  from[1].items

-----------------------------------------------------------------------------
VARIABLES
    m_vFormatsPtr,   \* what the formatters print, one after the other
    pattern          \* the tokens m_strPattern is written with

(* What a pattern is written with: a character, a percent, a field with or *)
(* without braces, and at its end perhaps something unfinished.            *)
Token(kind, key, value) == [kind |-> kind, key |-> key, value |-> value]

Marks == Fields \cup Times \cup Plain

Tokens ==
    {Token("character", "", <<ch>>) : ch \in Plain \cup {"{", "}"}}
    \cup {Token("percent", "", <<>>), Token("key", "", <<>>)}
    \cup {Token(kind, key, <<>>) : kind \in {"field", "format", "brace"}, key \in Marks}
    \cup {Token("format", key, <<ch>>) : key \in Marks, ch \in Plain \cup {"%", "{"}}

Written(token) ==
    CASE token.kind = "character" -> token.value
      [] token.kind = "percent" -> <<"%", "%">>
      [] token.kind = "field" -> <<"%", token.key>>
      [] token.kind = "format" -> <<"%", token.key, "{">> \o token.value \o <<"}">>
      [] token.kind = "key" -> <<"%">>
      [] token.kind = "brace" -> <<"%", token.key, "{">>

(* An opening brace after a field belongs to it; what is unfinished is at  *)
(* the end.                                                                *)
Follows(token, last) ==
    /\ last.kind \notin {"key", "brace"}
    /\ last.kind = "field" => token.value # <<"{">> \/ token.kind # "character"

Init == pattern = <<>> /\ m_vFormatsPtr = <<>>

updatePattern(tokens) ==
    /\ tokens # <<>>
    /\ pattern' = tokens
    /\ m_vFormatsPtr' = parsePattern(FlattenSeq([i \in DOMAIN tokens |-> Written(tokens[i])]))

Next ==
    /\ Len(pattern) < MaxTokens
    /\ \E token \in Tokens :
          /\ pattern # <<>> => Follows(token, Last(pattern))
          /\ updatePattern(Append(pattern, token))

Spec == Init /\ [][Next]_<<m_vFormatsPtr, pattern>>

-----------------------------------------------------------------------------
Prints(token) ==
    CASE token.kind = "character" -> token.value
      [] token.kind = "percent" -> <<"%">>
      [] token.kind \in {"field", "format"} -> createItem(token.key, token.value)

(* Each token prints what it stands for, whatever stands before and after  *)
(* it; a pattern with an unfinished token prints nothing.                  *)
PrintsWhatIsWritten ==
    m_vFormatsPtr =
        IF pattern # <<>> /\ Last(pattern).kind \in {"key", "brace"} THEN <<>>
        ELSE FlattenSeq([i \in DOMAIN pattern |-> Prints(pattern[i])])
=============================================================================
