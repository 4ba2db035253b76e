------------------------------ MODULE ConfigFile ------------------------------
(***************************************************************************)
(* How FileLogger reads a configuration of lines: OnGetLogConfig tries the *)
(* file as JSON, and hands what is left of the stream to parseConfig of    *)
(* Common/FileSystem.cpp.                                                  *)
(***************************************************************************)
EXTENDS StringUtils

CONSTANTS
    Keys,       \* names of settings: at least two characters
    Values,     \* values that lines give them, without "#"
    MaxLines    \* bound: lines of a file

(* json::parse skips blanks and line ends, stops at the first character of *)
(* no JSON text, and leaves the stream behind it.  (A key that begins as   *)
(* true, false or null loses one character more.)                          *)
LeftByJson(lines) ==
    LET blank == {i \in DOMAIN lines : Without(lines[i], {" ", "\r"}) = {}}
        first == Min(DOMAIN lines \ blank)
    IN  IF DOMAIN lines \subseteq blank THEN <<>>
        ELSE <<Tail(trimLeft(lines[first], {" "}))>> \o SubSeq(lines, first + 1, Len(lines))

(* A line up to a comment and up to the end of it; no pair without a key.  *)
Pair(line) ==
    LET data == subLeft(line, {"#"}) IN
    IF data = <<>> THEN NoPair ELSE spiltKv(subLeft(data, {"\r"}), "=")

(* map::insert keeps the first value of a key.                             *)
Insert(config, pair) ==
    IF pair[1] = <<>> \/ pair[1] \in DOMAIN config THEN config
    ELSE config @@ (pair[1] :> pair[2])

parseConfig(lines) ==
    FoldLeft(LAMBDA config, line : Insert(config, Pair(line)), <<>>, lines)

OnGetLogConfig(lines) == parseConfig(LeftByJson(lines))

-----------------------------------------------------------------------------
VARIABLE entries   \* the lines of a file, as they were meant

(* Settings have blanks around their parts, comments behind them and the   *)
(* line ends of Windows, or not; there are remarks, settings that somebody *)
(* took out, and empty lines.                                              *)
Setting == [key : Keys, value : Values, blank : {<<>>, <<" ">>}, end : {<<>>, <<"#", "x">>, <<"\r">>}]
Remark == [end |-> <<"#", "x">>]
TakenOut == {[end |-> <<"#">> \o key \o <<"=", "x">>] : key \in Keys}
Blank == [end |-> <<" ">>]
Others == {Remark, Blank} \cup TakenOut

Line(entry) ==
    IF entry \in Others THEN entry.end
    ELSE entry.blank \o entry.key \o entry.blank \o <<"=">> \o entry.blank \o entry.value
             \o entry.blank \o entry.end

Init == entries = <<>>
Next ==
    /\ Len(entries) < MaxLines
    /\ \E entry \in Setting \cup Others : entries' = Append(entries, entry)

Spec == Init /\ [][Next]_entries

-----------------------------------------------------------------------------
First == Min({i \in DOMAIN entries : entries[i] # Blank})
Settings == {i \in DOMAIN entries \ {First} : entries[i] \notin Others}

(* The first line loses a character: a setting the first one of its name,  *)
(* and one that somebody took out the mark that did so.                    *)
Misread ==
    IF entries[First] \in Setting THEN {Tail(entries[First].key)}
    ELSE {key \in Keys : entries[First].end = <<"#">> \o key \o <<"=", "x">>}

(* Of all lines but the first, each key gets the first value written for   *)
(* it, and there is no other key but the one that the first line is misread*)
(* as: a file that begins with a remark is read as it was meant.  (No value*)
(* has a "#", which would end it.)                                         *)
ReadsSettings ==
    LET config == OnGetLogConfig([i \in DOMAIN entries |-> Line(entries[i])])
        keys == {entries[i].key : i \in Settings}
    IN  (\E i \in DOMAIN entries : entries[i] # Blank) =>
            /\ DOMAIN config = keys \cup Misread
            /\ \A key \in keys \ Misread :
                   LET from == {i \in Settings : entries[i].key = key}
                   IN  config[key] = trim(entries[Min(from)].value)
=============================================================================
