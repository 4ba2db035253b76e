------------------------------ MODULE MCParts ------------------------------
(***************************************************************************)
(* Instances for TLC of the parts whose calls never wait and that share no *)
(* state with one another, one run for all: the initial state names the    *)
(* part at work, and only that one moves, so that their states add up.     *)
(***************************************************************************)
EXTENDS LoadBalancer, MapFile, FreeListRace, LockFreeStack, Structures, SizeClass

CONSTANTS
    u1, u2,                         \* two threads with free lists
    LastSize,                       \* bound: the largest size tried
    Bytes, MaxText, MaxHeight, MaxWord,
    Plain, Fields, DateFields, MaxTokens,   \* of a pattern
    ConfigKeys, ConfigValues, MaxLines      \* of a configuration

VARIABLES
    expression, text,
    m_vFormatsPtr, pattern, entries

patternState == <<m_vFormatsPtr, pattern>>

(* A free list for each thread, as MSVC builds the pool.                   *)
OneEach == [t \in Threads |-> IF t = u1 THEN "c1" ELSE "c2"]

Sweeps == {1 + i * KB : i \in 0 .. (LastSize \div KB)}

ASSUME InstancesMeetConditions ==
    OnePopper /\ StructuresFit /\ OwnCache /\ PositiveShares /\ SizesPositive

(* Operators of three levels of precedence, functions of one and of two    *)
(* parameters.                                                             *)
Calculator == INSTANCE StringExpCalc WITH
    Digits <- {"1", "2"}, Operators <- {"*", "-", "|"},
    Singles <- {"abs"}, Doubles <- {"max"},
    Operands <- LET Number(n) == [op |-> n, args |-> <<>>]
                    Two(o, m, n) == [op |-> o, args |-> <<Number(m), Number(n)>>]
                IN  {Number("-1"), Two("-", "1", "2"), Two("|", "-2", "1"), Two("max", "-1", "2")}

Pattern == INSTANCE FormatPattern WITH Times <- DateFields

Config == INSTANCE ConfigFile WITH Keys <- ConfigKeys, Values <- ConfigValues

Text == INSTANCE Codecs WITH Key <- <<75, 120, 200>>, MaxLen <- MaxText

Strings == INSTANCE StringUtils

(* What is looked for in words of two characters, and what replaces it.    *)
Looked == {<<"a">>, <<"a", "a">>, <<"a", "b">>, <<"a", "b", "a">>}
Replacing == {<<>>, <<"a">>, <<"b">>, <<"a", "a">>}

SomeKeys == {<<"k", "a">>, <<"k", "b">>}
SomeValues == {<<>>, <<"v", "=", "w">>}

(* Three servers, two of which share an address.                           *)
SomeShapes ==
          {[address |-> "a", weight |-> 4, processingPower |-> 1],
           [address |-> "b", weight |-> 2, processingPower |-> 3],
           [address |-> "b", weight |-> 4, processingPower |-> 2]}

AllKinds ==
         {"ROUND_ROBIN", "WEIGHTED_ROUND_ROBIN", "RANDOM", "WEIGHTED_RANDOM",
          "LEAST_CONNECTIONS", "WEIGHTED_LEAST_CONNECTIONS", "DESTINATION_HASH",
          "SOURCE_HASH", "LBLCR", "RESPONSE_TIME", "PROCESSING_POWER"}

OneShape == {[address |-> "c", weight |-> 1, processingPower |-> 1]}
OneDestination == {"d"}
SomeHash == [d \in Destinations |-> 5]

(* A part that is not at work starts in one state only.                    *)
PartsInit ==
    /\ part \in Structures \cup {"caches", "sizes", "balancer", "stack", "ring",
                               "calculator", "pattern", "config", "text", "words"}
    /\ CacheInit /\ (part # "caches" => hold[u1] = Objects)
    /\ SizesInit /\ (part # "sizes" => request = 1)
    /\ StructuresInit /\ (part # "objects" => \A n \in ObjectSizes : sizeofT <= n)
    /\ Init /\ (part # "balancer" => kind = "RANDOM")
    /\ StackInit /\ RingInit /\ Text!Init
    /\ Calculator!Init /\ (part # "calculator" => expression.op = "1")
    /\ Pattern!Init /\ Config!Init

NextWord == Len(text) < MaxWord /\ \E ch \in {"a", "b"} : text' = Append(text, ch)

StructureStep == StructuresNext /\ UNCHANGED <<cacheVars, request, vars, stackVars, ringVars, expression, patternState, entries, text>>
CacheStep == part = "caches" /\ CacheNext /\ UNCHANGED <<structuresVars,
    request, vars, stackVars, ringVars, expression, patternState, entries, text>>
SizeStep == part = "sizes" /\ NextSize /\ UNCHANGED <<structuresVars,
    cacheVars, vars, stackVars, ringVars, expression, patternState, entries, text>>
(* (Bound: reports go to the classes that choose by their counters.)       *)
BalancerStep == part = "balancer" /\ Next /\ (report' # report => kind \in Loads)
    /\ UNCHANGED <<structuresVars,
    cacheVars, request, stackVars, ringVars, expression, patternState, entries, text>>
StackStep == part = "stack" /\ StackNext /\ UNCHANGED <<structuresVars,
    cacheVars, request, vars, ringVars, expression, patternState, entries, text>>
RingStep == part = "ring" /\ RingNext /\ UNCHANGED <<structuresVars,
    cacheVars, request, vars, stackVars, expression, patternState, entries, text>>
CalculatorStep == part = "calculator" /\ Calculator!Next /\ UNCHANGED <<structuresVars,
    cacheVars, request, vars, stackVars, ringVars, patternState, entries, text>>
PatternStep == part = "pattern" /\ Pattern!Next /\ UNCHANGED <<structuresVars,
    cacheVars, request, vars, stackVars, ringVars, expression, entries, text>>
ConfigStep == part = "config" /\ Config!Next /\ UNCHANGED <<structuresVars,
    cacheVars, request, vars, stackVars, ringVars, expression, patternState, text>>
TextStep == part = "text" /\ Text!Next /\ UNCHANGED <<structuresVars,
    cacheVars, request, vars, stackVars, ringVars, expression, patternState, entries>>
WordStep == part = "words" /\ NextWord /\ UNCHANGED <<structuresVars,
    cacheVars, request, vars, stackVars, ringVars, expression, patternState, entries>>

PartsNext ==
    \/ StructureStep \/ CacheStep \/ SizeStep \/ BalancerStep \/ StackStep \/ RingStep
    \/ CalculatorStep \/ PatternStep \/ ConfigStep \/ TextStep \/ WordStep

allVars == <<structuresVars, cacheVars, request, vars, stackVars, ringVars, expression, patternState, entries, text>>

PartsSpec == PartsInit /\ [][PartsNext]_allVars

-----------------------------------------------------------------------------
(* Most parts are extended, and state their own: the structures           *)
(* (StructuresSound, ImplementsBag, ImplementsDictionary), the sizes       *)
(* (SizesFit), the balancers, the ring (RingSound), the stack              *)
(* (ImplementsStack) and the free lists with a cache for each thread       *)
(* (CachesSound).                                                          *)

(* What handles text.  Calculator: every operator gets its own operands.   *)
(* Log pattern: every token prints what it stands for.  Configuration: all *)
(* settings behind the first line are read, and nothing else but what the  *)
(* first line is misread as.                                               *)
(* Codecs and cipher: decoding gives back what was encoded.  Replacing     *)
(* rewrites the matches of the text it was given, and nothing else.        *)
TextsSound ==
    /\ part = "calculator" => Calculator!ComputesWhatIsWritten
    /\ part = "pattern" => Pattern!PrintsWhatIsWritten
    /\ part = "config" => Config!ReadsSettings
    /\ part = "text" => Text!RoundTrip /\ Strings!HexRoundTrip(text)
    /\ part = "words" => \A from \in Looked, to \in Replacing :
           Strings!ReplacesMatches(text, from, to)
=============================================================================
