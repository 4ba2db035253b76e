---------------------------- MODULE StringExpCalc ----------------------------
(***************************************************************************)
(* The calculator of Common/StringExpCalc.cpp: OnParse2Polish turns an     *)
(* expression into postfix form with two stacks, OnCalcExp evaluates that. *)
(* An expression is a sequence of tokens, spaces gone; digits make one     *)
(* token.  Instead of a double the value of an expression is the           *)
(* application that would be computed, so that a wrong order, a wrong      *)
(* operand or a lost one shows.  A stack has its top at the end.           *)
(***************************************************************************)
EXTENDS Integers, SequencesExt, FiniteSetsExt

CONSTANTS
    Digits,     \* the numbers, written without a sign
    Operators,  \* of g_mapDoubleParam, those written between their operands
    Singles,    \* of g_mapSingleParam
    Doubles,    \* of g_mapDoubleParam, those written as functions
    Operands,   \* bound: what an expression is extended by
    MaxHeight   \* bound: applications inside one another that are still extended

Functions == Singles \cup Doubles

(* OnInitOperPriorityMap                                                   *)
g_mapOperInfo(oper) ==
    CASE oper \in {"(", ")"} -> 20
      [] oper \in Functions -> 18
      [] oper \in {"*", "/", "%"} -> 16
      [] oper \in {"+", "-"} -> 15
      [] oper = "&" -> 10
      [] oper = "^" -> 9
      [] oper = "|" -> 8
      [] oper = "," -> 0

-----------------------------------------------------------------------------
(* Two stacks.                                                             *)
Put(stack, s) == [stack EXCEPT !.oper = Append(@, s)]
PutData(stack, s) == [stack EXCEPT !.data = Append(@, s)]

(* The operators above place k go to the data, from the top down; of those *)
(* below, the topmost `dropped` go away.                                   *)
MoveAbove(stack, k, dropped) ==
    [data |-> stack.data \o Reverse(SubSeq(stack.oper, k + 1, Len(stack.oper))),
     oper |-> SubSeq(stack.oper, 1, k - dropped)]

Topmost(stack, Stays(_)) ==
    Max({0} \cup {k \in DOMAIN stack.oper : Stays(stack.oper[k])})

(* A closing parenthesis: down to the opening one, which goes away.        *)
OnExchargeStack(stack) ==
    LET Opens(oper) == oper = "("
        k == Topmost(stack, Opens)
    IN  MoveAbove(stack, k, IF k = 0 THEN 0 ELSE 1)

(* Another operator: what binds as tightly goes first.                     *)
WeakerOrSame(oper, s) == g_mapOperInfo(oper) <= g_mapOperInfo(s)   \* mutant: right to left
Weaker(oper, s) == g_mapOperInfo(oper) < g_mapOperInfo(s)

OnExchargeCmp(stack, s) ==
    LET Stays(oper) == oper = "(" \/ Weaker(oper, s)
    IN  Put(MoveAbove(stack, Topmost(stack, Stays), 0), s)

(* A minus at the start or after a parenthesis is the sign of a number.    *)
isNega(exp, i) ==
    exp[i] = "-" /\ Len(exp) > 1 /\ (i = 1 \/ exp[i - 1] = "(")

Signed(exp, i) ==
    IF i < Len(exp) /\ exp[i + 1] \in Digits THEN "-" \o exp[i + 1] ELSE "-"

Operate(stack, s) ==
    LET top == Last(stack.oper) IN
    IF stack.oper = <<>> \/ (top = "(" /\ s \notin {")", ","}) THEN Put(stack, s)
    ELSE IF s = ")" THEN OnExchargeStack(stack)
    ELSE IF g_mapOperInfo(s) > g_mapOperInfo(top) THEN Put(stack, s)
    ELSE OnExchargeCmp(stack, s)

(* One token; a digit was taken with its sign already.                     *)
OnParse2Polish(exp) ==
    LET Token(stack, i) ==
            IF isNega(exp, i) THEN PutData(stack, Signed(exp, i))
            ELSE IF exp[i] \in Digits
            THEN IF i > 1 /\ isNega(exp, i - 1) THEN stack ELSE PutData(stack, exp[i])
            ELSE Operate(stack, exp[i])
    IN  MoveAbove(FoldLeftDomain(Token, [data |-> <<>>, oper |-> <<>>], exp), 0, 0).data

-----------------------------------------------------------------------------
Numbers == Digits \cup {"-" \o d : d \in Digits}

Apply(op, args) == [op |-> op, args |-> args]
Number(n) == Apply(n, <<>>)
Zero == Number("0")   \* what the calculator returns when it fails

(* An operator takes its operands from the stack of values; one that is not*)
(* in the tables, a comma, leaves its operand alone.                       *)
OnCalcExp(tokens) ==
    LET Token(nums, s) ==
            IF nums = <<Zero>> THEN nums
            ELSE IF s \in Numbers THEN Append(nums, Number(s))
            ELSE IF nums = <<>> THEN <<Zero>>
            ELSE IF s \in Operators \cup Doubles
            THEN IF Len(nums) < 2 THEN <<Zero>>
                 ELSE Append(Front(Front(nums)), Apply(s, <<Last(Front(nums)), Last(nums)>>))
            ELSE IF s \in Singles THEN Append(Front(nums), Apply(s, <<Last(nums)>>))
            ELSE nums
    IN  IF tokens = <<>> THEN Zero ELSE Last(FoldLeft(Token, <<>>, tokens))

CalcExpValue(exp) == OnCalcExp(OnParse2Polish(exp))

-----------------------------------------------------------------------------
(* Expressions, larger and larger.                                         *)
VARIABLE expression   \* as the applications it is made of

Init == expression \in {Number(n) : n \in Numbers}

RECURSIVE Height(_)
Height(t) ==
    IF t.args = <<>> THEN 0 ELSE 1 + Max({Height(t.args[i]) : i \in DOMAIN t.args})

Grow ==
    \/ \E op \in Singles : expression' = Apply(op, <<expression>>)
    \/ \E op \in Operators \cup Doubles, other \in Operands :
          expression' \in {Apply(op, <<expression, other>>), Apply(op, <<other, expression>>)}

Next == Height(expression) < MaxHeight /\ Grow

(* How an application is written, with the parentheses that the usual rules*)
(* of precedence ask for: operators of one level group to the left, and a  *)
(* signed number stands at the start or after a parenthesis.               *)
Binds(t) == IF t.op \in Operators THEN g_mapOperInfo(t.op) ELSE 100

RECURSIVE Write(_, _)
Write(t, first) ==
    LET Inner(u, wrap) == IF wrap THEN <<"(">> \o Write(u, TRUE) \o <<")">>
                          ELSE Write(u, FALSE)
        Left == IF Binds(t.args[1]) < Binds(t) THEN Inner(t.args[1], TRUE)
                ELSE Write(t.args[1], first)
        Right == Inner(t.args[2], Binds(t.args[2]) <= Binds(t))
    IN  CASE t.op \in Digits -> <<t.op>>
          [] t.op \in Numbers \ Digits ->
                LET d == CHOOSE d \in Digits : t.op = "-" \o d
                IN  IF first THEN <<"-", d>> ELSE <<"(", "-", d, ")">>
          [] t.op \in Operators -> Left \o <<t.op>> \o Right
          [] t.op \in Singles -> <<t.op, "(">> \o Write(t.args[1], TRUE) \o <<")">>
          [] t.op \in Doubles ->
                <<t.op, "(">> \o Write(t.args[1], TRUE) \o <<",">>
                    \o Write(t.args[2], FALSE) \o <<")">>

(* The calculator computes what is written: every operator and function    *)
(* gets its own operands, in their order.  (A minus before a parenthesis or*)
(* a name, or after another operator, is more than it reads.)              *)
ComputesWhatIsWritten == CalcExpValue(Write(expression, TRUE)) = expression
=============================================================================
