------------------------------ MODULE Parsing ------------------------------
(***************************************************************************)
(* A query as text (ankql/src/parser.rs), and the predicate it becomes.    *)
(*                                                                         *)
(* A text is the sequence of the pairs the grammar finds in it, in which   *)
(* an expression in parentheses is one pair.                               *)
(***************************************************************************)
EXTENDS Ast, Grammar, Naturals, Sequences, FiniteSetsExt

CONSTANTS
    Texts,        \* what applications query with
    Items,        \* entities: functions from property names to values and None
    Collection,   \* the name of their collection
    None          \* no value, no collection, nothing yet

VARIABLES
    text,       \* the text
    predicate   \* what it was parsed to, or Failed

vars == <<text, predicate>>

-----------------------------------------------------------------------------
(* ankql.pest: from a text to its pairs *)

\* A word that begins with true, false or null is read as the literal and the text is no
\* selection; one that begins with not is read as NOT and the rest of the word.
RECURSIVE Grammatical(_)
Grammatical(pairs) ==
    \A i \in 1..Len(pairs) :
        CASE pairs[i].rule = "Identifier"  -> pairs[i].begins # "literal"
          [] pairs[i].rule = "Parentheses" -> Grammatical(pairs[i].inner)
          [] OTHER -> TRUE

RECURSIVE Pairs(_)
Pairs(words) ==
    IF words = <<>> THEN <<>>
    ELSE LET w == Head(words) IN
         (CASE w.rule = "Identifier" /\ w.begins = "not" ->
                  <<Pair("UnaryNot"), [w EXCEPT !.begins = "rest"]>>
            [] w.rule = "Parentheses" -> <<Parentheses(Pairs(w.inner))>>
            [] OTHER -> <<w>>) \o Pairs(Tail(words))

-----------------------------------------------------------------------------
(* parser.rs *)

\* an expression may be a predicate, and either may fail
Expr(p) == [expr |-> "Predicate", pred |-> p]
Failed == [node |-> "Error"]
FailedExpr == [expr |-> "Error"]

\* Predicate::try_from(Expr)
AsPredicate(e) == IF e.expr = "Predicate" THEN e.pred ELSE Failed

CreateComparison(left, op, right) ==
    IF "Error" \in {left.expr, right.expr} THEN FailedExpr ELSE Expr(Comparison(left, op, right))

Connect(op, left, right) ==
    IF "Error" \in {left.node, right.node} THEN FailedExpr
    ELSE Expr(IF op = "And" THEN And(left, right) ELSE Or(left, right))

\* Mutant: what follows a right side that is no comparison is left unread
OperandLast(right, rest, next) ==
    AsPredicate(IF rest # <<>> /\ rest[1].rule \in Operators
                THEN CreateComparison(right, rest[1].rule, next) ELSE right)

\* create_logical_op's right side: a comparison if more follows, a predicate if it is last
Operand(right, rest, next) ==
    IF rest = <<>> THEN AsPredicate(right)
    ELSE IF rest[1].rule \in Operators THEN AsPredicate(CreateComparison(right, rest[1].rule, next))
    ELSE Failed

From(pairs, n) == SubSeq(pairs, n, Len(pairs))

RECURSIVE ParseExpr(_)
ParseExpr(pairs) ==
    LET Atomic(pair) ==
            CASE pair.rule = "Identifier"  -> Identifier(pair.coll, pair.name)
              [] pair.rule = "String"      -> Literal(pair.val)
              [] pair.rule = "Parentheses" ->
                    LET p == ParseExpr(pair.inner) IN IF p = Failed THEN FailedExpr ELSE Expr(p)
              [] OTHER -> FailedExpr
        Right(pairs2) ==
            Operand(Atomic(pairs2[1]), From(pairs2, 2),
                    IF Len(pairs2) > 2 THEN Atomic(pairs2[3]) ELSE FailedExpr)
        RECURSIVE Rest(_, _)
        Rest(result, ops) ==
            CASE result.expr = "Error" -> result
              [] result.expr # "Error" /\ ops = <<>> -> result
              [] result.expr # "Error" /\ Len(ops) = 1 -> FailedExpr
              [] result.expr # "Error" /\ Len(ops) > 1 /\ ops[1].rule \in Operators ->
                    Rest(CreateComparison(result, ops[1].rule, Atomic(ops[2])), From(ops, 3))
              [] result.expr # "Error" /\ Len(ops) > 1 /\ ops[1].rule \in {"And", "Or"} ->
                    Rest(Connect(ops[1].rule, AsPredicate(result), Right(From(ops, 2))),
                         From(ops, 5))
              [] OTHER -> FailedExpr
    IN  AsPredicate(Rest(Atomic(pairs[1]), From(pairs, 2)))

ParseSelection(words) == IF Grammatical(words) THEN ParseExpr(Pairs(words)) ELSE Failed

-----------------------------------------------------------------------------
(* The step *)

Init == text \in Texts /\ predicate = None

Parse ==
    /\ predicate = None
    /\ predicate' = ParseSelection(text)
    /\ UNCHANGED text

Next == Parse
Spec == Init /\ [][Next]_vars

-----------------------------------------------------------------------------
(* Properties *)

\* comparisons of plain words, AND and OR, and parentheses around the first or the last operand
RECURSIVE Supported(_)
Supported(words) ==
    LET ops == {i \in 1..Len(words) : words[i].rule \in {"And", "Or"}}
        cuts == ops \cup {0, Len(words) + 1}
        plain(w) == w.rule = "String" \/ (w.rule = "Identifier" /\ w.begins = "plain")
    IN  \A i \in cuts \ {Len(words) + 1} :
            LET j == CHOOSE k \in cuts : k > i /\ \A m \in cuts : m > i => k <= m
            IN  \/ /\ j = i + 4 /\ words[i + 2].rule \in Operators
                   /\ plain(words[i + 1]) /\ plain(words[i + 3])
                \/ /\ j = i + 2 /\ (i = 0 \/ j = Len(words) + 1)
                   /\ words[i + 1].rule = "Parentheses" /\ Supported(words[i + 1].inner)

\* every operand of a comparison is an identifier or a literal: sql.rs, predicate.rs and
\* filter.rs are unimplemented for the others, which the parser makes of  a = 'x' = 'y'
RECURSIVE Plain(_)
Plain(p) ==
    CASE p.node = "Comparison" -> p.left.expr # "Predicate" /\ p.right.expr # "Predicate"
      [] p.node \in {"And", "Or"} -> Plain(p.left) /\ Plain(p.right)
      [] p.node = "Not" -> Plain(p.pred)
      [] p.node = "IsNull" -> p.of.expr # "Predicate"
      [] OTHER -> TRUE

\* The predicate and the predicates in it.
RECURSIVE PartsOf(_)
PartsOf(p) ==
    {p} \cup (CASE p.node \in {"And", "Or"} -> PartsOf(p.left) \cup PartsOf(p.right)
               [] p.node = "Not" -> PartsOf(p.pred)
               [] OTHER -> {})

\* What filter.rs makes of it.
Filtered == INSTANCE Filter WITH
    Predicates <- PartsOf(predicate), Operands <- {}, Quoted <- {},
    Depth <- [p \in PartsOf(predicate) |-> Cardinality(PartsOf(p))]

\* The properties a text names.
RECURSIVE Names(_)
Names(words) ==
    UNION {CASE words[i].rule = "Identifier"  -> {words[i].name}
             [] words[i].rule = "Parentheses" -> Names(words[i].inner)
             [] OTHER -> {} : i \in 1..Len(words)}

\* What a text says when AND and OR are taken from left to right and parentheses first, read from
\* the last operator on: TRUE, FALSE, or by an item that lacks nothing.
RECURSIVE Says(_, _)
Says(item, words) ==
    LET ops == {i \in 1..Len(words) : words[i].rule \in {"And", "Or"}}
        i == Max(ops)
        val(w) == IF w.rule = "String" THEN w.val ELSE item[w.name]
    IN  IF ops = {} THEN IF Len(words) = 1 THEN Says(item, words[1].inner)
                         ELSE Filtered!Compare(words[2].rule, val(words[1]), val(words[3]))
        ELSE LET l == Says(item, SubSeq(words, 1, i - 1))
                 r == Says(item, From(words, i + 1))
             IN IF words[i].rule = "And" THEN l /\ r ELSE l \/ r

\* A text of comparisons, AND, OR and parentheses around its first or last operand parses, and
\* whatever parses without comparing predicates means what it says from left to right: no operand
\* is lost or taken twice where create_logical_op reads ahead (parser.rs:92-139).
ReadLeftToRight ==
    predicate # None =>
        /\ Supported(text) => predicate # Failed
        /\ predicate # Failed /\ Plain(predicate) /\ Filtered!Askable(predicate) =>
            \A i \in {j \in Items : \A n \in Names(text) : j[n] # None} :
                Filtered!Evaluate[predicate][i] = Filtered!Truth(Says(i, text))
=============================================================================
