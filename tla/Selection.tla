----------------------------- MODULE Selection -----------------------------
(***************************************************************************)
(* A predicate on its way: it is shown in the log with the request         *)
(* (ankql/src/selection/sql.rs), turned into a WHERE clause where Postgres *)
(* stores the entities (storage/postgres/src/predicate.rs), and evaluated  *)
(* on entities everywhere else.                                            *)
(***************************************************************************)
EXTENDS Filter, FiniteSets

CONSTANTS
    Columns,   \* the columns of the table that the entities are in
    Sorted     \* Sorted[v]: the place of a value in the collation of the database

\* There are entities, with a column for each property they have (set_state of lib.rs).
ASSUME TableAssumption ==
    Items # {} /\ \A i \in Items : \A k \in DOMAIN i : i[k] # None => k \in Columns

\* Different values have different places.
ASSUME CollationAssumption ==
    \A v \in DOMAIN Sorted :
        Sorted[v] \in Nat /\ \A w \in DOMAIN Sorted : Sorted[v] = Sorted[w] => v = w

VARIABLES
    predicate,  \* the predicate
    shown,      \* the words of generate_selection_sql
    fetched     \* the answer of the Postgres engine

vars == <<predicate, shown, fetched>>

-----------------------------------------------------------------------------
(* selection/sql.rs, and predicate.rs of the Postgres engine *)

Words == Operators \cup {"(", ")", "AND", "OR", "NOT", "IS NULL", "TRUE", "unbalanced"}

Tokens == [word : Words] \cup [word : {"operand"}, of : Operands]

Key(k) == <<[word |-> k]>>

\* the shown text quotes a literal, the WHERE clause has a parameter for it
ShownOperand(e) ==
    IF e.expr = "Literal" /\ e.val \in Quoted THEN Key("unbalanced")
    ELSE <<[word |-> "operand", of |-> e]>>
WhereOperand(e) == <<[word |-> "operand", of |-> e]>>

OrSql(l, r) == Key("(") \o l \o Key("OR") \o r \o Key(")")

\* Mutant: the blank after AND is missing
AndGlued(l, r) == l \o Key("ANDb") \o r

AndSql(l, r) == l \o Key("AND") \o r

\* Mutant: NOT without parentheses
NotShownBare(p) == Key("NOT") \o p

NotShown(p) == Key("NOT") \o Key("(") \o p \o Key(")")
\* the closing parenthesis of NOT is written "NOT )"
NotWhere(p) == Key("NOT") \o Key("(") \o p \o Key("NOT") \o Key(")")

Shown[p \in Predicates] ==
    IF p.node = "Comparison" THEN ShownOperand(p.left) \o Key(p.op) \o ShownOperand(p.right)
    ELSE IF p.node = "IsNull" THEN ShownOperand(p.of) \o Key("IS NULL")
    ELSE IF p.node = "And" THEN AndSql(Shown[p.left], Shown[p.right])
    ELSE IF p.node = "Or" THEN OrSql(Shown[p.left], Shown[p.right])
    ELSE IF p.node = "Not" THEN NotShown(Shown[p.pred])
    ELSE <<>>

\* Mutant: True is no text, as it is where it is shown
NoTrue == <<>>

TrueSql == Key("TRUE")

Where[p \in Predicates] ==
    IF p.node = "Comparison" THEN WhereOperand(p.left) \o Key(p.op) \o WhereOperand(p.right)
    ELSE IF p.node = "IsNull" THEN WhereOperand(p.of) \o Key("IS NULL")
    ELSE IF p.node = "And" THEN AndSql(Where[p.left], Where[p.right])
    ELSE IF p.node = "Or" THEN OrSql(Where[p.left], Where[p.right])
    ELSE IF p.node = "Not" THEN NotWhere(Where[p.pred])
    ELSE TrueSql

-----------------------------------------------------------------------------
(* PostgreSQL *)

\* how often a word is among the first i
Count(sql, k, i) == Cardinality({j \in 1..i : sql[j].word = k})

\* where a word is in no parentheses
Outside(sql, k) ==
    {i \in 1..Len(sql) : sql[i].word = k /\ Count(sql, "(", i) = Count(sql, ")", i)}

Last(S) == CHOOSE i \in S : \A j \in S : j <= i

Before(sql, i) == SubSeq(sql, 1, i - 1)
After(sql, i) == SubSeq(sql, i + 1, Len(sql))

\* NULL is neither true nor false, and what is invalid spoils the whole.
Junction(one, other, l, r) ==
    IF "invalid" \in {l, r} THEN "invalid" ELSE IF one \in {l, r} THEN one
    ELSE IF "null" \in {l, r} THEN "null" ELSE other

Negation(v) == IF v \in {"true", "false"} THEN Truth(v = "false") ELSE v

Operand(item, token) ==
    IF token.word # "operand" THEN "invalid"
    ELSE IF Value(item, token.of) = None THEN "null" ELSE "value"

\* what is above and below goes by the collation of the columns, which is that of the database
SqlCompare(op, l, r) ==
    IF op \in {"Eq", "NotEq"} THEN Compare(op, l, r) ELSE Compare(op, Sorted[l], Sorted[r])

\* a text of neither AND, OR, NOT nor parentheses
Simple(item, sql) ==
    IF Len(sql) = 1 THEN IF sql[1].word = "TRUE" THEN "true" ELSE "invalid"
    ELSE IF Len(sql) = 2 /\ sql[2].word = "IS NULL" THEN
         IF Operand(item, sql[1]) = "invalid" THEN "invalid"
         ELSE Truth(Operand(item, sql[1]) = "null")
    ELSE IF Len(sql) = 3 /\ sql[2].word \in Operators THEN
         IF "invalid" \in {Operand(item, sql[1]), Operand(item, sql[3])} THEN "invalid"
         ELSE IF "null" \in {Operand(item, sql[1]), Operand(item, sql[3])} THEN "null"
         ELSE Truth(SqlCompare(sql[2].word, Value(item, sql[1].of), Value(item, sql[3].of)))
    ELSE "invalid"

\* AND binds tighter than OR and NOT tighter than both.
Sees[sql \in Seq(Tokens)] ==
    [item \in Items |->
        IF Outside(sql, "OR") # {} THEN
             Junction("true", "false", Sees[Before(sql, Last(Outside(sql, "OR")))][item],
                                       Sees[After(sql, Last(Outside(sql, "OR")))][item])
        ELSE IF Outside(sql, "AND") # {} THEN
             Junction("false", "true", Sees[Before(sql, Last(Outside(sql, "AND")))][item],
                                       Sees[After(sql, Last(Outside(sql, "AND")))][item])
        ELSE IF Len(sql) > 2 /\ sql[1].word = "NOT" THEN Negation(Sees[After(sql, 1)][item])
        ELSE IF Len(sql) > 2 /\ sql[1].word = "(" /\ sql[Len(sql)].word = ")" THEN
             Sees[SubSeq(sql, 2, Len(sql) - 1)][item]
        ELSE Simple(item, sql)]

-----------------------------------------------------------------------------
(* The steps *)

IsArg(token) == token.word = "operand" /\ token.of.expr = "Literal"

\* Mutant: one parameter is none
HasArgsSeveral(sql) == Cardinality({i \in 1..Len(sql) : IsArg(sql[i])}) > 1

\* fetch_states adds no WHERE clause to a query without parameters
HasArgs(sql) == \E i \in 1..Len(sql) : IsArg(sql[i])

\* where the WHERE clause names another table, or a column that does not exist
Unknown(token) ==
    /\ token.word = "operand" /\ token.of.expr = "Identifier"
    /\ Foreign(token.of) \/ token.of.name \notin Columns
Unknowns(sql) == {i \in 1..Len(sql) : Unknown(sql[i])}
First(S) == CHOOSE i \in S : \A j \in S : i <= j

\* a parameter that nothing gives a type to
Untyped(sql) == \E i \in 1..(Len(sql) - 1) : IsArg(sql[i]) /\ sql[i + 1].word = "IS NULL"

\* PostgreSQL reads the query, looks up the names in it, and then the types of the parameters.
\* Where a column does not exist error_kind looks for quotes the message does not have, and panics.
Rows(sql) ==
    LET failed(kind) == [kind |-> kind, rows |-> {}] IN
    IF ~HasArgs(sql) THEN [kind |-> "ok", rows |-> Items]
    ELSE IF \E i \in Items : Sees[sql][i] = "invalid" THEN failed("error")
    ELSE IF Unknowns(sql) # {} THEN
         failed(IF Foreign(sql[First(Unknowns(sql))].of) THEN "error" ELSE "panic")
    ELSE IF Untyped(sql) THEN failed("error")
    ELSE [kind |-> "ok", rows |-> {i \in Items : Sees[sql][i] = "true"}]

Init == predicate \in Predicates /\ shown = None /\ fetched = None

\* Display of the request that carries the predicate to a peer
Show ==
    /\ shown = None
    /\ shown' = Shown[predicate]
    /\ UNCHANGED <<predicate, fetched>>

\* fetch_states where the entities are in Postgres
FetchStates ==
    /\ shown # None /\ fetched = None
    /\ fetched' = Rows(Where[predicate])
    /\ UNCHANGED <<predicate, shown>>

Next == Show \/ FetchStates
Spec == Init /\ [][Next]_vars

-----------------------------------------------------------------------------
(* Properties *)

\* Every variable has its type: what is shown are words of SQL and operands, and what is fetched
\* are entities.
TypeOK ==
    /\ predicate \in Predicates
    /\ shown # None => shown \in Seq(Tokens)
    /\ fetched # None => fetched \in [kind : {"ok", "error", "panic"}, rows : SUBSET Items]

\* shown as text that can be read: no True, which is shown as nothing, and no quoted literal
Readable(p) ==
    \A q \in Parts[p] :
        /\ q # True_
        /\ \A e \in OperandsOf(q) : ~Foreign(e) /\ (e.expr = "Literal" => e.val \notin Quoted)

HasLiteral(p) == \E q \in Parts[p] : \E e \in OperandsOf(q) : e.expr = "Literal"

\* The database's collation decides the comparisons of p on the entities as filter.rs does, which
\* compares bytes: whatever the collation, if only = and <> are used.
SameOrder(p) ==
    \A q \in Parts[p] : q.node = "Comparison" =>
        \A i \in Items :
            LET l == Value(i, q.left)  r == Value(i, q.right) IN
            None \in {l, r} \/ (SqlCompare(q.op, l, r) <=> Compare(q.op, l, r))

\* no NOT and no other collection, properties that entities have had, and IS NULL of those only
Accepted(p) ==
    /\ Askable(p)
    /\ \A q \in Parts[p] :
          /\ q.node = "IsNull" => q.of.expr = "Identifier"
          /\ \A e \in OperandsOf(q) : e.expr = "Identifier" => e.name \in Columns

\* What evaluate_predicate passes is among what Postgres finds by the WHERE clause made of the same
\* predicate, also where entities lack properties: a node that filters what it fetched loses nothing
\* (predicate.rs:64-97).  Not so if the query fails, with an error or a panic (lib.rs:96-108), or
\* orders texts by a locale.
PassedIsFetched ==
    /\ fetched # None
    /\ HasLiteral(predicate) => Accepted(predicate) /\ SameOrder(predicate)
    =>
        /\ fetched.kind = "ok"
        /\ \A i \in Items : Evaluate[predicate][i] = "true" => i \in fetched.rows

\* What Postgres finds, evaluate_predicate passes, or fails on for a property that is missing;
\* unless the predicate has no literal, then everything is found (lib.rs:77-81), or texts are
\* ordered by a locale.
FetchedIsPassed ==
    /\ fetched # None /\ fetched.kind = "ok"
    /\ HasLiteral(predicate) /\ SameOrder(predicate)
    =>
        \A i \in fetched.rows :
            Evaluate[predicate][i]
                \in (IF i \in Complete(predicate) THEN {"true"} ELSE {"true", "error"})

\* The text a predicate is shown as is SQL that says the same: the parentheses of OR and NOT are
\* enough for every nesting (selection/sql.rs:33-48), if it is read with an order of texts that
\* decides its comparisons as filter.rs does.
ShownMeans ==
    shown # None /\ Readable(predicate) /\ SameOrder(predicate) =>
        \A i \in Complete(predicate) : Sees[shown][i] = Evaluate[predicate][i]
=============================================================================
