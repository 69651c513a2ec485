------------------------------- MODULE Query -------------------------------
(***************************************************************************)
(* A node is given a query as a predicate, or as a text that is to become  *)
(* one (TryInto<FetchArgs>, core/src/node.rs).                             *)
(***************************************************************************)
EXTENDS Selection, Grammar

CONSTANT Texts     \* what applications query with

VARIABLES
    text,    \* the text, or None if a predicate is given
    parsed   \* what the text was parsed to, or Failed

Parser == INSTANCE Parsing WITH predicate <- parsed

QueryInit ==
    \/ Init /\ text = None /\ parsed = None
    \/ Parser!Init /\ predicate = True_ /\ shown = None /\ fetched = None

AsPredicate == text = None /\ Next /\ UNCHANGED <<text, parsed>>
AsText == text # None /\ Parser!Next /\ UNCHANGED vars

QuerySpec == QueryInit /\ [][AsPredicate \/ AsText]_<<vars, text, parsed>>

-----------------------------------------------------------------------------
(* Properties *)

\* A text of comparisons, AND, OR and parentheses around its first or last operand parses, and
\* whatever parses without comparing predicates means what it says from left to right: no operand
\* is lost or taken twice where create_logical_op reads ahead (parser.rs:92-139).
ReadLeftToRight == Parser!ReadLeftToRight
=============================================================================
