--------------------------- MODULE MCReplication ---------------------------
(* A durable node S with two others that write: a may fetch, both may subscribe at S. *)
EXTENDS Replication, TLC

CONSTANTS S, a, b, ea, eb

NodesDef == {S, a, b}
DurableDef == {S}
LinksDef == {{S, a}, {S, b}}
AskingDef == [fetch |-> {a}, subscribe |-> {a, b}]
DroppedDef == {{S, a}}
AuthorDef == (ea :> a) @@ (eb :> b)
=============================================================================
