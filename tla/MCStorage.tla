----------------------------- MODULE MCStorage -----------------------------
(* Values for TLC *)
EXTENDS Storage, TLC

CONSTANTS p1, p2, p3, id, ha, hb

StatesDef == {[head |-> ha, docs |-> {ha}], [head |-> hb, docs |-> {hb}],
              [head |-> hb, docs |-> {ha, hb}]}
ColumnsDef == <<"name">>
TabDef == (p1 :> "one") @@ (p2 :> "one") @@ (p3 :> "two")
=============================================================================
