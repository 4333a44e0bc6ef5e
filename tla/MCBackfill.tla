------------------------------ MODULE MCBackfill ------------------------------
(* Instances of Backfill for TLC. *)
EXTENDS Backfill

\* One table of two rows, one of which is there from the start.
OneTable == <<"t1">>
\* Two tables of one row each, both there from the start.
TwoTables == <<"t1", "t2">>

OneRow == {<<"t1", 1>>}
EveryRow == Row
==============================================================================
