------------------------------ MODULE MCClosure ------------------------------
(***************************************************************************)
(* Every store of up to three paths, whatever refers to what, and every    *)
(* list of one or two inputs (the same one twice, one that is not there).  *)
(***************************************************************************)
EXTENDS Closure

AllGraphs == UNION {[S -> SUBSET S] : S \in SUBSET Hashes}
ShortLists == [1..1 -> Hashes] \cup [1..2 -> Hashes]
=============================================================================
