------------------------------ MODULE MCHashtree ------------------------------
(***************************************************************************)
(* A small instance of Hashtree: nodes of two links, so that five entries  *)
(* make a tree of three levels.                                            *)
(***************************************************************************)
EXTENDS Hashtree, TLC

CONSTANTS a, b, c

E(n, h) == [h |-> h, n |-> n, t |-> 0]

(* None, or a name twice; and then five, with the same first node.         *)
SmallInputs ==
  <<{<<>>, <<E(2, a), E(1, b), E(2, c)>>},
    {<<E(3, c), E(5, b), E(1, b), E(4, a), E(2, a)>>}>>

(* Nothing; an entry without a value, and a key; a hash of the wrong       *)
(* length; a value that is cut off; one that swallows the hash; one that   *)
(* looks like a hash.                                                      *)
SomeHeaders ==
  {<<>>, <<7, 0, 5, 2, 1, 1>>, <<0, 1, 1>>, <<5, 9>>, <<5, 3>>,
   <<7, 4, 0, 2, 1, 1>>}

ASSUME OneHashAssumption == OneHash(0..9)

(* The first server is down at times.                                      *)
SecondOrBoth == {{}, {2}, {1, 2}}
=============================================================================
