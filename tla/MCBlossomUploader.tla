------------------------- MODULE MCBlossomUploader -------------------------
(***************************************************************************)
(* Small instances of BlossomUploader, with one unit of time standing for  *)
(* 20 seconds: a token lives 6 units and is renewed under 3.               *)
(***************************************************************************)
EXTENDS BlossomUploader

CONSTANTS small, large

(* An owner who confirms at once, and one who takes up to 80 seconds.      *)
Quick == {0, 2}
Slow == {0, 4}

(* The clock of the first server is a minute ahead.                        *)
ClockAhead == [s \in Servers |-> IF s = 1 THEN 3 ELSE 1]
=============================================================================
