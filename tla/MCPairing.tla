------------------------------ MODULE MCPairing ------------------------------
(***************************************************************************)
(* Small instances of Pairing.                                             *)
(***************************************************************************)
EXTENDS Pairing, TLC

CONSTANTS p1, p2, phone, alice, bob, nos, extra

NoneOrExtra == {{}, {extra}}
AllAlice == [s \in Signers |-> alice]
=============================================================================
