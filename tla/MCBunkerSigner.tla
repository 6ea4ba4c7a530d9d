--------------------------- MODULE MCBunkerSigner ---------------------------
(***************************************************************************)
(* Two callers and a signer app with one identity.                         *)
(***************************************************************************)
EXTENDS BunkerSigner

CONSTANTS c1, c2, alice
=============================================================================
