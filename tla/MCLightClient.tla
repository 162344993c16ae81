--------------------------- MODULE MCLightClient ---------------------------
(* LightClient for TLC: epochs of two blocks, three timestamps, targets of  *)
(* six digits of two bits.                                                  *)
EXTENDS LightClient

BlockSizes == <<6, 5, 3, 2, 1>>
=============================================================================
