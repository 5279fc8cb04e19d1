--------------------------- MODULE MCOutputBuffer ---------------------------
(* Small instances of OutputBuffer.                                        *)
EXTENDS OutputBuffer, TLC

CONSTANTS b1, b2

OneDrop == (b1 :> "drop")
OneBlock == (b1 :> "block")
Mixed == (b1 :> "block") @@ (b2 :> "drop")
=============================================================================
