-------------------------- MODULE MCAsyncRowWriter --------------------------
(* One writer that is given up to MaxBlocks blocks, in both modes. *)
EXTENDS AsyncRowWriter
=============================================================================
