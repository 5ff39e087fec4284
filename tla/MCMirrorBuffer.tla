--------------------------- MODULE MCMirrorBuffer ---------------------------
(* Payloads around one and two blocks.                                     *)
EXTENDS MirrorBuffer
UpToTwoBlocks == 0 .. 2 * AES_128_BLOCK_SIZE + 1
=============================================================================
