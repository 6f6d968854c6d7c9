-------------------------- MODULE MCDeBytesWriter --------------------------
(* Model-checking instance of DeBytesWriter: a slice of four bytes over a   *)
(* two-letter alphabet, any initial contents, chunks of zero to three bytes.*)
EXTENDS DeBytesWriter, SequencesExt

MCByte == {0, 1}
MCChunk == SeqOf(MCByte, 3)

=============================================================================
