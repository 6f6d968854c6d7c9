---------------------------- MODULE MCDeChannel ----------------------------
(* Model-checking instance of DeChannel: every way to lay up to three       *)
(* chunks of up to two bytes into a slice of four, and to take it apart in  *)
(* up to three pieces.  Two byte values are enough to tell an exchange of   *)
(* two neighbouring bytes from its absence.                                 *)
EXTENDS DeChannel

MCByte == {0, 1}
MCChunk == SeqOf(MCByte, 2) \ {<< >>}

=============================================================================
