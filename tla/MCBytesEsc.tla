----------------------------- MODULE MCBytesEsc -----------------------------
(* Model-checking instance of BytesEsc: strings of up to three bytes over   *)
(* the bytes that mean something to the escapes (start and esc in both      *)
(* orders, term) and one that does not; raw inputs of up to five of the     *)
(* bytes that mean something to a reader.                                   *)
EXTENDS BytesEsc

MCText == SeqOf({248, 255, 1, 7, 100}, 2)
            \cup {<<248, 248, 248>>, <<100, 248, 1>>, <<7, 0, 248>>, <<255, 254, 1>>}

\* Nothing, the byte before which an escape is continued, another string.
MCFollower == { << >>, <<255>>, <<1>>, <<100, 248, 1>>, <<155, 7, 254>> }

MCRawInput == SeqOf({248, 255, 1, 100}, 4) \cup SeqOf({7, 0, 254, 100}, 4)

\* No two bytes of the instance that are not ASCII make a longer UTF-8 sequence.
MCIsUtf8(s) == \A i \in DOMAIN s : s[i] < 128

=============================================================================
