------------------------------- MODULE MCReader -------------------------------
(* Instances of Reader for TLC. *)
EXTENDS Reader

\* The offsets that SetOffset is given.
MCAbsolute == {1}

\* The values of AutoOffsetReset.
MCFirst == FirstOffset
MCLast == LastOffset
=============================================================================
