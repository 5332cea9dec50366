------------------------------- MODULE MCWriter -------------------------------
(* Instances of Writer for TLC. *)
EXTENDS Writer

\* One caller with three messages, the first of them oversized, and one with one.
MCPayloadBig == [c \in Callers |-> IF c = 1 THEN <<"big", "a", "b">> ELSE <<"c">>]
=============================================================================
