------------------------------ MODULE MCBalancer ------------------------------
(* Instances of Balancer for TLC. *)
EXTENDS Balancer

\* A hash of small keys with every value of 0 .. Modulus - 1 for some key or
\* sequence of keys.
MCDigest(s, k) == (5 * s + 3 * k + 1) % Modulus
=============================================================================
