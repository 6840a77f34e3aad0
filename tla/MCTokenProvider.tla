----------------------------- MODULE MCTokenProvider -----------------------------
(* Instances of TokenProvider for TLC. *)
EXTENDS TokenProvider

CONSTANTS c1, c2
================================================================================
