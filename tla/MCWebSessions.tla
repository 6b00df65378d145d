---------------------------- MODULE MCWebSessions ----------------------------
(* A small instance of WebSessions for TLC: cookie requests are            *)
(* interchangeable.                                                        *)
EXTENDS WebSessions, TLC

CONSTANTS r1, r2

Symmetry == Permutations(Requests)
==============================================================================
