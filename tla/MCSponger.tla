----------------------------- MODULE MCSponger -----------------------------
(* Invocations of sponger for TLC.                                           *)
EXTENDS Sponger

CONSTANTS p1, p2

MCProc == {p1, p2}
=============================================================================
