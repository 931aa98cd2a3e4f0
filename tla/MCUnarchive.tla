---------------------------- MODULE MCUnarchive ----------------------------
(* Small records for TLC.                                                    *)
EXTENDS Unarchive

MCExtra == {0, 1, 3}
=============================================================================
