-------------------------- MODULE MCScheduledPurge --------------------------
(* Instances of ScheduledPurge for TLC.                                    *)
EXTENDS ScheduledPurge
=============================================================================
