---------------------------- MODULE MCModeration ----------------------------
(* One report about one target, for TLC. *)
EXTENDS Moderation

CONSTANTS t1, u1

MCTargetOf == [r \in Reports |-> t1]
MCOwnerOf == [t \in Targets |-> u1]
============================================================================
