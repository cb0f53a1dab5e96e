------------------------------ MODULE MCAuditLog ------------------------------
(* A small instance of the audit log for TLC.                               *)
EXTENDS AuditLog, TLC

CONSTANTS p1, p2

MCActions == {"reminder.dismiss", "consent.grant", "audit.purge"}
MCAccountability == {"consent.grant", "audit.purge"}
MCSymmetry == Permutations(Writers)
=============================================================================
