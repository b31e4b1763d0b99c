----------------------------- MODULE MCAuditLog -----------------------------
EXTENDS AuditLog, TLC

MCSymmetry == Permutations(Writer)
=============================================================================
