----------------------------- MODULE MCLocking -----------------------------
EXTENDS Locking

CONSTANTS c1, c2, b

=============================================================================
