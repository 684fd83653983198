---------------------------- MODULE MCPublishLog ----------------------------
EXTENDS PublishLog, TLC

CONSTANTS p1, p2, p3, p4

MCSize == (p1 :> 2) @@ (p2 :> 1) @@ (p3 :> 1) @@ (p4 :> 2)

=============================================================================
