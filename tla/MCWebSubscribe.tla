--------------------------- MODULE MCWebSubscribe ---------------------------
EXTENDS WebSubscribe

CONSTANTS s1, s2

MCEvent == {{s1}, Sub}

=============================================================================
