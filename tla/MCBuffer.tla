------------------------------- MODULE MCBuffer -------------------------------
EXTENDS Buffer
=============================================================================
