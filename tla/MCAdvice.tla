------------------------------ MODULE MCAdvice -------------------------------
EXTENDS StopCheck
=============================================================================
