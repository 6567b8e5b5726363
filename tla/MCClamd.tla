------------------------------- MODULE MCClamd -------------------------------
EXTENDS Clamd
===============================================================================
