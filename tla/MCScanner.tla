------------------------------ MODULE MCScanner ------------------------------
EXTENDS Scanner
=============================================================================
