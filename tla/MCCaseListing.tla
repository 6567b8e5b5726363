---------------------------- MODULE MCCaseListing ----------------------------
EXTENDS CaseListing
===============================================================================
