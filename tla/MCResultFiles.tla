---------------------------- MODULE MCResultFiles ----------------------------
EXTENDS ResultFiles
=============================================================================
