--------------------------- MODULE MCDataTransfer ---------------------------
EXTENDS DataTransfer
=============================================================================
