--------------------------- MODULE MCSharedRecord ---------------------------
EXTENDS SharedRecord
=============================================================================
