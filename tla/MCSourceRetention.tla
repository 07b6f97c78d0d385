------------------------- MODULE MCSourceRetention -------------------------
EXTENDS SourceRetention
=============================================================================
