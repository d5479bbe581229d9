------------------------- MODULE MCCodeInterpreter -------------------------
EXTENDS CodeInterpreter
=============================================================================
