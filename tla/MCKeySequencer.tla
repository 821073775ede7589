--------------------------- MODULE MCKeySequencer ---------------------------
EXTENDS KeySequencer

MCWheelValues == {-2, 1}
MCPresses == {SeqP5, SeqX}
=============================================================================
