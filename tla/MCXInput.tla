------------------------------ MODULE MCXInput ------------------------------
\* The instance of XInput for TLC.
EXTENDS XInput

MCButtons == {"south", "east"}
=============================================================================
