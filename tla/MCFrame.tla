------------------------------- MODULE MCFrame --------------------------------
EXTENDS Frame
MCParamSizes == {4}
MCLocalSizes == {1, 24}
MCParams == {0, 5, 6, 7}
=============================================================================
