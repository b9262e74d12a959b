------------------------------- MODULE MCDemux -------------------------------
EXTENDS Demux, TLC

=============================================================================
