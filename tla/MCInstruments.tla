---------------------------- MODULE MCInstruments ----------------------------
EXTENDS Instruments

AllKinds == MessageKinds \cup BusKinds
MCMasks == {{}, {0}}
MCTimeouts == {-2, -1, 5}
MCGpibTimeouts == {18, 3}
==============================================================================
