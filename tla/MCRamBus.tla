------------------------------ MODULE MCRamBus ------------------------------
(* One address pin on a port of its own and one on the shared port.        *)
EXTENDS RamBus

MCAddrB == {}
MCAddrC == {"A8"}
MCAddrD == {"A15"}
=============================================================================
