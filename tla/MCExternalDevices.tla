------------------------- MODULE MCExternalDevices -------------------------
(* Three devices, the address of one of them a part of an address of this   *)
(* host, and two addresses of this host.                                    *)
EXTENDS ExternalDevices

CONSTANTS phone, tablet, goggles, lo, eth0

MCIps == {phone, tablet, goggles, lo, eth0}
MCSelfIps == {lo, eth0}
MCContained == {lo, eth0, phone}
MCManualIps == {goggles}
=============================================================================
