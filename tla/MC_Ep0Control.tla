--------------------------- MODULE MC_Ep0Control ---------------------------
(* Instantiates Ep0Control with ep0 and one data endpoint (ep1in), EP0    *)
(* maxpacket 2 so that a 3-byte stage takes two chunks, and a menu of     *)
(* SETUP packets from which each .cfg picks the ones the host sends.      *)
EXTENDS Ep0Control

MCEps == {"ep0", "ep1in"}

Req(t, r, rc, e, d, n, v) ==
    [type |-> t, req |-> r, recip |-> rc, ep |-> e, dirIn |-> d,
     wLength |-> n, wValue |-> v]

\* Standard requests the controller decodes itself.
GetStatusDevice == Req("standard", "get_status", "device", "ep0", TRUE, 2, 0)
GetStatusEp0    == Req("standard", "get_status", "endpoint", "ep0", TRUE, 2, 0)
GetStatusOther  == Req("standard", "get_status", "other", "ep0", TRUE, 2, 0)
SetHaltEp1      == Req("standard", "set_feature", "endpoint", "ep1in", FALSE, 0, 0)
SetHaltEp0      == Req("standard", "set_feature", "endpoint", "ep0", FALSE, 0, 0)
ClearDevice     == Req("standard", "clear_feature", "device", "ep0", FALSE, 0, 1)
ClearHaltEp1    == Req("standard", "clear_feature", "endpoint", "ep1in", FALSE, 0, 0)
SetAddress1     == Req("standard", "set_address", "device", "ep0", FALSE, 0, 1)
\* Requests forwarded to the gadget.
SetConfig       == Req("standard", "set_configuration", "device", "ep0", FALSE, 0, 1)
ClassIn         == Req("class", "other", "interface", "ep0", TRUE, 3, 0)
ClassOut        == Req("class", "other", "interface", "ep0", FALSE, 3, 0)

MCSetupsAll == {GetStatusDevice, GetStatusOther, SetHaltEp1, SetHaltEp0,
                ClearDevice, SetAddress1, SetConfig, ClassIn, ClassOut}
MCSetupsClearHalt == {SetHaltEp1, ClearHaltEp1}
MCSetupsStatusEp0 == {GetStatusEp0, GetStatusDevice}
=============================================================================
