------------------------------ MODULE I2cPlic ------------------------------
(***************************************************************************)
(* The I2C slave controller's interrupt wired to a PLIC source: the PLIC   *)
(* gateway samples the controller's interrupt line, a hart that claims    *)
(* the source runs i2c_dw_isr_slave through handle_fasteoi_irq, and the    *)
(* complete is written when the handler has returned. The master, the      *)
(* handler and the harts interleave freely; a disable_irq/enable_irq pair  *)
(* of some other kernel path, and an irq_set_affinity (from /proc or the   *)
(* irq balancer), may come at any point.                                   *)
(***************************************************************************)
EXTENDS Naturals, Sequences

CONSTANTS Harts, MaxDisables, AffMasks, Scripts, FifoDepth

VARIABLES prio, ie, gw, hpc, masked, disabled, disables, aff,
          rxFifo, txFifo, rdReq, stopDet, active, status, isr, stat, act,
          script, cur, phase, left, waiting, sent, got, ev

P == INSTANCE Plic
I == INSTANCE I2cSlave

plicVars == <<prio, ie, gw, hpc, masked, disabled, disables, aff>>
i2cVars == <<rxFifo, txFifo, rdReq, stopDet, active, status, isr, stat, act,
             script, cur, phase, left, waiting, sent, got, ev>>
vars == <<plicVars, i2cVars>>

Init == P!Init /\ I!Init

\* The controller's interrupt output, as the gateway sees it.
IntrLine == I!Line

\* handle_irq_event: the handler is entered on the hart that claimed.
RunHandler(h) == P!FlowRun(h) /\ I!IsrEnter

\* The handler has returned; the eoi on the same hart.
EndHandler(h) == P!Eoi(h) /\ I!IsrExit

\* The script is over and everything is quiet: the system idles.
Idle ==
    /\ cur = Len(script) /\ phase = "idle" /\ ~I!Line
    /\ isr = "off" /\ gw = "idle" /\ ~disabled
    /\ \A h \in Harts : hpc[h] = "idle"
    /\ UNCHANGED vars

Next ==
    \/ P!Gateway(IntrLine) /\ UNCHANGED i2cVars
    \/ \E h \in Harts :
          \/ (P!Trap(h) \/ P!ClaimNone(h) \/ P!ClaimIrq(h)
                \/ P!FlowDisabled(h)) /\ UNCHANGED i2cVars
          \/ RunHandler(h)
          \/ EndHandler(h)
    \/ (P!DisableIrq \/ P!EnableIrq) /\ UNCHANGED i2cVars
    \/ \E m \in AffMasks : P!SetAffinity(m) /\ UNCHANGED i2cVars
    \/ I!IsrStep /\ UNCHANGED plicVars
    \/ I!Master /\ UNCHANGED plicVars
    \/ Idle

\* The hardware and the harts make progress, the master finishes the
\* transfer it started and its script, and an irq disabled by another path
\* is enabled again. disable_irq and set_affinity are not forced.
Fairness ==
    /\ WF_vars(P!Gateway(IntrLine) /\ UNCHANGED i2cVars)
    /\ \A h \in Harts :
          /\ WF_vars((P!Trap(h) \/ P!ClaimNone(h) \/ P!ClaimIrq(h)
                        \/ P!FlowDisabled(h)) /\ UNCHANGED i2cVars)
          /\ WF_vars(RunHandler(h))
          /\ WF_vars(EndHandler(h))
    /\ WF_vars(P!EnableIrq /\ UNCHANGED i2cVars)
    /\ WF_vars(I!IsrStep /\ UNCHANGED plicVars)
    /\ WF_vars(I!Master /\ UNCHANGED plicVars)

Spec == Init /\ [][Next]_vars /\ Fairness

TypeOK == P!PlicTypeOK /\ I!I2cTypeOK

\* Every transfer the master starts is served to the end, and every byte it
\* writes reaches the backend: the slave never holds the bus forever. This
\* rests on the PLIC re-arming the gateway at every eoi, the masked eoi of
\* plic_irq_eoi included.
TransfersServed == <>[]I!AllServed

WriteBytesInOrder == I!WriteBytesInOrder
ReadBytesOwnTransfer == I!ReadBytesOwnTransfer
StopInBusOrder == I!StopInBusOrder
=============================================================================
