-------------------------------- MODULE Plic --------------------------------
(***************************************************************************)
(* The Realtek PLIC driver (drivers/irqchip/irq-realtek-plic.c) for one    *)
(* level-triggered source, with the PLIC itself and the parts of the       *)
(* kernel's fasteoi flow (handle_fasteoi_irq, disable_irq, enable_irq)     *)
(* that call into the driver.                                              *)
(*                                                                         *)
(* The hardware: a gateway takes the device line and makes the source      *)
(* pending; a claim by a hart context that has the source enabled, with    *)
(* priority above the threshold (0), returns it and holds the gateway;     *)
(* a complete re-arms the gateway, and is ignored when the source is not   *)
(* enabled for the context that writes it.                                 *)
(*                                                                         *)
(* plic_set_affinity is modelled with its affinity masks a constant set;   *)
(* CPU hotplug is not: every hart of the lmask stays online.               *)
(***************************************************************************)
EXTENDS Naturals

CONSTANTS Harts,        \* the harts of the PLIC's lmask, all online
          MaxDisables,  \* bound on disable_irq calls
          AffMasks      \* cpumasks irq_set_affinity may be called with

VARIABLES prio,      \* the source's priority register
          ie,        \* ie[h]: the source's enable bit in hart h's context
          gw,        \* the gateway: "idle", "pending" or "claimed"
          hpc,       \* hpc[h]: where hart h is in plic_handle_irq
          masked,    \* irqd_irq_masked
          disabled,  \* irqd_irq_disabled
          disables,  \* disable_irq calls made so far
          aff        \* the irq's affinity mask (irq_data_get_affinity_mask)

pvars == <<prio, ie, gw, hpc, masked, disabled, disables, aff>>

\* cpumask_any_and is cpumask_first_and: the lowest hart of a mask.
FirstOf(m) == CHOOSE h \in m : \A g \in m : h <= g

\* plic_irq_unmask's target: the first hart of the affinity mask that is
\* in the lmask (and online).
First == FirstOf(aff \cap Harts)

\* plic_irq_toggle: the priority write, then plic_toggle's locked
\* read-modify-write of the enable bit on every hart of cpus.
IrqToggle(cpus, en) ==
    /\ prio' = IF en THEN 1 ELSE 0
    /\ ie' = [h \in Harts |-> IF h \in cpus THEN en ELSE ie[h]]

IrqUnmask == IrqToggle({First}, TRUE)

IrqMask == IrqToggle(Harts, FALSE)

\* The source can interrupt hart h, and a claim by h returns it.
Claimable(h) == gw = "pending" /\ ie[h] /\ prio > 0

\* A write of the source to hart h's complete register, with the enable
\* bits en: the gateway re-arms only if the source is enabled for h.
Complete(h, en) == gw' = IF en[h] THEN "idle" ELSE gw

\* plic_irqdomain_map's irq_set_affinity(lmask) and request_irq's unmask:
\* the source enabled, with priority 1, on the first hart only.
Init ==
    /\ prio = 1
    /\ ie = [h \in Harts |-> h = FirstOf(Harts)]
    /\ gw = "idle"
    /\ hpc = [h \in Harts |-> "idle"]
    /\ masked = FALSE /\ disabled = FALSE /\ disables = 0
    /\ aff = Harts

\* The gateway samples the device line.
Gateway(line) ==
    /\ gw = "idle" /\ line
    /\ gw' = "pending"
    /\ UNCHANGED <<prio, ie, hpc, masked, disabled, disables, aff>>

\* The hart takes the external interrupt: plic_handle_irq is entered.
Trap(h) ==
    /\ hpc[h] = "idle" /\ Claimable(h)
    /\ hpc' = [hpc EXCEPT ![h] = "claim"]
    /\ UNCHANGED <<prio, ie, gw, masked, disabled, disables, aff>>

\* readl(claim) returns 0: the loop of plic_handle_irq ends.
ClaimNone(h) ==
    /\ hpc[h] = "claim" /\ ~Claimable(h)
    /\ hpc' = [hpc EXCEPT ![h] = "idle"]
    /\ UNCHANGED <<prio, ie, gw, masked, disabled, disables, aff>>

\* readl(claim) returns the source: generic_handle_irq is called.
ClaimIrq(h) ==
    /\ hpc[h] = "claim" /\ Claimable(h)
    /\ gw' = "claimed"
    /\ hpc' = [hpc EXCEPT ![h] = "flow"]
    /\ UNCHANGED <<prio, ie, masked, disabled, disables, aff>>

\* The complete written without unmasking first.
EoiNoUnmask(h, m, en) ==
    /\ Complete(h, en)
    /\ IF m THEN IrqMask ELSE UNCHANGED <<prio, ie>>

\* plic_irq_eoi on hart h, with m = irqd_irq_masked and en the enable bits
\* when it runs: a masked source is unmasked around the complete.
IrqEoi(h, m, en) ==
    IF m THEN /\ Complete(h, [g \in Harts |-> g = First \/ en[g]])
              /\ IrqMask
         ELSE /\ Complete(h, en)
              /\ UNCHANGED <<prio, ie>>

\* handle_fasteoi_irq with the irq disabled (lazily, by disable_irq):
\* IRQS_PENDING, mask_irq, then the eoi.
FlowDisabled(h) ==
    /\ hpc[h] = "flow" /\ disabled
    /\ masked' = TRUE
    /\ IrqEoi(h, TRUE, [g \in Harts |-> FALSE])
    /\ hpc' = [hpc EXCEPT ![h] = "claim"]
    /\ UNCHANGED <<disabled, disables, aff>>

\* handle_fasteoi_irq runs the handler.
FlowRun(h) ==
    /\ hpc[h] = "flow" /\ ~disabled
    /\ hpc' = [hpc EXCEPT ![h] = "isr"]
    /\ UNCHANGED <<prio, ie, gw, masked, disabled, disables, aff>>

\* The handler has returned: cond_unmask_eoi_irq calls plic_irq_eoi, and
\* plic_handle_irq claims again.
Eoi(h) ==
    /\ hpc[h] = "isr"
    /\ IrqEoi(h, masked, ie)
    /\ hpc' = [hpc EXCEPT ![h] = "claim"]
    /\ UNCHANGED <<masked, disabled, disables, aff>>

\* disable_irq: plic_chip has no irq_disable, so the irq is only marked
\* disabled; the chip is masked when the source next arrives.
DisableIrq ==
    /\ ~disabled /\ disables < MaxDisables
    /\ disabled' = TRUE /\ disables' = disables + 1
    /\ UNCHANGED <<prio, ie, gw, hpc, masked, aff>>

\* enable_irq: unmask_irq, which calls plic_irq_unmask if the irq is masked.
EnableIrq ==
    /\ disabled
    /\ disabled' = FALSE /\ masked' = FALSE
    /\ IF masked THEN IrqUnmask ELSE UNCHANGED <<prio, ie>>
    /\ UNCHANGED <<gw, hpc, disables, aff>>

\* plic_set_affinity, called by irq_set_affinity under the descriptor lock
\* (never inside the flow's locked sections): the source disabled on every
\* hart of the lmask, then enabled on the first hart of lmask & mask unless
\* the irq is masked; an empty intersection returns -EINVAL. On success
\* the core records mask as the affinity.
SetAffinity(mask) ==
    /\ mask \cap Harts # {}
    /\ LET cpu == FirstOf(mask \cap Harts) IN
          /\ prio' = IF masked THEN 0 ELSE 1
          /\ ie' = [h \in Harts |-> h = cpu /\ ~masked]
    /\ aff' = mask
    /\ UNCHANGED <<gw, hpc, masked, disabled, disables>>

PlicTypeOK ==
    /\ prio \in {0, 1}
    /\ ie \in [Harts -> BOOLEAN]
    /\ gw \in {"idle", "pending", "claimed"}
    /\ hpc \in [Harts -> {"idle", "claim", "flow", "isr"}]
    /\ masked \in BOOLEAN /\ disabled \in BOOLEAN
    /\ disables \in 0..MaxDisables
    /\ aff \in AffMasks \cup {Harts}
=============================================================================
