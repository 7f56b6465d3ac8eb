------------------------------ MODULE Pinctrl ------------------------------
(***************************************************************************)
(* The GPIO side of the RTS3917 pin controller (pinctrl-rts3917.c): CPUs  *)
(* driving GPIO outputs and enabling and disabling GPIO interrupts, the   *)
(* pads latching edges, and rts_irq_handler, the parent interrupt's       *)
(* handler, dispatching them to the consumers through genirq.             *)
(*                                                                         *)
(* The registers are those of the pad banks of pincfgaddr, each a set of  *)
(* bit numbers: GPIO_VALUE, GPIO_INT_EN (bit bf: falling edge, bit bf+bs: *)
(* rising edge) and GPIO_INT (the latched edges, write 1 to clear).       *)
(* rtspc->irq_lock serialises rts_gpio_irq_enable and _disable; nothing   *)
(* serialises rts_gpio_set. Of genirq, which is not in this tree, the     *)
(* module keeps what these callbacks meet: desc->lock taken by            *)
(* enable_irq, disable_irq and handle_simple_irq, the disabled state, and *)
(* IRQS_PENDING with its resend on enable_irq.                            *)
(***************************************************************************)
EXTENDS Naturals, FiniteSets, SequencesExt

CONSTANTS
    Pins,      \* the GPIO numbers consumers use
    Callers,   \* the CPUs that call the driver
    Own,       \* Own[c]: the GPIOs whose value and irq caller c drives
    Types,     \* Types[p]: the trigger type p's irq was requested with
    MaxCalls,  \* calls each caller makes
    MaxEdges   \* edges the pads see

\* pincfgaddr: the pad banks, in the order the handler visits them. The
\* banks whose output value reads back 0 keep it in a shadow instead.
PinCfg ==
    << [pinl |-> 0, pinh |-> 15], [pinl |-> 16, pinh |-> 19],
       [pinl |-> 20, pinh |-> 21], [pinl |-> 22, pinh |-> 25],
       [pinl |-> 26, pinh |-> 29], [pinl |-> 30, pinh |-> 31],
       [pinl |-> 32, pinh |-> 39], [pinl |-> 40, pinh |-> 47],
       [pinl |-> 48, pinh |-> 60], [pinl |-> 61, pinh |-> 64],
       [pinl |-> 65, pinh |-> 68], [pinl |-> 69, pinh |-> 73],
       [pinl |-> 74, pinh |-> 77], [pinl |-> 78, pinh |-> 79],
       [pinl |-> 80, pinh |-> 81], [pinl |-> 82, pinh |-> 84],
       [pinl |-> 85, pinh |-> 86], [pinl |-> 87, pinh |-> 88] >>
ShadowBanks == {65, 78, 80}

\* rts_get_pinaddr: the bank holding pin p, named by its pinl.
Bank(p) == LET i == CHOOSE j \in DOMAIN PinCfg :
                        PinCfg[j].pinl <= p /\ p <= PinCfg[j].pinh
           IN PinCfg[i].pinl
Cfg(b) == PinCfg[CHOOSE j \in DOMAIN PinCfg : PinCfg[j].pinl = b]
Bf(p) == p - Bank(p)
\* bs: the offset of the rising-edge bits, by the bank's width.
Bs(b) == LET n == Cfg(b).pinh - b + 1
         IN IF n > 8 THEN 16 ELSE IF n > 4 THEN 8 ELSE 4
\* The bit 1 << k sets in a 32-bit register: the shift of an int by k
\* (RV64 sllw) takes k's low five bits.
Bit(k) == k % 32
\* mask: GENMASK(pinh - pinl, 0), and the same shifted by bs.
Mask(b) == LET w == Cfg(b).pinh - b
           IN {k \in 0..31 : k <= w \/ (Bs(b) <= k /\ k - Bs(b) <= w)}
\* The GPIO a bit of GPIO_INT stands for, in the handler's loop.
PinOfBit(b, k) == (IF k >= Bs(b) THEN k - Bs(b) ELSE k) + b
\* The GPIO_INT_EN bits rts_gpio_irq_enable sets for p.
TypeBits(p) ==
    (IF Types[p] \in {"rising", "both"} THEN {Bf(p) + Bs(Bank(p))} ELSE {})
    \cup (IF Types[p] \in {"falling", "both"} THEN {Bf(p)} ELSE {})

Banks == {Bank(p) : p \in Pins}
\* The model's banks in pincfgaddr order.
BankSeq == SetToSortSeq(Banks, <)

None == "none"

VARIABLES
    value, intEn, intSt, shadow,       \* GPIO_VALUE, GPIO_INT_EN, GPIO_INT; the u8 shadows
    irqLock,                           \* rtspc->irq_lock
    disabled, pending, replay, descLock, \* genirq, per GPIO irq
    cpc, cop, ctmp, calls,             \* the callers
    hpc, hb, hval1, hval2, hbits,      \* rts_irq_handler
    edges, owed, lastSet               \* history

regVars == <<value, intEn, intSt, shadow>>
irqVars == <<disabled, pending, replay, descLock>>
callVars == <<cpc, cop, ctmp, calls>>
hVars == <<hpc, hb, hval1, hval2, hbits>>
vars == <<regVars, irqLock, irqVars, callVars, hVars, edges, owed, lastSet>>

Init ==
    /\ value = [b \in Banks |-> {}]
    /\ intEn = [b \in Banks |-> UNION {TypeBits(p) : p \in {q \in Pins : Bank(q) = b}}]
    /\ intSt = [b \in Banks |-> {}]
    /\ shadow = [b \in Banks \cap ShadowBanks |-> {}]
    /\ irqLock = None
    /\ disabled = [p \in Pins |-> FALSE]
    /\ pending = [p \in Pins |-> FALSE]
    /\ replay = [p \in Pins |-> FALSE]
    /\ descLock = [p \in Pins |-> None]
    /\ cpc = [c \in Callers |-> "idle"]
    /\ cop = [c \in Callers |-> [op |-> "set", pin |-> CHOOSE p \in Own[c] : TRUE, val |-> 0]]
    /\ ctmp = [c \in Callers |-> {}]
    /\ calls = [c \in Callers |-> 0]
    /\ hpc = "idle" /\ hb = 1 /\ hval1 = {} /\ hval2 = {} /\ hbits = {}
    /\ edges = 0
    /\ owed = [p \in Pins |-> FALSE]
    /\ lastSet = [p \in Pins |-> None]

-----------------------------------------------------------------------------
(* A caller begins a call on one of its GPIOs: disable_irq of an enabled  *)
(* irq, enable_irq of a disabled one (the consumer keeps the depth at 0   *)
(* or 1), or gpiod_set_value.                                             *)
Call(c) ==
    /\ cpc[c] = "idle" /\ calls[c] < MaxCalls
    /\ \E p \in Own[c] :
         \/ /\ cop' = [cop EXCEPT ![c] = [op |-> IF disabled[p] THEN "enable"
                                                  ELSE "disable",
                                          pin |-> p, val |-> 0]]
            /\ cpc' = [cpc EXCEPT ![c] = "desc"]
         \/ \E v \in {0, 1} :
              /\ cop' = [cop EXCEPT ![c] = [op |-> "set", pin |-> p, val |-> v]]
              /\ cpc' = [cpc EXCEPT ![c] = "read"]
    /\ UNCHANGED <<regVars, irqLock, irqVars, ctmp, calls, hVars, edges, owed,
                   lastSet>>

(* enable_irq / disable_irq take desc->lock and set the genirq state      *)
(* before the chip callback: irq_state_set_disabled, irq_state_clr_disabled. *)
(* A consumer that disables its irq is owed no edge it has not had.       *)
DescLock(c) ==
    LET p == cop[c].pin IN
    /\ cpc[c] = "desc" /\ descLock[p] = None
    /\ descLock' = [descLock EXCEPT ![p] = c]
    /\ disabled' = [disabled EXCEPT ![p] = (cop[c].op = "disable")]
    /\ owed' = [owed EXCEPT ![p] = @ /\ cop[c].op = "enable"]
    /\ cpc' = [cpc EXCEPT ![c] = "lock"]
    /\ UNCHANGED <<regVars, irqLock, pending, replay, cop, ctmp, calls, hVars,
                   edges, lastSet>>

(* rts_gpio_irq_enable / _disable: spin_lock_irqsave(irq_lock), then the  *)
(* ioread32 of GPIO_INT_EN.                                               *)
IrqLock(c) ==
    /\ cpc[c] = "lock" /\ irqLock = None
    /\ irqLock' = c
    /\ ctmp' = [ctmp EXCEPT ![c] = intEn[Bank(cop[c].pin)]]
    /\ cpc' = [cpc EXCEPT ![c] = "rmw"]
    /\ UNCHANGED <<regVars, irqVars, cop, calls, hVars, edges, owed, lastSet>>

\* The GPIO_INT_EN the chip callback writes back: enable sets the type's
\* bits; disable clears bits gpio and gpio + bs.
NewIntEn(c) ==
    LET p == cop[c].pin IN
    IF cop[c].op = "enable" THEN ctmp[c] \cup TypeBits(p)
    ELSE ctmp[c] \ {Bit(p), Bit(p + Bs(Bank(p)))}

(* The iowrite32 and the unlock; then, back in enable_irq,               *)
(* check_irq_resend turns IRQS_PENDING into a replay, and desc->lock is   *)
(* released.                                                              *)
IrqWrite(c) ==
    LET p == cop[c].pin IN
    /\ cpc[c] = "rmw"
    /\ intEn' = [intEn EXCEPT ![Bank(p)] = NewIntEn(c)]
    /\ irqLock' = None
    /\ IF cop[c].op = "enable" /\ pending[p]
         THEN /\ pending' = [pending EXCEPT ![p] = FALSE]
              /\ replay' = [replay EXCEPT ![p] = TRUE]
         ELSE UNCHANGED <<pending, replay>>
    /\ descLock' = [descLock EXCEPT ![p] = None]
    /\ cpc' = [cpc EXCEPT ![c] = "idle"]
    /\ calls' = [calls EXCEPT ![c] = @ + 1]
    /\ UNCHANGED <<value, intSt, shadow, disabled, cop, ctmp, hVars, edges,
                   owed, lastSet>>

(* rts_gpio_set: the read of GPIO_VALUE (rts_set_reg_bit, rts_clr_reg_bit) *)
(* or, for the banks whose value reads back 0, of the shadow. No lock.     *)
SetRead(c) ==
    LET b == Bank(cop[c].pin) IN
    /\ cpc[c] = "read"
    /\ ctmp' = [ctmp EXCEPT ![c] = IF b \in ShadowBanks THEN shadow[b]
                                   ELSE value[b]]
    /\ cpc' = [cpc EXCEPT ![c] = "write"]
    /\ UNCHANGED <<regVars, irqLock, irqVars, cop, calls, hVars, edges, owed,
                   lastSet>>

\* The word rts_gpio_set writes back: bit bf set or cleared.
SetWord(c) ==
    IF cop[c].val = 1 THEN ctmp[c] \cup {Bf(cop[c].pin)}
    ELSE ctmp[c] \ {Bf(cop[c].pin)}

\* A call of rts_gpio_set returns.
SetDone(c) ==
    /\ cpc' = [cpc EXCEPT ![c] = "idle"]
    /\ calls' = [calls EXCEPT ![c] = @ + 1]
    /\ lastSet' = [lastSet EXCEPT ![cop[c].pin] =
                                     IF cop[c].val = 1 THEN "high" ELSE "low"]

(* The iowrite32 of GPIO_VALUE; in a shadow bank, the store to the shadow, *)
(* whose writel comes next.                                                *)
SetWrite(c) ==
    LET b == Bank(cop[c].pin) IN
    /\ cpc[c] = "write"
    /\ IF b \in ShadowBanks
         THEN /\ shadow' = [shadow EXCEPT ![b] = SetWord(c)]
              /\ cpc' = [cpc EXCEPT ![c] = "writel"]
              /\ UNCHANGED <<value, calls, lastSet>>
         ELSE /\ value' = [value EXCEPT ![b] = SetWord(c)]
              /\ SetDone(c)
              /\ UNCHANGED shadow
    /\ UNCHANGED <<intEn, intSt, irqLock, irqVars, cop, ctmp, hVars, edges, owed>>

(* writel(rtspc->..._gpio_value): the field is read again after the write *)
(* barrier, so the register gets the shadow as it is now.                 *)
SetWritel(c) ==
    LET b == Bank(cop[c].pin) IN
    /\ cpc[c] = "writel"
    /\ value' = [value EXCEPT ![b] = shadow[b]]
    /\ SetDone(c)
    /\ UNCHANGED <<intEn, intSt, shadow, irqLock, irqVars, cop, ctmp, hVars,
                   edges, owed>>

(* A pad sees an edge: GPIO_INT latches bit bf (falling) or bf + bs       *)
(* (rising), whether or not GPIO_INT_EN has it. A consumer is owed the    *)
(* edge when its irq has that trigger, is enabled and no enable_irq or    *)
(* disable_irq of it is under way.                                        *)
Edge ==
    /\ edges < MaxEdges
    /\ \E p \in Pins, k \in {"fall", "rise"} :
         LET bit == IF k = "rise" THEN Bf(p) + Bs(Bank(p)) ELSE Bf(p) IN
         /\ intSt' = [intSt EXCEPT ![Bank(p)] = @ \cup {bit}]
         /\ owed' = [owed EXCEPT ![p] = @ \/ (bit \in TypeBits(p)
                                               /\ ~disabled[p]
                                               /\ descLock[p] = None)]
    /\ edges' = edges + 1
    /\ UNCHANGED <<value, intEn, shadow, irqLock, irqVars, callVars, hVars,
                   lastSet>>

\* The parent interrupt line: a latched edge that GPIO_INT_EN passes.
Line == \E b \in Banks : intSt[b] \cap intEn[b] # {}

\* handle_simple_irq under desc->lock: a disabled irq is marked
\* IRQS_PENDING; an enabled one runs the consumer's handler.
HandleSimple(g) ==
    /\ descLock[g] = None
    /\ IF disabled[g]
         THEN /\ pending' = [pending EXCEPT ![g] = TRUE]
              /\ UNCHANGED owed
         ELSE /\ owed' = [owed EXCEPT ![g] = FALSE]
              /\ UNCHANGED pending

(* rts_irq_handler is entered when the line is asserted and visits the   *)
(* banks in pincfgaddr order.                                            *)
HStart ==
    /\ hpc = "idle" /\ Line
    /\ hpc' = "en" /\ hb' = 1
    /\ UNCHANGED <<regVars, irqLock, irqVars, callVars, hval1, hval2, hbits,
                   edges, owed, lastSet>>

\* The bank the handler is at.
HBank == BankSeq[hb]

\* val1 = readl(gpio_int_en) & mask.
HReadEn ==
    /\ hpc = "en"
    /\ hval1' = intEn[HBank] \cap Mask(HBank)
    /\ hpc' = "st"
    /\ UNCHANGED <<regVars, irqLock, irqVars, callVars, hb, hval2, hbits,
                   edges, owed, lastSet>>

\* val2 = readl(gpio_int) & mask.
HReadInt ==
    /\ hpc = "st"
    /\ hval2' = intSt[HBank] \cap Mask(HBank)
    /\ hpc' = "clr"
    /\ UNCHANGED <<regVars, irqLock, irqVars, callVars, hb, hval1, hbits,
                   edges, owed, lastSet>>

\* writel(val2, gpio_int) clears every edge read; val2 &= val1.
HClear ==
    /\ hpc = "clr"
    /\ intSt' = [intSt EXCEPT ![HBank] = @ \ hval2]
    /\ hbits' = hval2 \cap hval1
    /\ hpc' = "disp"
    /\ UNCHANGED <<value, intEn, shadow, irqLock, irqVars, callVars, hb,
                   hval1, hval2, edges, owed, lastSet>>

(* for_each_set_bit of val2, lowest first: the GPIO of the bit, through   *)
(* irq_linear_revmap, to generic_handle_irq.                              *)
HDispatch ==
    /\ hpc = "disp" /\ hbits # {}
    /\ LET k == CHOOSE x \in hbits : \A y \in hbits : x <= y
           g == PinOfBit(HBank, k)
       IN /\ g \in Pins
          /\ HandleSimple(g)
          /\ hbits' = hbits \ {k}
    /\ UNCHANGED <<regVars, irqLock, disabled, replay, descLock, callVars, hpc,
                   hb, hval1, hval2, edges, lastSet>>

\* The next bank, or the return.
HNext ==
    /\ hpc = "disp" /\ hbits = {}
    /\ IF hb < Len(BankSeq) THEN hpc' = "en" /\ hb' = hb + 1
                            ELSE hpc' = "idle" /\ hb' = 1
    /\ UNCHANGED <<regVars, irqLock, irqVars, callVars, hval1, hval2, hbits,
                   edges, owed, lastSet>>

(* resend_irqs, the tasklet check_irq_resend scheduled, runs the irq's   *)
(* flow handler.                                                         *)
Resend(p) ==
    /\ replay[p]
    /\ replay' = [replay EXCEPT ![p] = FALSE]
    /\ HandleSimple(p)
    /\ UNCHANGED <<regVars, irqLock, disabled, descLock, callVars, hVars, edges,
                   lastSet>>

\* Every call made, every edge seen and handled.
Quiescent ==
    /\ \A c \in Callers : cpc[c] = "idle" /\ calls[c] = MaxCalls
    /\ edges = MaxEdges /\ hpc = "idle" /\ ~Line
    /\ \A p \in Pins : ~replay[p]
Finished == Quiescent /\ UNCHANGED vars

Step(c) ==
    DescLock(c) \/ IrqLock(c) \/ IrqWrite(c)
    \/ SetRead(c) \/ SetWrite(c) \/ SetWritel(c)

Handler == HStart \/ HReadEn \/ HReadInt \/ HClear \/ HDispatch \/ HNext

Next ==
    \/ \E c \in Callers : Call(c) \/ Step(c)
    \/ Edge \/ Handler
    \/ \E p \in Pins : Resend(p)
    \/ Finished

(* A call that has begun runs to its end (the spinlocks are held only for *)
(* a few instructions); an asserted line is taken and the handler runs to *)
(* its return; a scheduled tasklet runs. Calls and edges are not forced.  *)
Fairness ==
    /\ \A c \in Callers : WF_vars(Step(c))
    /\ WF_vars(Handler)
    /\ \A p \in Pins : WF_vars(Resend(p))

Spec == Init /\ [][Next]_vars /\ Fairness

-----------------------------------------------------------------------------
Bits == SUBSET (0..31)

TypeOK ==
    /\ value \in [Banks -> Bits] /\ intEn \in [Banks -> Bits]
    /\ intSt \in [Banks -> Bits] /\ shadow \in [Banks \cap ShadowBanks -> Bits]
    /\ irqLock \in Callers \cup {None}
    /\ disabled \in [Pins -> BOOLEAN] /\ pending \in [Pins -> BOOLEAN]
    /\ replay \in [Pins -> BOOLEAN] /\ descLock \in [Pins -> Callers \cup {None}]
    /\ cpc \in [Callers -> {"idle", "desc", "lock", "rmw", "read", "write", "writel"}]
    /\ calls \in [Callers -> 0..MaxCalls]
    /\ hpc \in {"idle", "en", "st", "clr", "disp"} /\ hb \in 1..Len(BankSeq)
    /\ edges \in 0..MaxEdges /\ owed \in [Pins -> BOOLEAN]
    /\ lastSet \in [Pins -> {None, "low", "high"}]

(* While a GPIO's irq is enabled and no enable_irq or disable_irq of it   *)
(* is under way, GPIO_INT_EN has the bits of its trigger type: the        *)
(* irq_lock'd read-modify-writes of rts_gpio_irq_enable and _disable on   *)
(* one bank, from several CPUs, lose none of each other's bits, and       *)
(* disabling one GPIO leaves the others' bits alone.                      *)
IntEnCoversEnabled ==
    \A p \in Pins : ~disabled[p] /\ descLock[p] = None
                    => TypeBits(p) \subseteq intEn[Bank(p)]

(* An edge that comes while a consumer's irq is enabled reaches the        *)
(* consumer's handler, unless the consumer disables the irq first:         *)
(* rts_irq_handler's clear of GPIO_INT, and its dispatch of the bits that  *)
(* GPIO_INT_EN passes, lose none of them.                                  *)
EnabledEdgesDelivered ==
    \A p \in Pins : owed[p] ~> ~owed[p]

(* When no call is under way, each GPIO's output is the value of the last *)
(* rts_gpio_set of it: setting one bit of a bank leaves the others, which *)
(* the comment in rts_gpio_set gives as the reason for the shadows.       *)
GpioValuesKept ==
    (\A c \in Callers : cpc[c] = "idle")
    => \A p \in Pins : lastSet[p] # None
                       => ((Bf(p) \in value[Bank(p)]) <=> (lastSet[p] = "high"))
=============================================================================
