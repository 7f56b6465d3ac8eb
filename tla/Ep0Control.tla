----------------------------- MODULE Ep0Control -----------------------------
(***************************************************************************)
(* The control endpoint of the Realtek UDC (src/drivers/usb/realtek/core.c)*)
(* : the EP0 part of the interrupt handler (rts_usb_ep0_irq), the decoding *)
(* of standard requests (rts_usb_setup_process and its handlers), the EP0  *)
(* chunking engine (rts_ep0_queue, rts_start_ep0_transfer,                 *)
(* rts_ep0_transfer_process) and the EP0 branch of rts_done.               *)
(*                                                                         *)
(* Three actors share rtsusb->lock:                                        *)
(*  - the interrupt handler, which holds it except around the gadget's     *)
(*    setup callback and the rts_ep_queue of GET_STATUS;                   *)
(*  - the gadget in process context: a delayed data/status stage queued    *)
(*    later on ep0, and usb_ep_set_halt on a data endpoint;                *)
(*  - the host and the EP0 hardware (SETUP, IN/OUT packets, status stage). *)
(***************************************************************************)
EXTENDS Integers, Sequences, SequencesExt, Bitwise

CONSTANTS
    Setups,     \* the SETUP packets the host sends (records, see SetupRec)
    Eps,        \* endpoints a standard request may address: "ep0" and data eps
    MaxPkt0,    \* EP0 max packet size (USB_EP0_MAX_PKT_SIZE)
    FilterOk    \* verdicts the gadget's filteroutdata hook may return

SetupRec == [type : {"standard", "class"},
             req : {"get_status", "clear_feature", "set_feature",
                    "set_address", "set_configuration", "other"},
             recip : {"device", "interface", "endpoint", "other"},
             ep : Eps, dirIn : BOOLEAN, wLength : Nat, wValue : Nat]

ASSUME Setups \subseteq SetupRec /\ "ep0" \in Eps /\ MaxPkt0 \in Nat \ {0}
ASSUME FilterOk \subseteq BOOLEAN /\ FilterOk # {}

\* The two requests ever queued on ep0: the controller's own ep0_req
\* (GET_STATUS data) and the gadget's control request.
Reqs == {"ep0_req", "greq"}
NoSetup == [type |-> "class", req |-> "other", recip |-> "other", ep |-> "ep0",
            dirIn |-> FALSE, wLength |-> 0, wValue |-> 0]

VARIABLES
    lock,      \* holder of rtsusb->lock: "free" or "irq" (the gadget's
               \* own critical sections are single steps)
    pc,        \* where the interrupt handler is
    snap,      \* int_val of rts_usb_ep0_irq: the EP0 sources it services
    sts,       \* USB_IRQ_STATUS bits I_SETUPF, I_EP0INF, I_EP0OUTF
    ieIn, ieOut, \* USB_IRQ_EN bits IE_EP0IN, IE_EP0OUT
    txEn, rxEn,  \* R_EP0_MC_BUF_CTL TX_EN / RX_EN
    cxdone, cxstall, \* EP0 handshake: EP0_CSH (ACK) and EP0_STALL
    latch,     \* USB_EP0_SETUP_DATA0/1 as the hardware latched them
    setup,     \* rtsusb->setup_buf as decoded by the handler
    dirIn,     \* ep_in[0]->dir_in
    q,         \* ep_in[0]->queue
    len, actual, \* request.length, request.actual
    lastLen,   \* ep0_in_last_length
    stall, wedged, \* of the data endpoints
    addr,      \* USB_ADDR & 0x7f
    owes,      \* the gadget returned from setup with the stage still to queue
    host,      \* host's phase of the control transfer
    got,       \* bytes moved in the data stage of the current transfer
    resp,      \* length of the request last queued on ep0
    result     \* how the host saw the last transfer end

vars == <<lock, pc, snap, sts, ieIn, ieOut, txEn, rxEn, cxdone, cxstall, latch,
          setup, dirIn, q, len, actual, lastLen, stall, wedged, addr, owes,
          host, got, resp, result>>
hwVars == <<sts, ieIn, ieOut, txEn, rxEn, cxdone, cxstall>>
reqVars == <<q, len, actual, lastLen, resp>>

DataEps == Eps \ {"ep0"}
MinOf(a, b) == IF a < b THEN a ELSE b

(***************************************************************************)
(* The engine.                                                             *)
(***************************************************************************)

\* rts_start_ep0_transfer: arm one chunk of the head (IN) or the receiver.
\* Mutant: the chunk is not clamped to maxpacket.
StartEp0NoClamp(n, act) ==
    IF dirIn
    THEN /\ ieIn' = TRUE /\ txEn' = TRUE
         /\ lastLen' = (n - act) % 65536
         /\ UNCHANGED <<ieOut, rxEn>>
    ELSE /\ ieOut' = TRUE /\ rxEn' = TRUE
         /\ UNCHANGED <<ieIn, txEn, lastLen>>

\* The chunk length is a u16: (length - actual) % 2^16.
StartEp0(n, act) ==
    IF dirIn
    THEN /\ ieIn' = TRUE /\ txEn' = TRUE
         /\ lastLen' = MinOf((n - act) % 65536, MaxPkt0)
         /\ UNCHANGED <<ieOut, rxEn>>
    ELSE /\ ieOut' = TRUE /\ rxEn' = TRUE
         /\ UNCHANGED <<ieIn, txEn, lastLen>>

\* rts_done on ep0: unlink, switch the direction's interrupt and buffer off,
\* and answer the status stage (OUT: through the filteroutdata hook, whose
\* failure stalls instead). The giveback's lock drop is not observable here:
\* no other context takes the lock for ep0 while a request is being retired.
Ep0Done(qq, i) ==
    /\ q' = RemoveAt(qq, i)
    /\ IF dirIn
       THEN /\ ieIn' = FALSE /\ txEn' = FALSE /\ cxdone' = TRUE
            /\ UNCHANGED <<ieOut, rxEn, cxstall>>
       ELSE /\ ieOut' = FALSE /\ rxEn' = FALSE
            /\ \E ok \in FilterOk :
                 IF ok THEN cxdone' = TRUE /\ cxstall' = cxstall
                       ELSE cxstall' = TRUE /\ cxdone' = cxdone
            /\ UNCHANGED <<ieIn, txEn>>

\* rts_ep_queue on ep0 -> rts_ep0_queue: append, reset actual, then complete
\* a zero-length request at once or start its first chunk.
Ep0Queue(r, n) ==
    /\ len' = [len EXCEPT ![r] = n]
    /\ actual' = [actual EXCEPT ![r] = 0]
    /\ resp' = n
    /\ IF n = 0
       THEN Ep0Done(Append(q, r), Len(q) + 1) /\ UNCHANGED lastLen
       ELSE /\ q' = Append(q, r) /\ StartEp0(n, 0)
            /\ UNCHANGED <<cxdone, cxstall>>

\* The lengths a gadget answers a forwarded request with.
Resp(s) == IF s.dirIn THEN 0..s.wLength ELSE {s.wLength}

\* Mutant: the short-packet test counts a full packet as short.
TransferProcessLe ==
    IF q = <<>>
    THEN UNCHANGED <<reqVars, ieIn, ieOut, txEn, rxEn, cxdone, cxstall>>
    ELSE LET r == Head(q)
             credit == IF len[r] = actual[r] THEN 0
                       ELSE IF dirIn THEN lastLen
                       ELSE MinOf(len[r] - actual[r], MaxPkt0)
             act == actual[r] + credit
         IN /\ actual' = [actual EXCEPT ![r] = act]
            /\ UNCHANGED <<len, resp>>
            /\ IF len[r] = act \/ act <= MaxPkt0
               THEN Ep0Done(q, 1) /\ UNCHANGED lastLen
               ELSE StartEp0(len[r], act) /\ UNCHANGED <<q, cxdone, cxstall>>

\* rts_ep0_transfer_process: credit the chunk just moved to the head (IN: the
\* length last written; OUT: what was left, capped at maxpacket), then retire
\* it when complete or when the running total is below maxpacket, otherwise
\* arm the next chunk.
TransferProcess ==
    IF q = <<>>
    THEN UNCHANGED <<reqVars, ieIn, ieOut, txEn, rxEn, cxdone, cxstall>>
    ELSE LET r == Head(q)
             credit == IF len[r] = actual[r] THEN 0
                       ELSE IF dirIn THEN lastLen
                       ELSE MinOf(len[r] - actual[r], MaxPkt0)
             act == actual[r] + credit
         IN /\ actual' = [actual EXCEPT ![r] = act]
            /\ UNCHANGED <<len, resp>>
            /\ IF len[r] = act \/ act < MaxPkt0
               THEN Ep0Done(q, 1) /\ UNCHANGED lastLen
               ELSE StartEp0(len[r], act) /\ UNCHANGED <<q, cxdone, cxstall>>

(***************************************************************************)
(* The interrupt handler: rts_usb_ep_irq takes the lock, rts_usb_ep0_irq   *)
(* reads int_val = IRQ_EN & IRQ_STATUS once and services SETUP, then IN,   *)
(* then OUT.                                                               *)
(***************************************************************************)
Enabled0(b) == b = "setup" \/ (b = "in" /\ ieIn) \/ (b = "out" /\ ieOut)
Pending == {b \in {"setup", "in", "out"} : sts[b] /\ Enabled0(b)}

IrqEnter ==
    /\ pc = "idle" /\ lock = "free" /\ Pending # {}
    /\ lock' = "irq" /\ snap' = Pending
    /\ pc' = IF "setup" \in Pending THEN "setup" ELSE "xfer"
    /\ UNCHANGED <<hwVars, latch, setup, dirIn, reqVars, stall, wedged, addr,
                   owes, host, got, result>>

\* The SETUP branch: acknowledge I_EP0OUTF and I_SETUPF, copy the latched
\* packet into setup_buf, and take ep_in[0]->dir_in from bRequestType.
ReadSetup ==
    /\ pc = "setup"
    /\ sts' = [sts EXCEPT !.setup = FALSE, !.out = FALSE]
    /\ setup' = latch /\ dirIn' = latch.dirIn

Std(r) == latch.type = "standard" /\ latch.req = r
Ack == cxdone' = TRUE
StallEp0 == cxstall' = TRUE
Back == pc' = "xfer"
setupKeep == <<lock, snap, ieIn, ieOut, txEn, rxEn, latch, reqVars, owes,
               host, got, result>>

GetStatus ==
    /\ ReadSetup /\ Std("get_status")
    /\ IF latch.recip = "other"
       THEN StallEp0 /\ Back /\ UNCHANGED lock
       ELSE /\ cxstall' = (cxstall \/ (latch.recip = "endpoint" /\ latch.ep = "ep0"))
            /\ lock' = "free" /\ pc' = "gs_queue"
    /\ UNCHANGED <<snap, ieIn, ieOut, txEn, rxEn, cxdone, latch, reqVars,
                   stall, wedged, addr, owes, host, got, result>>

\* rts_ep_queue(gadget.ep0, ep0_req) between spin_unlock and spin_lock.
GsQueue ==
    /\ pc = "gs_queue" /\ lock = "free"
    /\ Ep0Queue("ep0_req", 2)
    /\ pc' = "relock"
    /\ UNCHANGED <<lock, snap, sts, latch, setup, dirIn, stall, wedged, addr,
                   owes, host, got, result>>

Relock ==
    /\ pc = "relock" /\ lock = "free"
    /\ lock' = "irq" /\ pc' = "xfer"
    /\ UNCHANGED <<snap, hwVars, latch, setup, dirIn, reqVars, stall, wedged,
                   addr, owes, host, got, result>>

\* rts_usb_req_ep0_clear_feature. For a halted, unwedged data endpoint it
\* calls rts_set_halt_and_wedge, whose spin_lock_irqsave is on the lock this
\* handler already holds: the handler stays at "spin" with the lock held.
ClearFeature ==
    /\ ReadSetup /\ Std("clear_feature")
    /\ LET e == latch.ep
       IN CASE latch.recip = "endpoint" /\ e # "ep0" /\ ~wedged[e] /\ stall[e]
                 -> pc' = "spin" /\ UNCHANGED <<cxdone, cxstall>>
            [] latch.recip = "other" -> StallEp0 /\ Back /\ UNCHANGED cxdone
            [] OTHER -> Ack /\ Back /\ UNCHANGED cxstall
    /\ UNCHANGED <<setupKeep, stall, wedged, addr>>

\* rts_usb_req_ep0_set_feature: a data endpoint is stalled
\* (rts_set_epnstall), endpoint 0 gets a protocol stall and an ACK.
SetFeature ==
    /\ ReadSetup /\ Std("set_feature")
    /\ LET e == latch.ep
       IN IF latch.recip = "other"
          THEN StallEp0 /\ UNCHANGED <<cxdone, stall>>
          ELSE /\ Ack
               /\ cxstall' = (cxstall \/ (latch.recip = "endpoint" /\ e = "ep0"))
               /\ stall' = IF latch.recip = "endpoint" /\ e # "ep0"
                           THEN [stall EXCEPT ![e] = TRUE] ELSE stall
    /\ Back
    /\ UNCHANGED <<setupKeep, wedged, addr>>

\* Mutant: no ACK in the branch for an address already set.
SetAddressNoAck ==
    /\ ReadSetup /\ Std("set_address")
    /\ IF latch.wValue >= 256
       THEN StallEp0 /\ UNCHANGED <<cxdone, addr>>
       ELSE /\ addr' = addr | (latch.wValue & 127)
            /\ cxdone' = (cxdone \/ addr = 0) /\ UNCHANGED cxstall
    /\ Back
    /\ UNCHANGED <<setupKeep, stall, wedged>>

\* rts_usb_req_ep0_set_address -> rts_set_dev_addr: USB_ADDR |= addr & 0x7f,
\* ACK before or after the write (the same end state).
SetAddress ==
    /\ ReadSetup /\ Std("set_address")
    /\ IF latch.wValue >= 256
       THEN StallEp0 /\ UNCHANGED <<cxdone, addr>>
       ELSE /\ addr' = addr | (latch.wValue & 127)
            /\ Ack /\ UNCHANGED cxstall
    /\ Back
    /\ UNCHANGED <<setupKeep, stall, wedged>>

\* Class/vendor requests, SET_CONFIGURATION and the standard requests the
\* controller does not decode go to gadget_driver->setup with the lock dropped.
Forward ==
    /\ ReadSetup
    /\ latch.type # "standard" \/ latch.req \in {"set_configuration", "other"}
    /\ lock' = "free" /\ pc' = "gadget"
    /\ UNCHANGED <<snap, ieIn, ieOut, txEn, rxEn, cxdone, cxstall, latch,
                   reqVars, stall, wedged, addr, owes, host, got, result>>

\* gadget_driver->setup returns: having queued the data or status stage on
\* ep0, with an error (rts_set_cxstall, unlocked), or with the stage owed
\* (USB_GADGET_DELAYED_STATUS).
GadgetSetup ==
    /\ pc = "gadget" /\ pc' = "relock"
    /\ \/ /\ lock = "free" /\ \E n \in Resp(setup) : Ep0Queue("greq", n)
          /\ UNCHANGED owes
       \/ StallEp0 /\ UNCHANGED <<reqVars, ieIn, ieOut, txEn, rxEn, cxdone, owes>>
       \/ owes' = TRUE /\ UNCHANGED <<reqVars, ieIn, ieOut, txEn, rxEn, cxdone, cxstall>>
    /\ UNCHANGED <<lock, snap, sts, latch, setup, dirIn, stall, wedged, addr,
                   host, got, result>>

XferIn ==
    /\ pc = "xfer" /\ "in" \in snap
    /\ sts' = [sts EXCEPT !.in = FALSE] /\ snap' = snap \ {"in"}
    /\ TransferProcess
    /\ UNCHANGED <<lock, pc, latch, setup, dirIn, stall, wedged, addr, owes,
                   host, got, result>>

XferOut ==
    /\ pc = "xfer" /\ "in" \notin snap /\ "out" \in snap
    /\ sts' = [sts EXCEPT !.out = FALSE] /\ snap' = snap \ {"out"}
    /\ TransferProcess
    /\ UNCHANGED <<lock, pc, latch, setup, dirIn, stall, wedged, addr, owes,
                   host, got, result>>

IrqExit ==
    /\ pc = "xfer" /\ snap \cap {"in", "out"} = {}
    /\ lock' = "free" /\ pc' = "idle" /\ snap' = {}
    /\ UNCHANGED <<hwVars, latch, setup, dirIn, reqVars, stall, wedged,
                   addr, owes, host, got, result>>

(***************************************************************************)
(* The gadget in process context.                                          *)
(***************************************************************************)

\* A delayed stage queued on ep0 (usb_ep_queue -> rts_ep_queue).
FwQueue ==
    /\ owes /\ lock = "free"
    /\ \E n \in Resp(setup) : Ep0Queue("greq", n)
    /\ owes' = FALSE
    /\ UNCHANGED <<lock, pc, snap, sts, latch, setup, dirIn, stall, wedged,
                   addr, host, got, result>>

\* usb_ep_set_halt / usb_ep_set_wedge / usb_ep_clear_halt on a data endpoint
\* (rts_set_halt_and_wedge under the lock; its queue is empty here).
FwSetHalt(e, v, w) ==
    /\ lock = "free"
    /\ stall' = [stall EXCEPT ![e] = v]
    /\ wedged' = [wedged EXCEPT ![e] = IF v THEN wedged[e] \/ w ELSE FALSE]
    /\ UNCHANGED <<lock, pc, snap, hwVars, latch, setup, dirIn, reqVars, addr,
                   owes, host, got, result>>

(***************************************************************************)
(* The host and the EP0 hardware.                                          *)
(***************************************************************************)

\* A SETUP is taken at any time the previous transfer has ended: the
\* hardware latches it, raises I_SETUPF and clears the EP0 handshake bits.
HostSetup(s) ==
    /\ host = "idle"
    /\ latch' = s
    /\ sts' = [sts EXCEPT !.setup = TRUE]
    /\ cxdone' = FALSE /\ cxstall' = FALSE
    /\ host' = IF s.wLength = 0 THEN "status"
               ELSE IF s.dirIn THEN "data_in" ELSE "data_out"
    /\ got' = 0 /\ result' = "none"
    /\ UNCHANGED <<lock, pc, snap, ieIn, ieOut, txEn, rxEn, setup, dirIn,
                   reqVars, stall, wedged, addr, owes>>

\* The armed IN chunk goes to the host and raises I_EP0INF. A short chunk or
\* wLength bytes end the data stage.
HwIn ==
    /\ txEn /\ host = "data_in"
    /\ got' = got + lastLen
    /\ txEn' = FALSE /\ sts' = [sts EXCEPT !.in = TRUE]
    /\ host' = IF lastLen < MaxPkt0 \/ got' >= latch.wLength
               THEN "status" ELSE "data_in"
    /\ UNCHANGED <<lock, pc, snap, ieIn, ieOut, rxEn, cxdone, cxstall, latch,
                   setup, dirIn, reqVars, stall, wedged, addr, owes, result>>

\* The host's next OUT packet lands in the armed buffer and raises I_EP0OUTF.
HwOut ==
    /\ rxEn /\ host = "data_out"
    /\ got' = got + MinOf(latch.wLength - got, MaxPkt0)
    /\ rxEn' = FALSE /\ sts' = [sts EXCEPT !.out = TRUE]
    /\ host' = IF got' = latch.wLength THEN "status" ELSE "data_out"
    /\ UNCHANGED <<lock, pc, snap, ieIn, ieOut, txEn, cxdone, cxstall, latch,
                   setup, dirIn, reqVars, stall, wedged, addr, owes, result>>

\* The transfer ends: a STALL ends any stage; EP0_CSH acknowledges the status
\* stage, and an IN token of a data stage the driver has finished (nothing
\* armed) is answered with a zero-length packet, ending it too.
HostEnd ==
    /\ host # "idle"
    /\ \/ cxstall /\ result' = "stall"
       \/ /\ cxdone /\ ~cxstall
          /\ host = "status" \/ (host = "data_in" /\ ~txEn)
          /\ result' = "ack"
    /\ host' = "idle"
    /\ UNCHANGED <<lock, pc, snap, hwVars, latch, setup, dirIn, reqVars, stall,
                   wedged, addr, owes, got>>

Init ==
    /\ lock = "free" /\ pc = "idle" /\ snap = {}
    /\ sts = [b \in {"setup", "in", "out"} |-> FALSE]
    /\ ieIn = FALSE /\ ieOut = FALSE /\ txEn = FALSE /\ rxEn = FALSE
    /\ cxdone = FALSE /\ cxstall = FALSE
    /\ latch = NoSetup /\ setup = NoSetup /\ dirIn = FALSE
    /\ q = <<>> /\ len = [r \in Reqs |-> 0] /\ actual = [r \in Reqs |-> 0]
    /\ lastLen = 0 /\ resp = 0
    /\ stall = [e \in DataEps |-> FALSE] /\ wedged = [e \in DataEps |-> FALSE]
    /\ addr = 0 /\ owes = FALSE
    /\ host = "idle" /\ got = 0 /\ result = "none"

Irq == IrqEnter \/ GetStatus \/ GsQueue \/ Relock \/ ClearFeature
       \/ SetFeature \/ SetAddress \/ Forward \/ GadgetSetup
       \/ XferIn \/ XferOut \/ IrqExit
Gadget == FwQueue \/ \E e \in DataEps, v, w \in BOOLEAN : FwSetHalt(e, v, w)
Bus == (\E s \in Setups : HostSetup(s)) \/ HwIn \/ HwOut \/ HostEnd

Next == Irq \/ Gadget \/ Bus

\* The handler runs to its end once entered, pending interrupts are taken,
\* the hardware moves armed packets, the host runs the status stage, and a
\* gadget that owes a delayed stage queues it (the contract of
\* USB_GADGET_DELAYED_STATUS). The host need not send SETUPs and the gadget
\* need not change halts.
Fairness == WF_vars(Irq) /\ WF_vars(HwIn) /\ WF_vars(HwOut)
            /\ WF_vars(HostEnd) /\ WF_vars(FwQueue)

Spec == Init /\ [][Next]_vars /\ Fairness

(***************************************************************************)
(* Properties.                                                             *)
(***************************************************************************)

TypeOK ==
    /\ lock \in {"free", "irq"}
    /\ pc \in {"idle", "setup", "gs_queue", "gadget", "relock", "xfer", "spin"}
    /\ snap \subseteq {"setup", "in", "out"}
    /\ q \in Seq(Reqs) /\ Len(q) <= 3
    /\ len \in [Reqs -> 0..16] /\ actual \in [Reqs -> 0..16]
    /\ lastLen \in 0..MaxPkt0
    /\ host \in {"idle", "data_in", "data_out", "status"}
    /\ result \in {"none", "ack", "stall"}
    /\ addr \in 0..127

InDataExact ==
    (host = "idle" /\ result = "ack" /\ latch.dirIn /\ latch.wLength > 0)
        => got = resp

\* Every control transfer the host starts is ended by an ACK or a STALL:
\* no path of the handler, the engine or the gadget leaves EP0 unanswered.
AnsweredEventually == (host # "idle") ~> (host = "idle")
====
