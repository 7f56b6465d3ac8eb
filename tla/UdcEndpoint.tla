----------------------------- MODULE UdcEndpoint -----------------------------
(***************************************************************************)
(* The non-control endpoints of the Realtek RTS3917 USB device controller  *)
(* (src/drivers/usb/realtek/core.c): enable/disable with the FIFO/DMA      *)
(* channel allocator, queue/dequeue, halt/wedge, the DMA and register-FIFO *)
(* transfer engines, the per-endpoint interrupt service and the deferred   *)
(* work items of the bulk-IN and UVC isochronous-IN endpoints.             *)
(*                                                                         *)
(* Three execution contexts share the endpoint state:                     *)
(*   "irq" - rts_usb_ep_irq, holds rtsusb->lock except around the gadget   *)
(*           completion callback inside rts_done;                          *)
(*   "wq"  - the udc_wq worker running bulkin_work / uvcin_work /          *)
(*           uvcin_done_work; the completion works take no lock at all;    *)
(*   "fw"  - the gadget framework calling the usb_ep_ops (a call that is   *)
(*           in progress, i.e. rts_ep_disable draining its queue or a      *)
(*           dequeue inside its callback, is recorded in ctx["fw"]).       *)
(* A critical section under rtsusb->lock is one action; code that runs     *)
(* without the lock is split where another context can observe it.        *)
(* The hardware (DMA channels, interrupt status bits) is a fourth actor.   *)
(***************************************************************************)
EXTENDS Integers, Sequences, SequencesExt, FiniteSets

CONSTANTS
  Eps,        \* endpoints (struct rts_endpoint other than ep0)
  EpNum,      \* Eps -> 1..12, logical endpoint number
  EpIn,       \* Eps -> BOOLEAN, direction IN
  Reqs,       \* request objects (struct rts_request)
  ReqEp,      \* Reqs -> Eps, the endpoint a request is used on
  Lengths,    \* request lengths the gadget may queue (all > 0)
  MaxPkt,     \* wMaxPacketSize of the interrupt endpoints
  FwOps,      \* Eps -> the usb_ep_ops the gadget may call on the endpoint
  UvcEarlyEnable, \* the gadget may enable ep5/ep6 again before uvcin_done_work ran
  NoEp, NoReq

ASSUME Lengths \subseteq Nat \ {0} /\ MaxPkt \in Nat \ {0}
ASSUME \A e \in Eps : EpNum[e] \in (IF EpIn[e] THEN 1..12 ELSE 1..4)
ASSUME FwOps \in [Eps -> SUBSET {"enable", "disable", "queue", "dequeue", "halt"}]
ASSUME UvcEarlyEnable \in BOOLEAN

VARIABLES
  enabled,    \* priv_ep->ep_enable
  configured, \* priv_ep->epnum # 0 (rts_ep_enable sets it, disable clears it)
  fwEnabled,  \* usb_ep.enabled as kept by the gadget framework
  stall, wedged, stopped,
  queue,      \* priv_ep->queue
  chanOwner,  \* mcm[m]: the endpoint that claimed channel m, or NoEp
  irqEn,      \* the endpoint's completion interrupt enable bit
  irqSts,     \* its completion status bit (LASTPKT_DONE / DMA_DONE / INTEP_IN)
  hwReq,      \* request last programmed into the endpoint's engine
  busy,       \* hardware transfers programmed and not yet finished (capped at 2)
  rstate,     \* "new" | "queued" | "done": the request seen from the gadget
  len, actual, status,
  lastLen,    \* priv_req->intr_in_last_length
  gives,      \* completion callbacks of a request (capped at 2)
  moved,      \* the hardware has finished a transfer of the request
  wq,         \* work items queued on udc_wq and not yet run
  ctx         \* what each context is doing between two of its steps

vars == <<enabled, configured, fwEnabled, stall, wedged, stopped, queue,
          chanOwner, irqEn, irqSts, hwReq, busy, rstate, len, actual, status,
          lastLen, gives, moved, wq, ctx>>

Chans == 0..7                          \* RTS_MCM_MAX_COUNT
Ctxs == {"irq", "wq", "fw"}
Idle == [op |-> "idle"]
Statuses == {"none", "inprogress", "ok", "econnreset"}

-----------------------------------------------------------------------------
(* Endpoint classes, as core.c tells them apart by number and direction.   *)

\* (epnum > 0 && epnum < 7 && dir_in) || (epnum && dir_out): uses a channel
UsesFifo(e) == (EpIn[e] /\ EpNum[e] \in 1..6) \/ ~EpIn[e]
IsIntr(e)   == EpIn[e] /\ EpNum[e] \in 7..12
IsBulkIn(e) == EpIn[e] /\ EpNum[e] \in 1..3
IsUvc(e)    == EpIn[e] /\ EpNum[e] \in 5..6
\* rts_set_epnstall only has a hardware stall bit for these endpoints
HasStallReg(e) == EpNum[e] \in 1..3 \/ IsIntr(e)

\* rts_set_ep_fifo_mapping: mcm_uvc = {0,1}, mcm_in = {2,3,4}, mcm_out = {5,6,7}
McmUvc == <<0, 1>>
McmIn  == <<2, 3, 4>>
McmOut == <<5, 6, 7>>
FifoChan(e) ==
  IF EpIn[e]
  THEN CASE EpNum[e] \in 1..3 -> McmIn[EpNum[e]]
         [] EpNum[e] = 4      -> McmIn[EpNum[e] - 1]
         [] OTHER             -> McmUvc[EpNum[e] - 4]
  ELSE IF EpNum[e] \in 1..3 THEN McmOut[EpNum[e]] ELSE McmOut[EpNum[e] - 1]
ChecksClaimNotEp4(e) == ~IsUvc(e) /\ EpNum[e] # 4   \* mutant: case 4 unchecked
\* the UVC mapping does not test mcm[]->claimed
ChecksClaim(e) == ~IsUvc(e)

-----------------------------------------------------------------------------
(* Hardware-side helpers, each the effect of one core.c helper.            *)

\* rts_set_ep_irq_enable: sets the enable bit and writes 1 to the (write-1-  *)
\* to-clear) DMA completion status of a channel endpoint
IrqEnable(e) ==
  /\ irqEn' = [irqEn EXCEPT ![e] = TRUE]
  /\ irqSts' = IF UsesFifo(e) THEN [irqSts EXCEPT ![e] = FALSE] ELSE irqSts

\* rts_start_dma_transfer / rts_start_intr_transfer on request r with rem
\* bytes left: the engine now describes r; an interrupt endpoint sends one
\* chunk of at most MaxPkt bytes
StartXferNoClamp(e, r, rem) ==   \* mutant: length not clamped to maxpacket
  /\ hwReq' = [hwReq EXCEPT ![e] = r]
  /\ busy' = [busy EXCEPT ![e] = Min({@ + 1, 2})]
  /\ lastLen' = IF IsIntr(e) THEN [lastLen EXCEPT ![r] = rem] ELSE lastLen
StartXfer(e, r, rem) ==
  /\ hwReq' = [hwReq EXCEPT ![e] = r]
  /\ busy' = [busy EXCEPT ![e] = Min({@ + 1, 2})]
  /\ lastLen' = IF IsIntr(e) THEN [lastLen EXCEPT ![r] = Min({rem, MaxPkt})]
                ELSE lastLen

StartNext(e) ==
  IF queue[e] # <<>>
  THEN LET h == Head(queue[e]) IN StartXfer(e, h, len[h] - actual[h])
  ELSE UNCHANGED <<hwReq, busy, lastLen>>

\* rts_set_mc_disable: DMA_STOP of the bound channel
McDisable(e) ==
  /\ busy' = [busy EXCEPT ![e] = 0]
  /\ hwReq' = [hwReq EXCEPT ![e] = NoReq]

\* rts_transfer_complete (DMA) or the chunk accounting of
\* rts_intr_transfer_process: bytes credited to the head request
Credited(e, r) ==
  IF IsIntr(e)
  THEN IF len[r] # actual[r] THEN actual[r] + lastLen[r] ELSE actual[r]
  ELSE actual[r] + len[r]

-----------------------------------------------------------------------------
(* rts_done / rts_done_wq, split at the completion callback. The first     *)
(* half unlinks r, sets stopped, the status, disables the interrupt of an  *)
(* emptied queue and invokes the callback; the second half restores        *)
(* stopped and continues the caller: "next" (start the new head under the  *)
(* lock, rts_usb_*_process), "next_clr" (the same, then clear the status,  *)
(* rts_usb_intrep_irq), "wq_next" (the work's unlocked start_next),        *)
(* "drain" (rts_ep_disable's loop) or "ret".                               *)

DoneBegin(c, e, r, st, then) ==
  LET q == Remove(queue[e], r) IN
  /\ queue' = [queue EXCEPT ![e] = q]
  /\ stopped' = [stopped EXCEPT ![e] = TRUE]
  /\ status' = [status EXCEPT ![r] = st]
  /\ irqEn' = IF q = <<>> THEN [irqEn EXCEPT ![e] = FALSE] ELSE irqEn
  /\ gives' = [gives EXCEPT ![r] = Min({@ + 1, 2})]
  /\ rstate' = [rstate EXCEPT ![r] = "done"]
  /\ ctx' = [ctx EXCEPT ![c] = [op |-> "giveback", ep |-> e,
                                saved |-> stopped[e], then |-> then]]

DoneEnd(c) ==
  LET d == ctx[c] IN
  /\ d.op = "giveback"
  /\ stopped' = [stopped EXCEPT ![d.ep] = d.saved]
  /\ IF d.then \in {"next", "next_clr"} THEN StartNext(d.ep)
     ELSE UNCHANGED <<hwReq, busy, lastLen>>
  /\ irqSts' = IF d.then = "next_clr" THEN [irqSts EXCEPT ![d.ep] = FALSE]
               ELSE irqSts
  /\ ctx' = [ctx EXCEPT ![c] = CASE d.then = "wq_next" -> [op |-> "wq_next", ep |-> d.ep]
                                 [] d.then = "drain"   -> [op |-> "drain", ep |-> d.ep]
                                 [] OTHER              -> Idle]
  /\ UNCHANGED <<enabled, configured, fwEnabled, stall, wedged, queue,
                 chanOwner, irqEn, rstate, len, actual, status, gives, moved,
                 wq>>

-----------------------------------------------------------------------------
(* Gadget framework calls (usb_ep_ops).                                    *)

\* rts_set_ep_enable: ep_enable, the stall bit cleared, and DMA_STOP of the
\* channel of an endpoint that uses one
SetEpEnable(e) ==
  /\ enabled' = [enabled EXCEPT ![e] = TRUE]
  /\ IF UsesFifo(e) THEN McDisable(e) ELSE UNCHANGED <<hwReq, busy>>

\* rts_set_ep_disable: ep_enable cleared and, while epnum is set, DMA_STOP
SetEpDisable(e) ==
  /\ enabled' = [enabled EXCEPT ![e] = FALSE]
  /\ IF configured[e] /\ UsesFifo(e) THEN McDisable(e) ELSE UNCHANGED <<hwReq, busy>>

\* rts_config_ep: map the channel, failing with -EINVAL when a checked
\* channel is claimed; otherwise claim it and rts_set_ep_enable
ConfigEp(e) ==
  IF UsesFifo(e) /\ ChecksClaim(e) /\ chanOwner[FifoChan(e)] # NoEp
  THEN UNCHANGED <<enabled, fwEnabled, stall, chanOwner, hwReq, busy>>
  ELSE /\ fwEnabled' = [fwEnabled EXCEPT ![e] = TRUE]
       /\ stall' = [stall EXCEPT ![e] = FALSE]
       /\ chanOwner' = IF UsesFifo(e) THEN [chanOwner EXCEPT ![FifoChan(e)] = e]
                       ELSE chanOwner
       /\ SetEpEnable(e)

\* The deferred part of a UVC rts_ep_disable has not finished yet.
UvcDisablePending(e) ==
  <<"uvcdone", e>> \in wq \/ ctx["wq"] = [op |-> "uvcreset", ep |-> e]

\* rts_ep_enable (no lock): epnum from the descriptor, then rts_config_ep;
\* the gadget framework marks the endpoint enabled only on success. Unless
\* UvcEarlyEnable, the gadget waits for a UVC endpoint's deferred disable.
Enable(e) ==
  /\ "enable" \in FwOps[e]
  /\ ~fwEnabled[e] /\ ctx["fw"] = Idle
  /\ UvcEarlyEnable \/ ~UvcDisablePending(e)
  /\ configured' = [configured EXCEPT ![e] = TRUE]
  /\ ConfigEp(e)
  /\ UNCHANGED <<wedged, stopped, queue, irqEn, irqSts, rstate, len, actual,
                 status, lastLen, gives, moved, wq, ctx>>

\* mutant: the mcm[] release placed after the UVC early return
DisableReleaseAfterUvc(e) ==
  /\ "disable" \in FwOps[e]
  /\ fwEnabled[e] /\ ctx["fw"] = Idle
  /\ fwEnabled' = [fwEnabled EXCEPT ![e] = FALSE]
  /\ SetEpDisable(e)
  /\ chanOwner' = IF configured[e] /\ ~IsUvc(e)
                  THEN [m \in Chans |-> IF chanOwner[m] = e THEN NoEp ELSE chanOwner[m]]
                  ELSE chanOwner
  /\ IF configured[e] /\ IsUvc(e)
     THEN /\ wq' = wq \cup {<<"uvcdone", e>>}
          /\ UNCHANGED ctx
     ELSE /\ ctx' = [ctx EXCEPT !["fw"] = [op |-> "drain", ep |-> e]]
          /\ UNCHANGED wq
  /\ UNCHANGED <<configured, stall, wedged, stopped, queue, irqEn, irqSts,
                 rstate, len, actual, status, lastLen, gives, moved>>

\* rts_ep_disable, first part (no lock): rts_set_ep_disable, release every
\* mcm[] entry recorded for this epnum/direction (none once epnum is 0),
\* then hand a UVC endpoint to uvcin_done_work or start draining the queue
Disable(e) ==
  /\ "disable" \in FwOps[e]
  /\ fwEnabled[e] /\ ctx["fw"] = Idle
  /\ fwEnabled' = [fwEnabled EXCEPT ![e] = FALSE]
  /\ SetEpDisable(e)
  /\ chanOwner' = IF configured[e]
                  THEN [m \in Chans |-> IF chanOwner[m] = e THEN NoEp ELSE chanOwner[m]]
                  ELSE chanOwner
  /\ IF configured[e] /\ IsUvc(e)
     THEN /\ wq' = wq \cup {<<"uvcdone", e>>}
          /\ UNCHANGED ctx
     ELSE /\ ctx' = [ctx EXCEPT !["fw"] = [op |-> "drain", ep |-> e]]
          /\ UNCHANGED wq
  /\ UNCHANGED <<configured, stall, wedged, stopped, queue, irqEn, irqSts,
                 rstate, len, actual, status, lastLen, gives, moved>>

\* rts_ep_disable's loop: the head is read without the lock ...
DrainTake ==
  LET e == ctx["fw"].ep IN
  /\ ctx["fw"].op = "drain"
  /\ queue[e] # <<>>
  /\ ctx' = [ctx EXCEPT !["fw"] = [op |-> "take", ep |-> e, req |-> Head(queue[e])]]
  /\ UNCHANGED <<enabled, configured, fwEnabled, stall, wedged, stopped, queue,
                 chanOwner, irqEn, irqSts, hwReq, busy, rstate, len, actual,
                 status, lastLen, gives, moved, wq>>

\* ... and completed with -ECONNRESET under the lock
DrainDone ==
  /\ ctx["fw"].op = "take"
  /\ DoneBegin("fw", ctx["fw"].ep, ctx["fw"].req, "econnreset", "drain")
  /\ UNCHANGED <<enabled, configured, fwEnabled, stall, wedged, chanOwner,
                 irqSts, hwReq, busy, len, actual, lastLen, moved, wq>>

\* the queue is empty: reset the endpoint's flags unless epnum is already 0
DrainEnd ==
  LET e == ctx["fw"].ep IN
  /\ ctx["fw"].op = "drain"
  /\ queue[e] = <<>>
  /\ IF configured[e]
     THEN /\ configured' = [configured EXCEPT ![e] = FALSE]
          /\ stall' = [stall EXCEPT ![e] = FALSE]
          /\ wedged' = [wedged EXCEPT ![e] = FALSE]
          /\ stopped' = [stopped EXCEPT ![e] = FALSE]
          /\ enabled' = [enabled EXCEPT ![e] = FALSE]
     ELSE UNCHANGED <<configured, stall, wedged, stopped, enabled>>
  /\ ctx' = [ctx EXCEPT !["fw"] = Idle]
  /\ UNCHANGED <<fwEnabled, queue, chanOwner, irqEn, irqSts, hwReq, busy,
                 rstate, len, actual, status, lastLen, gives, moved, wq>>

\* list_add_tail
Enqueue(q, r) == Append(q, r)

CanStartInCallback(e) == queue[e] = <<>> /\ ~stall[e]   \* mutant: stopped ignored
\* rts_ep_queue starts the request it adds to an empty, running endpoint
CanStart(e) == queue[e] = <<>> /\ ~stall[e] /\ ~stopped[e]

\* rts_ep_queue (under the lock), with a request of length l
Queue(e, r, l) ==
  LET req == queue[e] = <<>> IN
  /\ "queue" \in FwOps[e]
  /\ fwEnabled[e] /\ ReqEp[r] = e /\ rstate[r] = "new"
  /\ queue' = [queue EXCEPT ![e] = Enqueue(@, r)]
  /\ rstate' = [rstate EXCEPT ![r] = "queued"]
  /\ len' = [len EXCEPT ![r] = l]
  /\ actual' = [actual EXCEPT ![r] = 0]
  /\ status' = [status EXCEPT ![r] = "inprogress"]
  /\ IF req /\ ~stall[e] THEN IrqEnable(e) ELSE UNCHANGED <<irqEn, irqSts>>
  /\ IF CanStart(e) THEN StartXfer(e, r, l)
     ELSE UNCHANGED <<hwReq, busy, lastLen>>
  /\ UNCHANGED <<enabled, configured, fwEnabled, stall, wedged, stopped,
                 chanOwner, gives, moved, wq, ctx>>

\* rts_ep_dequeue: completes r with -ECONNRESET whenever the endpoint's
\* queue is non-empty
Dequeue(e, r) ==
  /\ "dequeue" \in FwOps[e]
  /\ ctx["fw"] = Idle /\ ReqEp[r] = e /\ rstate[r] # "new"
  /\ queue[e] # <<>>
  /\ DoneBegin("fw", e, r, "econnreset", "ret")
  /\ UNCHANGED <<enabled, configured, fwEnabled, stall, wedged, chanOwner,
                 irqSts, hwReq, busy, len, actual, lastLen, moved, wq>>

\* rts_set_halt_and_wedge(ep, 1, w): usb_ep_set_halt / usb_ep_set_wedge
SetHalt(e, w) ==
  /\ "halt" \in FwOps[e] /\ fwEnabled[e]
  /\ stall' = [stall EXCEPT ![e] = TRUE]
  /\ stopped' = [stopped EXCEPT ![e] = TRUE]
  /\ wedged' = IF w THEN [wedged EXCEPT ![e] = TRUE] ELSE wedged
  /\ UNCHANGED <<enabled, configured, fwEnabled, queue, chanOwner, irqEn,
                 irqSts, hwReq, busy, rstate, len, actual, status, lastLen,
                 gives, moved, wq, ctx>>

\* rts_set_halt_and_wedge(ep, 0, 0): clears the flags and re-arms the
\* interrupt of a non-empty queue
ClearHalt(e) ==
  /\ "halt" \in FwOps[e] /\ fwEnabled[e]
  /\ stall' = [stall EXCEPT ![e] = FALSE]
  /\ wedged' = [wedged EXCEPT ![e] = FALSE]
  /\ stopped' = [stopped EXCEPT ![e] = FALSE]
  /\ IF queue[e] # <<>> THEN IrqEnable(e) ELSE UNCHANGED <<irqEn, irqSts>>
  /\ UNCHANGED <<enabled, configured, fwEnabled, queue, chanOwner, hwReq,
                 busy, rstate, len, actual, status, lastLen, gives, moved,
                 wq, ctx>>

-----------------------------------------------------------------------------
(* Hardware.                                                               *)

\* a programmed transfer finishes (not while the endpoint is disabled, nor
\* while its stall bit answers the host) and raises its completion status
HwComplete(e) ==
  /\ busy[e] > 0 /\ enabled[e]
  /\ ~(stall[e] /\ HasStallReg(e))
  /\ busy' = [busy EXCEPT ![e] = @ - 1]
  /\ irqSts' = [irqSts EXCEPT ![e] = TRUE]
  /\ moved' = [moved EXCEPT ![hwReq[e]] = TRUE]
  /\ UNCHANGED <<enabled, configured, fwEnabled, stall, wedged, stopped, queue,
                 chanOwner, irqEn, hwReq, rstate, len, actual, status, lastLen,
                 gives, wq, ctx>>

-----------------------------------------------------------------------------
(* Interrupt service (rts_usb_ep_irq), one endpoint group at a time. It    *)
(* reads the status register whether or not the enable bit is set; the    *)
(* enable bit only decides whether the line fires (see Fairness).          *)

IrqReadyNoStatus(e) == ctx["irq"] = Idle /\ enabled[e]   \* mutant: status not tested
IrqReady(e) == ctx["irq"] = Idle /\ enabled[e] /\ irqSts[e]

\* rts_usb_bulkinep_irq / rts_usb_uvcinep_irq: acknowledge and queue_work
\* (a no-op when the work is already pending)
IrqDefer(e) ==
  /\ IsBulkIn(e) \/ IsUvc(e)
  /\ IrqReady(e)
  /\ irqSts' = [irqSts EXCEPT ![e] = FALSE]
  /\ wq' = wq \cup {<<IF IsUvc(e) THEN "uvcin" ELSE "bulkin", e>>}
  /\ UNCHANGED <<enabled, configured, fwEnabled, stall, wedged, stopped, queue,
                 chanOwner, irqEn, hwReq, busy, rstate, len, actual, status,
                 lastLen, gives, moved, ctx>>

\* rts_usb_bulkoutep_irq / rts_usb_uacinep_irq / rts_usb_uacoutep_irq:
\* acknowledge, then rts_usb_*_process inline: credit the head and complete it
IrqInline(e) ==
  /\ ~(IsBulkIn(e) \/ IsUvc(e) \/ IsIntr(e))
  /\ IrqReady(e)
  /\ irqSts' = [irqSts EXCEPT ![e] = FALSE]
  /\ IF queue[e] = <<>>
     THEN UNCHANGED <<queue, stopped, status, irqEn, gives, rstate, ctx, actual>>
     ELSE LET r == Head(queue[e]) IN
          /\ actual' = [actual EXCEPT ![r] = Credited(e, r)]
          /\ DoneBegin("irq", e, r, "ok", "next")
  /\ UNCHANGED <<enabled, configured, fwEnabled, stall, wedged, chanOwner,
                 hwReq, busy, len, lastLen, moved, wq>>

\* rts_usb_intrep_irq -> rts_usb_intr_in_process: credit the last chunk;
\* complete the head when it is full or short, else send its next chunk;
\* the status bit is cleared only after this processing
IrqIntr(e) ==
  /\ IsIntr(e)
  /\ IrqReady(e)
  /\ IF queue[e] = <<>>
     THEN /\ irqSts' = [irqSts EXCEPT ![e] = FALSE]
          /\ UNCHANGED <<queue, stopped, status, irqEn, gives, rstate, ctx,
                         actual, hwReq, busy, lastLen>>
     ELSE LET r == Head(queue[e])
              a == Credited(e, r) IN
          /\ actual' = [actual EXCEPT ![r] = a]
          /\ IF a = len[r] \/ a < MaxPkt
             THEN /\ DoneBegin("irq", e, r, "ok", "next_clr")
                  /\ UNCHANGED <<irqSts, hwReq, busy, lastLen>>
             ELSE /\ StartXfer(e, r, len[r] - a)
                  /\ irqSts' = [irqSts EXCEPT ![e] = FALSE]
                  /\ UNCHANGED <<queue, stopped, status, irqEn, gives, rstate, ctx>>
  /\ UNCHANGED <<enabled, configured, fwEnabled, stall, wedged, chanOwner,
                 len, moved, wq>>

-----------------------------------------------------------------------------
(* udc_wq work items.                                                      *)

\* rts_usb_bulk_in_process / rts_usb_uvc_in_process (no lock): credit the
\* head and complete it with rts_done_wq
WorkComplete(e) ==
  /\ ctx["wq"] = Idle
  /\ \E k \in {"bulkin", "uvcin"} : <<k, e>> \in wq /\ wq' = wq \ {<<k, e>>}
  /\ IF queue[e] = <<>>
     THEN UNCHANGED <<queue, stopped, status, irqEn, gives, rstate, ctx, actual>>
     ELSE LET r == Head(queue[e]) IN
          /\ actual' = [actual EXCEPT ![r] = Credited(e, r)]
          /\ DoneBegin("wq", e, r, "ok", "wq_next")
  /\ UNCHANGED <<enabled, configured, fwEnabled, stall, wedged, chanOwner,
                 irqSts, hwReq, busy, len, lastLen, moved>>

\* ... then (after the FIFO byte-count poll of the bulk-IN work)
\* rts_start_next_request, still without the lock
WorkStartNext ==
  /\ ctx["wq"].op = "wq_next"
  /\ StartNext(ctx["wq"].ep)
  /\ ctx' = [ctx EXCEPT !["wq"] = Idle]
  /\ UNCHANGED <<enabled, configured, fwEnabled, stall, wedged, stopped, queue,
                 chanOwner, irqEn, irqSts, rstate, len, actual, status, gives,
                 moved, wq>>

\* rts_done_uvc_in_disable, locked part: every queued request is completed
\* with -ECONNRESET by rts_done_wq, callbacks included, under the lock
WorkUvcFlush(e) ==
  /\ ctx["wq"] = Idle /\ <<"uvcdone", e>> \in wq
  /\ wq' = wq \ {<<"uvcdone", e>>}
  /\ LET flushed == ToSet(queue[e]) IN
     /\ queue' = [queue EXCEPT ![e] = <<>>]
     /\ status' = [r \in Reqs |-> IF r \in flushed THEN "econnreset" ELSE status[r]]
     /\ gives' = [r \in Reqs |-> IF r \in flushed THEN Min({gives[r] + 1, 2}) ELSE gives[r]]
     /\ rstate' = [r \in Reqs |-> IF r \in flushed THEN "done" ELSE rstate[r]]
     /\ irqEn' = IF flushed # {} THEN [irqEn EXCEPT ![e] = FALSE] ELSE irqEn
  /\ ctx' = [ctx EXCEPT !["wq"] = [op |-> "uvcreset", ep |-> e]]
  /\ UNCHANGED <<enabled, configured, fwEnabled, stall, wedged, stopped,
                 chanOwner, irqSts, hwReq, busy, len, actual, lastLen, moved>>

\* ... and unlocked part: reset epnum, stall, wedged, stopped, ep_enable
WorkUvcReset ==
  LET e == ctx["wq"].ep IN
  /\ ctx["wq"].op = "uvcreset"
  /\ configured' = [configured EXCEPT ![e] = FALSE]
  /\ stall' = [stall EXCEPT ![e] = FALSE]
  /\ wedged' = [wedged EXCEPT ![e] = FALSE]
  /\ stopped' = [stopped EXCEPT ![e] = FALSE]
  /\ enabled' = [enabled EXCEPT ![e] = FALSE]
  /\ ctx' = [ctx EXCEPT !["wq"] = Idle]
  /\ UNCHANGED <<fwEnabled, queue, chanOwner, irqEn, irqSts, hwReq, busy,
                 rstate, len, actual, status, lastLen, gives, moved, wq>>

-----------------------------------------------------------------------------
Init ==
  /\ enabled = [e \in Eps |-> FALSE]
  /\ configured = [e \in Eps |-> FALSE]
  /\ fwEnabled = [e \in Eps |-> FALSE]
  /\ stall = [e \in Eps |-> FALSE]
  /\ wedged = [e \in Eps |-> FALSE]
  /\ stopped = [e \in Eps |-> FALSE]
  /\ queue = [e \in Eps |-> <<>>]
  /\ chanOwner = [m \in Chans |-> NoEp]
  /\ irqEn = [e \in Eps |-> FALSE]
  /\ irqSts = [e \in Eps |-> FALSE]
  /\ hwReq = [e \in Eps |-> NoReq]
  /\ busy = [e \in Eps |-> 0]
  /\ rstate = [r \in Reqs |-> "new"]
  /\ len = [r \in Reqs |-> 0]
  /\ actual = [r \in Reqs |-> 0]
  /\ status = [r \in Reqs |-> "none"]
  /\ lastLen = [r \in Reqs |-> 0]
  /\ gives = [r \in Reqs |-> 0]
  /\ moved = [r \in Reqs |-> FALSE]
  /\ wq = {}
  /\ ctx = [c \in Ctxs |-> Idle]

Framework ==
  \/ \E e \in Eps : Enable(e) \/ Disable(e) \/ ClearHalt(e)
  \/ \E e \in Eps, w \in BOOLEAN : SetHalt(e, w)
  \/ \E e \in Eps, r \in Reqs, l \in Lengths : Queue(e, r, l)
  \/ \E e \in Eps, r \in Reqs : Dequeue(e, r)
  \/ DrainTake \/ DrainDone \/ DrainEnd

System ==
  \/ \E e \in Eps : HwComplete(e) \/ IrqDefer(e) \/ IrqInline(e) \/ IrqIntr(e)
                    \/ WorkComplete(e) \/ WorkUvcFlush(e)
  \/ \E c \in Ctxs : DoneEnd(c)
  \/ WorkStartNext \/ WorkUvcReset

Next == Framework \/ System

\* The hardware finishes what it was given, the interrupt line is serviced
\* while its enable bit is set, udc_wq runs its items, and a call that has
\* started returns. Nothing obliges the gadget to make a call.
Fairness ==
  /\ \A e \in Eps : WF_vars(HwComplete(e))
  /\ \A e \in Eps : WF_vars(irqEn[e] /\ (IrqDefer(e) \/ IrqInline(e) \/ IrqIntr(e)))
  /\ \A e \in Eps : WF_vars(WorkComplete(e)) /\ WF_vars(WorkUvcFlush(e))
  /\ \A c \in Ctxs : WF_vars(DoneEnd(c))
  /\ WF_vars(WorkStartNext) /\ WF_vars(WorkUvcReset)
  /\ WF_vars(DrainTake \/ DrainDone \/ DrainEnd)

Spec == Init /\ [][Next]_vars /\ Fairness

-----------------------------------------------------------------------------
TypeOK ==
  /\ enabled \in [Eps -> BOOLEAN] /\ configured \in [Eps -> BOOLEAN]
  /\ fwEnabled \in [Eps -> BOOLEAN]
  /\ stall \in [Eps -> BOOLEAN] /\ wedged \in [Eps -> BOOLEAN]
  /\ stopped \in [Eps -> BOOLEAN]
  /\ queue \in [Eps -> Seq(Reqs)]
  /\ chanOwner \in [Chans -> Eps \cup {NoEp}]
  /\ irqEn \in [Eps -> BOOLEAN] /\ irqSts \in [Eps -> BOOLEAN]
  /\ hwReq \in [Eps -> Reqs \cup {NoReq}] /\ busy \in [Eps -> 0..2]
  /\ rstate \in [Reqs -> {"new", "queued", "done"}]
  /\ len \in [Reqs -> Nat] /\ actual \in [Reqs -> Nat]
  /\ lastLen \in [Reqs -> 0..MaxPkt] /\ status \in [Reqs -> Statuses]
  /\ gives \in [Reqs -> 0..2] /\ moved \in [Reqs -> BOOLEAN]
  /\ wq \subseteq ({"bulkin", "uvcin", "uvcdone"} \X Eps)

-----------------------------------------------------------------------------
(* Safety.                                                                 *)

\* The gadget's completion callback runs at most once for a queued request
\* (usb_gadget_giveback_request from rts_done, rts_done_wq, the dequeue and
\* the disable paths together).
CallbackOnce == \A r \in Reqs : gives[r] <= 1

\* A request is reported successful only if the hardware finished a transfer
\* of that request: the completion interrupt credits the head of the queue,
\* which must be the request the engine was given.
SuccessOnlyIfMoved == \A r \in Reqs : status[r] = "ok" => moved[r]

\* Pipelining depth 1: the engine of an endpoint is never given a second
\* transfer while one is outstanding (rts_ep_queue, rts_start_next_request
\* and the chunking of rts_intr_transfer_process together).
DepthOne == \A e \in Eps : busy[e] <= 1


\* A DMA channel is claimed exactly by the endpoints the gadget has enabled
\* and that use a channel, each on the channel of the static mapping
\* (rts_set_ep_fifo_mapping on enable, the mcm[] release of rts_ep_disable).
ChannelBinding ==
  /\ \A e \in Eps : fwEnabled[e] /\ UsesFifo(e) => chanOwner[FifoChan(e)] = e
  /\ \A m \in Chans : chanOwner[m] # NoEp => fwEnabled[chanOwner[m]]

\* No transfer is programmed into the engine of a halted endpoint: a stalled
\* endpoint does not restart its queue until the halt is cleared.
Programs(e) == hwReq'[e] # NoReq /\ (busy'[e] > busy[e] \/ hwReq'[e] # hwReq[e])
NoStartWhileHalted == [][\A e \in Eps : Programs(e) => ~stall[e]]_vars

(* Liveness.                                                               *)

=============================================================================
