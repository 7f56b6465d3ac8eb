------------------------------ MODULE Serial8250 ------------------------------
(***************************************************************************)
(* One 16550A-compatible port driven by the 8250 core                      *)
(* (drivers/tty/serial/8250/8250_port.c), as the platform builds it:       *)
(* FIFO mode, tx_loadsz 1, no DMA, no RS485, no runtime PM.                *)
(*                                                                         *)
(* The UART: a transmit FIFO that the transmitter empties onto the line,  *)
(* a receive FIFO of RxFifoSize characters (a character that finds it     *)
(* full is lost and sets OE), LSR whose error bits (PE of the character   *)
(* at the head of the FIFO, OE) are cleared by the read that returns      *)
(* them, IER, and IIR, whose read clears a THRE interrupt it reports.     *)
(* THRE is raised when the transmit FIFO empties and when IER.THRI is     *)
(* switched on while it is empty.                                         *)
(*                                                                         *)
(* The actors: the interrupt handler (serial8250_default_handle_irq; the  *)
(* IIR read is outside the port lock, the rest inside it), the tty layer  *)
(* (uart_write, stop/start, XON/XOFF, open, close, set_termios), the      *)
(* kernel console (serial8250_console_write, from any CPU), and the peer  *)
(* that sends characters. The peer sends while the port is open or        *)
(* closing; characters sent during an open would be flushed by it.        *)
(*                                                                         *)
(* Termios is fixed to INPCK (parity errors reported, TTY_PARITY) and    *)
(* nothing ignored; the modem-status interrupt (MSI) is not used.         *)
(***************************************************************************)
EXTENDS Naturals, Sequences, SequencesExt

CONSTANTS MaxTx,        \* characters the tty writes
          MaxXchar,     \* XON/XOFF characters sent
          MaxCon,       \* console characters printed
          MaxRx,        \* characters the peer sends
          RxFifoSize,   \* receive FIFO depth
          MaxOpens,     \* opens of the port
          MaxTermios,   \* set_termios calls on an open port
          Oops          \* oops_in_progress: console_write may run unlocked

VARIABLES
  ierHw, thr, threIp, rxf, oe, line,       \* the UART
  ier, xmit, stopped, xchar, saved,        \* up->ier, the circ buffer, tty->stopped,
                                           \* port->x_char, up->lsr_saved_flags
  lock, hpc, hlsr, cpc, csaved, cleft,     \* port lock holder, handler and console
  life, tpc,                               \* open/close progress, set_termios
  delivered,                               \* what reached the tty flip buffer
  nWritten, nXchar, nCon, opens, nTermios, \* input counters
  arrived, lost, ovl, discarded, dropped   \* history of the received and written

hw == <<ierHw, thr, threIp, rxf, oe, line>>
drv == <<ier, xmit, stopped, xchar, saved>>
ctl == <<lock, hpc, hlsr, cpc, csaved, cleft, life, tpc>>
cnt == <<nWritten, nXchar, nCon, opens, nTermios>>
hist == <<delivered, arrived, lost, ovl, discarded, dropped>>
vars == <<hw, drv, ctl, cnt, hist>>

IerBits == {"rdi", "rlsi", "thri"}
ErrBits == {"pe", "oe"}               \* LSR_SAVE_FLAGS, as far as modelled
Overrun == [id |-> 0, flag |-> "overrun"]
Garbage == 0                          \* what RBR returns when the FIFO is empty

Ids(f) == {f[i].id : i \in DOMAIN f}

(***************************************************************************)
(* The UART's registers.                                                   *)
(***************************************************************************)
LsrOf(f, o, t) ==
    (IF f # <<>> THEN {"dr"} ELSE {})
    \cup (IF f # <<>> /\ Head(f).pe THEN {"pe"} ELSE {})
    \cup (IF o THEN {"oe"} ELSE {})
    \cup (IF t = <<>> THEN {"thre"} ELSE {})

Lsr == LsrOf(rxf, oe, thr)

\* The LSR read has returned the head's PE: it is cleared.
Unflag(f) == IF f = <<>> THEN f ELSE [f EXCEPT ![1].pe = FALSE]

RlsPending == "rlsi" \in ierHw /\ (oe \/ (rxf # <<>> /\ Head(rxf).pe))
RdaPending == "rdi" \in ierHw /\ rxf # <<>>
ThrePending == "thri" \in ierHw /\ threIp
IntLine == RlsPending \/ RdaPending \/ ThrePending

\* A write of v to IER; switching THRI on with the FIFO empty raises THRE.
WriteIer(v) ==
    /\ ierHw' = v
    /\ threIp' = (threIp \/ ("thri" \in v /\ "thri" \notin ierHw /\ thr = <<>>))

\* serial_out(UART_TX, c).
WriteThr(c) == thr' = Append(thr, c) /\ threIp' = FALSE

(***************************************************************************)
(* Helpers of 8250_port.c.                                                 *)
(***************************************************************************)
\* serial8250_clear_fifos: both FIFOs reset; the emptied TX FIFO raises THRE.
ClearFifos ==
    /\ rxf' = <<>> /\ thr' = <<>>
    /\ threIp' = (threIp \/ thr # <<>>)

\* Mutant: the error bits the LSR read clears are not kept.
WaitForXmitrNoSave ==
    /\ thr = <<>>
    /\ UNCHANGED saved
    /\ oe' = FALSE /\ rxf' = Unflag(rxf)

\* wait_for_xmitr: poll LSR until the transmitter is empty, keeping the
\* error bits each read clears in lsr_saved_flags. The 10 ms timeout is
\* never taken: without flow control the FIFO drains well within it.
WaitForXmitr ==
    /\ thr = <<>>
    /\ saved' = saved \cup (Lsr \cap ErrBits)
    /\ oe' = FALSE /\ rxf' = Unflag(rxf)

\* serial8250_tx_empty, as uart_wait_until_sent polls it until it is true.
TxEmpty == WaitForXmitr

\* __do_stop_tx/__stop_tx: serial8250_clear_THRI writes IER only if up->ier
\* had THRI.
DoStopTx ==
    IF "thri" \in ier
    THEN ier' = ier \ {"thri"} /\ ierHw' = ier \ {"thri"}
    ELSE UNCHANGED <<ier, ierHw>>

\* serial8250_stop_tx.
StopTx == DoStopTx /\ UNCHANGED threIp

\* Mutant: up->ier gains THRI but IER is never written.
StartTxShadowOnly ==
    IF "thri" \notin ier
    THEN ier' = ier \cup {"thri"} /\ UNCHANGED <<ierHw, threIp>>
    ELSE UNCHANGED <<ier, ierHw, threIp>>

\* __start_tx (called by serial8250_start_tx): serial8250_set_THRI writes
\* IER only if up->ier lacked THRI.
StartTx ==
    IF "thri" \notin ier
    THEN ier' = ier \cup {"thri"} /\ WriteIer(ier \cup {"thri"})
    ELSE UNCHANGED <<ier, ierHw, threIp>>

\* serial8250_read_char with st = lsr | lsr_saved_flags: the head of the
\* FIFO (whatever RBR holds if it is empty), TTY_PARITY if PE is set, then
\* uart_insert_char's TTY_OVERRUN entry if OE is set.
ReadChar(st, f) ==
    <<[id |-> IF f = <<>> THEN Garbage ELSE Head(f).id,
       flag |-> IF "pe" \in st THEN "parity" ELSE "normal"]>>
    \o (IF "oe" \in st THEN <<Overrun>> ELSE <<>>)

\* Mutant: the character is written but the circ buffer tail not advanced.
TxCharsNoAdvance ==
    CASE xchar # 0 ->
           /\ WriteThr(<<"x", xchar>>) /\ xchar' = 0
           /\ UNCHANGED <<ier, ierHw, xmit>>
      [] stopped \/ xmit = <<>> ->
           /\ DoStopTx
           /\ UNCHANGED <<thr, threIp, xchar, xmit>>
      [] OTHER ->
           /\ WriteThr(<<"t", Head(xmit)>>)
           /\ IF Len(xmit) = 1 THEN DoStopTx ELSE UNCHANGED <<ier, ierHw>>
           /\ UNCHANGED <<xchar, xmit>>

\* serial8250_tx_chars, with tx_loadsz 1: port->x_char first; a stopped tty
\* or an empty buffer stops TX; otherwise one character, and TX is stopped
\* when the buffer has run empty.
TxChars ==
    CASE xchar # 0 ->
           /\ WriteThr(<<"x", xchar>>) /\ xchar' = 0
           /\ UNCHANGED <<ier, ierHw, xmit>>
      [] stopped \/ xmit = <<>> ->
           /\ DoStopTx
           /\ UNCHANGED <<thr, threIp, xchar, xmit>>
      [] OTHER ->
           /\ WriteThr(<<"t", Head(xmit)>>) /\ xmit' = Tail(xmit)
           /\ IF Len(xmit) = 1 THEN DoStopTx ELSE UNCHANGED <<ier, ierHw>>
           /\ UNCHANGED xchar

(***************************************************************************)
(* Initially the port is closed, with every interrupt source off.          *)
(***************************************************************************)
Init ==
    /\ ierHw = {} /\ thr = <<>> /\ threIp = FALSE /\ rxf = <<>> /\ oe = FALSE
    /\ line = <<>>
    /\ ier = {} /\ xmit = <<>> /\ stopped = FALSE /\ xchar = 0 /\ saved = {}
    /\ lock = "none" /\ hpc = "idle" /\ hlsr = {}
    /\ cpc = "idle" /\ csaved = {} /\ cleft = 0
    /\ life = "closed" /\ tpc = "idle"
    /\ nWritten = 0 /\ nXchar = 0 /\ nCon = 0 /\ opens = 0 /\ nTermios = 0
    /\ delivered = <<>> /\ arrived = <<>> /\ lost = {} /\ ovl = {}
    /\ discarded = {} /\ dropped = {}

(***************************************************************************)
(* The UART and the peer.                                                  *)
(***************************************************************************)
\* The transmitter puts the head of the FIFO on the line.
TxShift ==
    /\ thr # <<>>
    /\ line' = Append(line, Head(thr)) /\ thr' = Tail(thr)
    /\ threIp' = (threIp \/ Len(thr) = 1)
    /\ UNCHANGED <<ierHw, rxf, oe, drv, ctl, cnt, hist>>

\* A character arrives, with or without a parity error; with the FIFO
\* full it is lost and OE is set.
RxArrive ==
    /\ life \in {"open", "shutdown", "release"} /\ Len(arrived) < MaxRx
    /\ \E pe \in BOOLEAN :
          /\ arrived' = Append(arrived, pe)
          /\ IF Len(rxf) < RxFifoSize
             THEN /\ rxf' = Append(rxf, [id |-> Len(arrived) + 1, pe |-> pe])
                  /\ UNCHANGED <<oe, ovl, lost>>
             ELSE /\ oe' = TRUE /\ ovl' = ovl \cup {Len(arrived) + 1}
                  /\ lost' = lost \cup {Len(arrived) + 1}
                  /\ UNCHANGED rxf
    /\ UNCHANGED <<ierHw, thr, threIp, line, drv, ctl, cnt, delivered,
                   discarded, dropped>>

(***************************************************************************)
(* The interrupt handler.                                                  *)
(***************************************************************************)
\* The interrupt is taken while the handler is installed.
HandlerEnter ==
    /\ hpc = "idle" /\ life # "closed" /\ IntLine
    /\ hpc' = "iir"
    /\ UNCHANGED <<hw, drv, lock, hlsr, cpc, csaved, cleft, life, tpc, cnt, hist>>

\* serial8250_default_handle_irq: the IIR read, outside the port lock,
\* clears a THRE interrupt it reports; UART_IIR_NO_INT returns at once.
DefaultHandleIrq ==
    /\ hpc = "iir"
    /\ IF IntLine
       THEN /\ threIp' = (threIp /\ (RlsPending \/ RdaPending))
            /\ hpc' = "lock"
       ELSE /\ hpc' = "idle" /\ UNCHANGED threIp
    /\ UNCHANGED <<ierHw, thr, rxf, oe, line, drv, lock, hlsr, cpc, csaved,
                   cleft, life, tpc, cnt, hist>>

\* serial8250_handle_irq up to the receive loop: the port lock, the LSR
\* read, and serial8250_rx_chars if it shows data.
HandleIrq ==
    /\ hpc = "lock" /\ lock = "none"
    /\ lock' = "irq"
    /\ hlsr' = Lsr
    /\ oe' = FALSE /\ rxf' = Unflag(rxf)
    /\ hpc' = IF "dr" \in Lsr THEN "rx" ELSE "tail"
    /\ UNCHANGED <<ierHw, thr, threIp, line, drv, cpc, csaved, cleft, life,
                   tpc, cnt, hist>>

\* Mutant: lsr_saved_flags is not cleared after the character is read.
RxCharsKeepSaved ==
    /\ hpc = "rx"
    /\ LET st   == hlsr \cup saved
           rest == IF rxf = <<>> THEN rxf ELSE Tail(rxf)
           next == LsrOf(rest, oe, thr)
       IN /\ delivered' = delivered \o ReadChar(st, rxf)
          /\ ovl' = IF "oe" \in st THEN {} ELSE ovl
          /\ hlsr' = next
          /\ rxf' = Unflag(rest) /\ oe' = FALSE
          /\ hpc' = IF "dr" \in next THEN "rx" ELSE "tail"
    /\ UNCHANGED <<ierHw, thr, threIp, line, ier, xmit, stopped, xchar, saved,
                   lock, cpc, csaved, cleft, life, tpc, cnt, arrived, lost,
                   discarded, dropped>>

\* One round of serial8250_rx_chars: serial8250_read_char with the LSR
\* value and lsr_saved_flags (then cleared), and the next LSR read.
RxChars ==
    /\ hpc = "rx"
    /\ LET st   == hlsr \cup saved
           rest == IF rxf = <<>> THEN rxf ELSE Tail(rxf)
           next == LsrOf(rest, oe, thr)
       IN /\ delivered' = delivered \o ReadChar(st, rxf)
          /\ ovl' = IF "oe" \in st THEN {} ELSE ovl
          /\ saved' = {}
          /\ hlsr' = next
          /\ rxf' = Unflag(rest) /\ oe' = FALSE
          /\ hpc' = IF "dr" \in next THEN "rx" ELSE "tail"
    /\ UNCHANGED <<ierHw, thr, threIp, line, ier, xmit, stopped, xchar, lock,
                   cpc, csaved, cleft, life, tpc, cnt, arrived, lost, discarded,
                   dropped>>

\* The rest of serial8250_handle_irq: serial8250_tx_chars if the LSR
\* value showed THRE and up->ier has THRI, then the unlock.
HandleIrqTx ==
    /\ hpc = "tail"
    /\ IF "thre" \in hlsr /\ "thri" \in ier
       THEN TxChars
       ELSE UNCHANGED <<ier, ierHw, thr, threIp, xchar, xmit>>
    /\ lock' = "none" /\ hpc' = "idle"
    /\ UNCHANGED <<rxf, oe, line, stopped, saved, hlsr, cpc, csaved, cleft,
                   life, tpc, cnt, hist>>

(***************************************************************************)
(* The console.                                                            *)
(***************************************************************************)
\* serial8250_console_write for a message of n characters: the port lock
\* (with oops_in_progress only a trylock, and the write goes on without
\* it), IER saved from the hardware and cleared.
ConsoleWrite ==
    /\ cpc = "idle" /\ nCon < MaxCon
    /\ \/ lock = "none" /\ lock' = "con"
       \/ Oops /\ lock = "irq" /\ UNCHANGED lock
    /\ \E n \in 1..(MaxCon - nCon) : cleft' = n
    /\ csaved' = ierHw
    /\ WriteIer({})
    /\ cpc' = "put"
    /\ UNCHANGED <<thr, rxf, oe, line, drv, hpc, hlsr, life, tpc, cnt, hist>>

\* Mutant: the count of characters left is tested one step late.
ConsolePutcharLate ==
    /\ cpc = "put"
    /\ WaitForXmitr
    /\ WriteThr(<<"c", nCon + 1>>)
    /\ nCon' = nCon + 1
    /\ cleft' = cleft - 1
    /\ cpc' = IF cleft = 0 THEN "exit" ELSE "put"
    /\ UNCHANGED <<ierHw, line, ier, xmit, stopped, xchar, lock, hpc, hlsr,
                   csaved, life, tpc, nWritten, nXchar, opens, nTermios, hist>>

\* serial8250_console_putchar, from uart_console_write.
ConsolePutchar ==
    /\ cpc = "put"
    /\ WaitForXmitr
    /\ WriteThr(<<"c", nCon + 1>>)
    /\ nCon' = nCon + 1
    /\ cleft' = cleft - 1
    /\ cpc' = IF cleft = 1 THEN "exit" ELSE "put"
    /\ UNCHANGED <<ierHw, line, ier, xmit, stopped, xchar, lock, hpc, hlsr,
                   csaved, life, tpc, nWritten, nXchar, opens, nTermios, hist>>

\* Mutant: the saved IER is not written back.
ConsoleRestoreNoIer ==
    /\ cpc = "exit"
    /\ WaitForXmitr
    /\ lock' = IF lock = "con" THEN "none" ELSE lock
    /\ cpc' = "idle"
    /\ UNCHANGED <<ierHw, threIp, thr, line, ier, xmit, stopped, xchar, hpc,
                   hlsr, csaved, cleft, life, tpc, cnt, hist>>

\* The end of serial8250_console_write: wait for BOTH_EMPTY, restore the
\* saved IER, unlock if locked.
ConsoleRestore ==
    /\ cpc = "exit"
    /\ WaitForXmitr
    /\ WriteIer(csaved)
    /\ lock' = IF lock = "con" THEN "none" ELSE lock
    /\ cpc' = "idle"
    /\ UNCHANGED <<thr, line, ier, xmit, stopped, xchar, hpc, hlsr, csaved,
                   cleft, life, tpc, cnt, hist>>

(***************************************************************************)
(* The tty layer (serial_core), each call under the port lock.             *)
(***************************************************************************)
TtyReady == life = "open" /\ tpc = "idle" /\ lock = "none"

\* uart_write: a character into the circ buffer, then __uart_start.
UartWrite ==
    /\ TtyReady /\ nWritten < MaxTx
    /\ xmit' = Append(xmit, nWritten + 1) /\ nWritten' = nWritten + 1
    /\ IF stopped THEN UNCHANGED <<ier, ierHw, threIp>> ELSE StartTx
    /\ UNCHANGED <<thr, rxf, oe, line, stopped, xchar, saved, ctl, nXchar,
                   nCon, opens, nTermios, hist>>

\* stop_tty/uart_stop and start_tty/uart_start.
UartStop ==
    /\ TtyReady /\ ~stopped
    /\ stopped' = TRUE /\ StopTx
    /\ UNCHANGED <<thr, rxf, oe, line, xmit, xchar, saved, ctl, cnt, hist>>

UartStart ==
    /\ TtyReady /\ stopped
    /\ stopped' = FALSE /\ StartTx
    /\ UNCHANGED <<thr, rxf, oe, line, xmit, xchar, saved, ctl, cnt, hist>>

\* uart_send_xchar.
UartSendXchar ==
    /\ TtyReady /\ xchar = 0 /\ nXchar < MaxXchar
    /\ xchar' = nXchar + 1 /\ nXchar' = nXchar + 1
    /\ StartTx
    /\ UNCHANGED <<thr, rxf, oe, line, xmit, stopped, saved, ctl, nWritten,
                   nCon, opens, nTermios, hist>>

(***************************************************************************)
(* Open (uart_startup: startup, then set_termios), set_termios on an open  *)
(* port, and close (uart_close: wait until sent, stop_rx, shutdown).       *)
(***************************************************************************)
\* serial8250_do_startup up to setup_irq, without the port lock: FIFOs
\* cleared and disabled, LSR, RX, IIR and MSR read and discarded.
StartupClear ==
    /\ life = "closed" /\ opens < MaxOpens
    /\ ClearFifos
    /\ oe' = FALSE
    /\ discarded' = discarded \cup Ids(rxf) \cup ovl /\ ovl' = {}
    /\ life' = "thre_test" /\ opens' = opens + 1
    /\ UNCHANGED <<ierHw, line, drv, lock, hpc, hlsr, cpc, csaved, cleft,
                   tpc, nWritten, nXchar, nCon, nTermios, delivered, arrived,
                   lost, dropped>>

\* The THRE and TXEN tests under the port lock: IER toggled between THRI
\* and 0, IIR read after each THRI write; IER is 0 and THRE cleared after.
StartupTest ==
    /\ life = "thre_test" /\ lock = "none"
    /\ WaitForXmitr
    /\ ierHw' = {} /\ threIp' = FALSE
    /\ life' = "reset"
    /\ UNCHANGED <<thr, line, ier, xmit, stopped, xchar, lock, hpc, hlsr,
                   cpc, csaved, cleft, tpc, cnt, hist>>

\* The end of serial8250_do_startup: LSR, RX, IIR, MSR read again, the
\* saved flags cleared, and up->ier set to RLSI|RDI for set_termios.
StartupDone ==
    /\ life = "reset"
    /\ rxf' = IF rxf = <<>> THEN rxf ELSE Tail(rxf)
    /\ oe' = FALSE /\ saved' = {}
    /\ discarded' = discarded \cup ovl \cup (IF rxf = <<>> THEN {} ELSE {Head(rxf).id})
    /\ ovl' = {}
    /\ ier' = {"rlsi", "rdi"}
    /\ life' = "init"
    /\ UNCHANGED <<ierHw, thr, threIp, line, xmit, stopped, xchar, lock, hpc,
                   hlsr, cpc, csaved, cleft, tpc, cnt, delivered, arrived,
                   lost, dropped>>

\* serial8250_do_set_termios under the port lock: IER written from up->ier
\* (no MSI, UUE or RTOIE), FCR rewritten without clearing the FIFOs.
SetTermios ==
    /\ tpc = "idle" /\ lock = "none"
    /\ \/ life = "init" /\ UNCHANGED nTermios
       \/ life = "open" /\ nTermios < MaxTermios /\ nTermios' = nTermios + 1
    /\ WriteIer(ier)
    /\ tpc' = "rx"
    /\ UNCHANGED <<thr, rxf, oe, line, drv, lock, hpc, hlsr, cpc, csaved,
                   cleft, life, nWritten, nXchar, nCon, opens, hist>>

\* The last statement of serial8250_do_set_termios, after the unlock:
\* serial_port_in(port, UART_RX). The open completes with it.
SetTermiosRx ==
    /\ tpc = "rx"
    /\ rxf' = IF rxf = <<>> THEN rxf ELSE Tail(rxf)
    /\ tpc' = "idle"
    /\ life' = IF life = "init" THEN "open" ELSE life
    /\ UNCHANGED <<ierHw, thr, threIp, oe, line, drv, lock, hpc, hlsr, cpc,
                   csaved, cleft, cnt, hist>>

\* serial8250_stop_rx.
StopRx ==
    /\ ier' = ier \ {"rlsi", "rdi"}
    /\ WriteIer(ier \ {"rlsi", "rdi"})

\* uart_close: uart_wait_until_sent until tx_empty (with the tty stopped
\* the closing_wait timeout gives up on the buffer), then stop_rx.
UartClose ==
    /\ life = "open" /\ tpc = "idle" /\ lock = "none"
    /\ xmit = <<>> \/ stopped
    /\ TxEmpty
    /\ StopRx
    /\ life' = "shutdown"
    /\ UNCHANGED <<thr, line, xmit, stopped, xchar, lock, hpc, hlsr, cpc,
                   csaved, cleft, tpc, cnt, hist>>

\* serial8250_do_shutdown under the port lock: up->ier = 0, IER = 0.
ShutdownIer ==
    /\ life = "shutdown" /\ lock = "none"
    /\ ier' = {} /\ WriteIer({})
    /\ life' = "release"
    /\ UNCHANGED <<thr, rxf, oe, line, xmit, stopped, xchar, saved, lock,
                   hpc, hlsr, cpc, csaved, cleft, tpc, cnt, hist>>

\* The rest of serial8250_do_shutdown, after synchronize_irq: FIFOs
\* cleared, RX read, the irq released; uart_shutdown frees the buffer and
\* the next open starts a new tty.
ShutdownRelease ==
    /\ life = "release" /\ hpc = "idle"
    /\ ClearFifos
    /\ xmit' = <<>> /\ stopped' = FALSE
    /\ discarded' = discarded \cup Ids(rxf)
    /\ dropped' = dropped \cup Range(xmit)
                  \cup {thr[i][2] : i \in {j \in DOMAIN thr : thr[j][1] = "t"}}
    /\ life' = "closed"
    /\ UNCHANGED <<ierHw, oe, line, ier, xchar, saved, lock, hpc, hlsr, cpc,
                   csaved, cleft, tpc, cnt, delivered, arrived, lost, ovl>>

(***************************************************************************)
(* Bounded inputs exhausted and nothing in flight: the port idles.         *)
(***************************************************************************)
Idle ==
    /\ hpc = "idle" /\ cpc = "idle" /\ tpc = "idle" /\ lock = "none"
    /\ thr = <<>> /\ ~IntLine
    /\ UNCHANGED vars

Next ==
    \/ TxShift \/ RxArrive
    \/ HandlerEnter \/ DefaultHandleIrq \/ HandleIrq \/ RxChars \/ HandleIrqTx
    \/ ConsoleWrite \/ ConsolePutchar \/ ConsoleRestore
    \/ UartWrite \/ UartStop \/ UartStart \/ UartSendXchar
    \/ StartupClear \/ StartupTest \/ StartupDone
    \/ SetTermios \/ SetTermiosRx
    \/ UartClose \/ ShutdownIer \/ ShutdownRelease
    \/ Idle

\* The UART shifts characters out at the line rate (no flow control); an
\* asserted interrupt is taken; the handler, a console write, an open, a
\* set_termios and a close that have begun run to their end. The tty's
\* calls, the peer, printk and the start of open/close are not forced.
Fairness ==
    /\ WF_vars(TxShift)
    /\ WF_vars(HandlerEnter) /\ WF_vars(DefaultHandleIrq)
    /\ WF_vars(HandleIrq) /\ WF_vars(RxChars) /\ WF_vars(HandleIrqTx)
    /\ WF_vars(ConsolePutchar) /\ WF_vars(ConsoleRestore)
    /\ WF_vars(StartupTest) /\ WF_vars(StartupDone)
    /\ WF_vars(life = "init" /\ SetTermios) /\ WF_vars(SetTermiosRx)
    /\ WF_vars(ShutdownIer) /\ WF_vars(ShutdownRelease)

Spec == Init /\ [][Next]_vars /\ Fairness

-----------------------------------------------------------------------------
Chars == {"t", "c", "x"} \X Nat

TypeOK ==
    /\ ierHw \subseteq IerBits /\ ier \subseteq IerBits /\ csaved \subseteq IerBits
    /\ thr \in Seq(Chars) /\ line \in Seq(Chars) /\ threIp \in BOOLEAN
    /\ rxf \in Seq([id : 1..MaxRx, pe : BOOLEAN]) /\ Len(rxf) <= RxFifoSize
    /\ oe \in BOOLEAN /\ saved \subseteq ErrBits /\ hlsr \subseteq {"dr", "thre"} \cup ErrBits
    /\ xmit \in Seq(1..MaxTx) /\ stopped \in BOOLEAN /\ xchar \in 0..MaxXchar
    /\ lock \in {"none", "irq", "con"}
    /\ hpc \in {"idle", "iir", "lock", "rx", "tail"}
    /\ cpc \in {"idle", "put", "exit"} /\ cleft \in 0..MaxCon
    /\ life \in {"closed", "thre_test", "reset", "init", "open", "shutdown", "release"}
    /\ tpc \in {"idle", "rx"}
    /\ nWritten \in 0..MaxTx /\ nXchar \in 0..MaxXchar /\ nCon \in 0..MaxCon
    /\ opens \in 0..MaxOpens /\ nTermios \in 0..MaxTermios

\* The tty's characters, in the order they are on the line, in the FIFO and
\* still in the circ buffer.
TtyIds(s) == LET t == SelectSeq(s, LAMBDA c : c[1] = "t")
             IN [i \in DOMAIN t |-> t[i][2]]

RealChars == SelectSeq(delivered, LAMBDA e : e.flag # "overrun")

\* IER as the UART holds it is up->ier whenever no console_write is between
\* saving and restoring it and no open is between its THRE test and
\* set_termios: every IER write of the driver goes through up->ier, and
\* console_write puts back what it read.
IerInSync == cpc = "idle" /\ life \notin {"reset", "init"} => ierHw = ier

\* serial8250_tx_chars, stop_tx/start_tx and the console's use of the
\* transmitter send every character written to the tty once, in the order
\* written; only a close may discard the ones not yet sent.
TxInOrder ==
    TtyIds(line \o thr) \o xmit = SetToSortSeq((1..nWritten) \ dropped, <)

\* serial8250_read_char hands the tty only characters the line received,
\* in arrival order, each once, with TTY_PARITY exactly when that character
\* arrived with a parity error, although the error bits may have been
\* read from LSR (and kept in lsr_saved_flags) by console_write or
\* tx_empty before the handler reads the character.
RxDeliveredFaithfully ==
    LET d == RealChars IN
    /\ \A i \in DOMAIN d :
          d[i].id \in DOMAIN arrived /\ (d[i].flag = "parity") = arrived[d[i].id]
    /\ IsSorted([i \in DOMAIN d |-> d[i].id], <)

\* OE is still pending somewhere the next serial8250_read_char will see it.
OePending == oe \/ "oe" \in saved \/ (hpc = "rx" /\ "oe" \in hlsr)

\* No received character disappears silently: each is delivered, still in
\* the FIFO, discarded by an open or a close, or lost to an overrun whose
\* OE will still reach the tty as a TTY_OVERRUN entry.
RxAccounted ==
    /\ Ids(RealChars) \cup Ids(rxf) \cup lost \cup discarded = DOMAIN arrived
    /\ ovl # {} => OePending

\* Once the tty has written characters and is not stopped, the THRE
\* interrupt chain (start_tx setting THRI, IIR, serial8250_tx_chars) sends
\* them all, whatever console writes, receive interrupts and stop/start
\* calls come in between, unless the port is closed.
TxDrains ==
    (life = "open" /\ xmit # <<>> /\ ~stopped)
        ~> (xmit = <<>> \/ stopped \/ life # "open")
=============================================================================
