------------------------------ MODULE I2cSlave ------------------------------
(***************************************************************************)
(* The DesignWare I2C controller in slave mode and its interrupt handler   *)
(* (drivers/i2c/busses/i2c-designware-slave.c), with a master on the bus   *)
(* that runs one script of transfers.                                      *)
(*                                                                         *)
(* The controller is configured by i2c_dw_configure_fifo_slave with both   *)
(* FIFO thresholds 0 and, by the platform driver, RX_FIFO_FULL_HLD_CTRL    *)
(* and STOP_DET_IFADDRESSED: RX_FULL is raised while the RX FIFO holds a   *)
(* byte, a master writing into a full FIFO is held, RD_REQ is latched when *)
(* the master reads with the TX FIFO empty and the slave holds the clock   *)
(* until a byte is written, and STOP_DET is latched at the STOP of a       *)
(* transfer to this slave. A latch holds, as history, the number of the    *)
(* transfer that set it; a byte is named by its transfer and position.     *)
(*                                                                         *)
(* The handler is one step per block of i2c_dw_irq_handler_slave; the      *)
(* backend's i2c_slave_event callbacks are recorded in ev.                 *)
(***************************************************************************)
EXTENDS Naturals, Sequences, SequencesExt

CONSTANTS Scripts,    \* the scripts the master may run
          FifoDepth   \* depth of the RX FIFO

VARIABLES rxFifo, txFifo,   \* the controller's FIFOs
          rdReq, stopDet,   \* RD_REQ and STOP_DET latches: 0 or a transfer
          active,           \* STATUS.SLAVE_ACTIVITY
          status,           \* dev->status: {}, {"wip"} or {"rip"}
          isr,              \* where the handler is; "off" when not running
          stat,             \* the handler's INTR_STAT snapshot
          act,              \* the handler's slave_activity snapshot
          script, cur, phase, left, waiting,  \* the master
          sent, got, ev     \* history: bytes written, bytes read, callbacks

ivars == <<rxFifo, txFifo, rdReq, stopDet, active, status, isr, stat, act,
           script, cur, phase, left, waiting, sent, got, ev>>
master == <<script, cur, phase, left, waiting>>

MaxTx == CHOOSE m \in {Len(s) : s \in Scripts} :
            \A s \in Scripts : Len(s) <= m
MaxLen == CHOOSE m \in {x.n : x \in UNION {Range(s) : s \in Scripts}} :
            \A s \in Scripts : \A x \in Range(s) : x.n <= m

Byte == [t : 0..MaxTx, i : 0..MaxLen]
NoByte == [t |-> 0, i |-> 0]   \* what DATA_CMD returns with the RX FIFO empty

Events == {"write_requested", "write_received", "read_requested",
           "read_processed", "stop"}

Event(e, t, b) == [e |-> e, t |-> t, b |-> b]

\* The interrupt output: an unmasked interrupt of DW_IC_INTR_SLAVE_MASK is
\* raised (RX_FULL at RX_TL = 0, RD_REQ, STOP_DET).
Line == rxFifo # <<>> \/ rdReq # 0 \/ stopDet # 0

\* After i2c_dw_reg_slave: controller enabled, FIFOs empty, status idle.
Init ==
    /\ rxFifo = <<>> /\ txFifo = <<>>
    /\ rdReq = 0 /\ stopDet = 0 /\ active = FALSE
    /\ status = {} /\ isr = "off"
    /\ stat = [rx |-> FALSE, rd |-> 0, stop |-> 0] /\ act = FALSE
    /\ script \in Scripts /\ cur = 0 /\ phase = "idle" /\ left = 0
    /\ waiting = FALSE
    /\ sent = <<>> /\ got = <<>> /\ ev = <<>>

(***************************************************************************)
(* The master.                                                             *)
(***************************************************************************)

\* START and the slave's address, for the next transfer of the script.
MasterStart ==
    /\ phase = "idle" /\ cur < Len(script)
    /\ cur' = cur + 1
    /\ phase' = script[cur + 1].dir
    /\ left' = script[cur + 1].n
    /\ active' = TRUE
    /\ UNCHANGED <<rxFifo, txFifo, rdReq, stopDet, status, isr, stat, act,
                   script, waiting, sent, got, ev>>

\* A byte into the RX FIFO; the bus is held while the FIFO is full.
MasterWrite ==
    /\ phase = "w" /\ left > 0 /\ Len(rxFifo) < FifoDepth
    /\ LET b == [t |-> cur, i |-> script[cur].n - left + 1]
       IN  /\ rxFifo' = Append(rxFifo, b)
           /\ sent' = Append(sent, b)
    /\ left' = left - 1
    /\ UNCHANGED <<txFifo, rdReq, stopDet, active, status, isr, stat, act,
                   script, cur, phase, waiting, got, ev>>

\* The master clocks a read with the TX FIFO empty: RD_REQ, clock held.
MasterReadRequest ==
    /\ phase = "r" /\ left > 0 /\ ~waiting /\ txFifo = <<>>
    /\ rdReq' = cur /\ waiting' = TRUE
    /\ UNCHANGED <<rxFifo, txFifo, stopDet, active, status, isr, stat, act,
                   script, cur, phase, left, sent, got, ev>>

\* The master reads the byte at the head of the TX FIFO.
MasterRead ==
    /\ phase = "r" /\ left > 0 /\ txFifo # <<>>
    /\ got' = Append(got, [b |-> Head(txFifo), t |-> cur])
    /\ txFifo' = Tail(txFifo)
    /\ left' = left - 1 /\ waiting' = FALSE
    /\ UNCHANGED <<rxFifo, rdReq, stopDet, active, status, isr, stat, act,
                   script, cur, phase, sent, ev>>

\* STOP: STOP_DET is latched and the slave goes idle.
MasterStop ==
    /\ phase \in {"w", "r"} /\ left = 0
    /\ stopDet' = cur /\ active' = FALSE /\ phase' = "idle"
    /\ UNCHANGED <<rxFifo, txFifo, rdReq, status, isr, stat, act,
                   script, cur, left, waiting, sent, got, ev>>

Master == MasterStart \/ MasterWrite \/ MasterReadRequest \/ MasterRead
            \/ MasterStop

(***************************************************************************)
(* The handler.                                                            *)
(***************************************************************************)

\* i2c_dw_read_clear_intrbits_slave: INTR_STAT is read and the latched
\* bits it shows are cleared through their IC_CLR_* registers (RD_REQ is
\* not among them; RX_FULL follows the FIFO level).
ReadClearIntrbits ==
    /\ stat' = [rx |-> rxFifo # <<>>, rd |-> rdReq, stop |-> stopDet]
    /\ stopDet' = 0

\* Entry of i2c_dw_irq_handler_slave: ENABLE, RAW_INTR_STAT and STATUS are
\* read; with nothing raised the handler returns IRQ_NONE.
IsrEnter ==
    /\ isr = "off"
    /\ IF Line
       THEN /\ ReadClearIntrbits
            /\ act' = active
            /\ isr' = IF rxFifo # <<>> THEN "rx" ELSE "rd"
       ELSE /\ isr' = "ret"
            /\ UNCHANGED <<stat, act, stopDet>>
    /\ UNCHANGED <<rxFifo, txFifo, rdReq, active, status, master,
                   sent, got, ev>>

\* WRITE_IN_PROGRESS set without clearing READ_IN_PROGRESS.
IsrWriteRequestedKeepRead ==
    /\ isr = "rx"
    /\ IF "wip" \notin status
       THEN /\ status' = status \cup {"wip"}
            /\ ev' = Append(ev, Event("write_requested", Head(rxFifo).t,
                                      NoByte))
       ELSE UNCHANGED <<status, ev>>
    /\ isr' = "drain"
    /\ UNCHANGED <<rxFifo, txFifo, rdReq, stopDet, active, stat, act,
                   master, sent, got>>

\* RX_FULL: WRITE_REQUESTED unless a write is already in progress.
IsrWriteRequested ==
    /\ isr = "rx"
    /\ IF "wip" \notin status
       THEN /\ status' = {"wip"}
            /\ ev' = Append(ev, Event("write_requested", Head(rxFifo).t,
                                      NoByte))
       ELSE UNCHANGED <<status, ev>>
    /\ isr' = "drain"
    /\ UNCHANGED <<rxFifo, txFifo, rdReq, stopDet, active, stat, act,
                   master, sent, got>>

\* RFNE read before DATA_CMD instead of after it.
IsrDrainStaleCheck ==
    /\ isr = "drain"
    /\ LET b    == IF rxFifo = <<>> THEN NoByte ELSE Head(rxFifo)
           rest == IF rxFifo = <<>> THEN <<>> ELSE Tail(rxFifo)
       IN  /\ rxFifo' = rest
           /\ ev' = Append(ev, Event("write_received", b.t, b))
           /\ isr' = IF rxFifo # <<>> THEN "drain" ELSE "rd"
    /\ UNCHANGED <<txFifo, rdReq, stopDet, active, status, stat, act,
                   master, sent, got>>

\* One pass of the do/while: DATA_CMD is read, WRITE_RECEIVED is sent, and
\* the loop goes on while STATUS.RFNE shows another byte.
IsrDrain ==
    /\ isr = "drain"
    /\ LET b    == IF rxFifo = <<>> THEN NoByte ELSE Head(rxFifo)
           rest == IF rxFifo = <<>> THEN <<>> ELSE Tail(rxFifo)
       IN  /\ rxFifo' = rest
           /\ ev' = Append(ev, Event("write_received", b.t, b))
           /\ isr' = IF rest # <<>> THEN "drain" ELSE "rd"
    /\ UNCHANGED <<txFifo, rdReq, stopDet, active, status, stat, act,
                   master, sent, got>>

\* RD_REQ during slave activity: CLR_RD_REQ, READ_REQUESTED (the first
\* byte of a read), and the backend's byte into DATA_CMD.
IsrReadRequested ==
    /\ isr = "rd" /\ stat.rd # 0 /\ act /\ "rip" \notin status
    /\ rdReq' = 0
    /\ status' = {"rip"}
    /\ ev' = Append(ev, Event("read_requested", stat.rd, NoByte))
    /\ txFifo' = Append(txFifo, [t |-> stat.rd, i |-> 0])
    /\ isr' = "stop"
    /\ UNCHANGED <<rxFifo, stopDet, active, stat, act, master, sent, got>>

\* The READ_PROCESSED branch without the CLR_RD_REQ read.
IsrReadProcessedNoClear ==
    /\ isr = "rd" /\ stat.rd # 0 /\ act /\ "rip" \in status
    /\ ev' = Append(ev, Event("read_processed", stat.rd, NoByte))
    /\ txFifo' = Append(txFifo, [t |-> stat.rd, i |-> 0])
    /\ isr' = "stop"
    /\ UNCHANGED <<rxFifo, rdReq, stopDet, active, status, stat, act, master,
                   sent, got>>

\* RD_REQ during a read in progress: CLR_RD_REQ, READ_PROCESSED, the byte.
IsrReadProcessed ==
    /\ isr = "rd" /\ stat.rd # 0 /\ act /\ "rip" \in status
    /\ rdReq' = 0
    /\ ev' = Append(ev, Event("read_processed", stat.rd, NoByte))
    /\ txFifo' = Append(txFifo, [t |-> stat.rd, i |-> 0])
    /\ isr' = "stop"
    /\ UNCHANGED <<rxFifo, stopDet, active, status, stat, act, master,
                   sent, got>>

\* No RD_REQ in the snapshot, or no slave activity.
IsrNoReadRequest ==
    /\ isr = "rd" /\ ~(stat.rd # 0 /\ act)
    /\ isr' = "stop"
    /\ UNCHANGED <<rxFifo, txFifo, rdReq, stopDet, active, status, stat, act,
                   master, sent, got, ev>>

\* STOP_DET: SLAVE_STOP; then the handler returns.
IsrStop ==
    /\ isr = "stop"
    /\ IF stat.stop # 0
       THEN ev' = Append(ev, Event("stop", stat.stop, NoByte))
       ELSE UNCHANGED ev
    /\ isr' = "ret"
    /\ UNCHANGED <<rxFifo, txFifo, rdReq, stopDet, active, status, stat, act,
                   master, sent, got>>

IsrStep == IsrWriteRequested \/ IsrDrain \/ IsrReadRequested
             \/ IsrReadProcessed \/ IsrNoReadRequest \/ IsrStop

\* i2c_dw_isr_slave returns to the irq core.
IsrExit ==
    /\ isr = "ret"
    /\ isr' = "off"
    /\ UNCHANGED <<rxFifo, txFifo, rdReq, stopDet, active, status, stat, act,
                   master, sent, got, ev>>

\* The master's script is over and every byte it wrote has been handed on.
Received == [k \in 1..Len(SelectSeq(ev, LAMBDA x : x.e = "write_received"))
               |-> SelectSeq(ev, LAMBDA x : x.e = "write_received")[k].b]

AllServed == cur = Len(script) /\ phase = "idle" /\ Len(Received) = Len(sent)

I2cTypeOK ==
    /\ rxFifo \in Seq(Byte) /\ Len(rxFifo) <= FifoDepth
    /\ txFifo \in Seq(Byte)
    /\ rdReq \in 0..MaxTx /\ stopDet \in 0..MaxTx /\ active \in BOOLEAN
    /\ status \in {{}, {"wip"}, {"rip"}}
    /\ isr \in {"off", "rx", "drain", "rd", "stop", "ret"}
    /\ stat \in [rx : BOOLEAN, rd : 0..MaxTx, stop : 0..MaxTx]
    /\ act \in BOOLEAN
    /\ cur \in 0..MaxTx /\ phase \in {"idle", "w", "r"}
    /\ left \in 0..MaxLen /\ waiting \in BOOLEAN
    /\ sent \in Seq(Byte)
    /\ got \in Seq([b : Byte, t : 0..MaxTx])
    /\ ev \in Seq([e : Events, t : 0..MaxTx, b : Byte])

(***************************************************************************)
(* Properties of the handler.                                              *)
(***************************************************************************)

\* The WRITE_RECEIVED callbacks hand the backend exactly the bytes the
\* master wrote, in bus order, none lost and none twice: the RFNE-driven
\* drain loop of the RX_FULL branch against a master still writing.
WriteBytesInOrder == IsPrefix(Received, sent)

\* Every byte the master reads in a transfer is one the backend supplied
\* for an RD_REQ of that same transfer: one byte per RD_REQ, and no byte
\* left in the TX FIFO for a later read (CLR_RD_REQ in the RD_REQ branch).
ReadBytesOwnTransfer == \A k \in 1..Len(got) : got[k].b.t = got[k].t

\* The callbacks follow the bus: no callback for a transfer comes after a
\* callback of a later one, and SLAVE_STOP ends its transfer, with nothing
\* of the same or an earlier transfer after it. The handler's fixed order
\* RX_FULL, RD_REQ, STOP_DET is what this is about.
StopInBusOrder ==
    \A j, k \in 1..Len(ev) :
        j < k => /\ ev[j].t <= ev[k].t
                 /\ ev[j].e = "stop" => ev[j].t < ev[k].t
=============================================================================
