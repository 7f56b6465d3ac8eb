--------------------------- MODULE MC_UdcEndpoint ---------------------------
(* Instantiates UdcEndpoint with some of the controller's endpoints. Each  *)
(* .cfg picks a few of them (Eps) and the requests used on them (Reqs).    *)
EXTENDS UdcEndpoint

\* ep1in:  bulk IN, channel 2, completion deferred to bulkin_work
\* ep3in:  bulk IN, channel 4
\* ep4in:  UAC IN, also mapped to channel 4 (mcm_in[epnum - 2])
\* ep5in:  UVC isochronous IN, channel 0, completion deferred to uvcin_work,
\*         disable deferred to uvcin_done_work
\* ep7in:  interrupt IN, register FIFO, completion inline
\* ep1out: bulk OUT, channel 5, completion inline
MCEndpoints == {"ep1in", "ep3in", "ep4in", "ep5in", "ep7in", "ep1out"}
MCEpNum == [e \in MCEndpoints |->
              CASE e = "ep3in" -> 3 [] e = "ep4in" -> 4 [] e = "ep5in" -> 5
                [] e = "ep7in" -> 7 [] OTHER -> 1]
MCEpIn == [e \in MCEndpoints |-> e # "ep1out"]
MCReqEp == [r \in {"a1", "a2", "b1", "b2", "c1", "c2", "d1", "d2", "e1", "e2", "f1"} |->
              CASE r \in {"a1", "a2"} -> "ep1in"
                [] r \in {"b1", "b2"} -> "ep7in"
                [] r \in {"c1", "c2"} -> "ep1out"
                [] r \in {"d1", "d2"} -> "ep5in"
                [] r \in {"e1", "e2"} -> "ep3in"
                [] OTHER -> "ep4in"]

\* The usb_ep_ops each configuration lets the gadget call, per endpoint.
MCAllOps == [e \in Eps |-> {"enable", "disable", "queue", "dequeue", "halt"}]
MCUvcOps == [e \in Eps |-> {"enable", "disable", "queue"}]
MCDequeueOps == [e \in Eps |-> {"enable", "queue", "dequeue"}]
\* ep5in only comes and goes; the others are never disabled (see README)
MCInlineOps == [e \in Eps |-> IF IsUvc(e) THEN {"enable", "disable"}
                                ELSE {"enable", "queue"}]
=============================================================================
