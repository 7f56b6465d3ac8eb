----------------------------- MODULE MC_I2cPlic -----------------------------
(***************************************************************************)
(* Instances of I2cPlic: two harts, an RX FIFO of two bytes, up to two   *)
(* disable_irq calls, and scripts of up to four short transfers.          *)
(***************************************************************************)
EXTENDS I2cPlic

W(k) == [dir |-> "w", n |-> k]
R(k) == [dir |-> "r", n |-> k]

\* Writes that fill the FIFO, back-to-back reads and writes, and
\* alternating directions.
ServedScripts == {<<W(3), R(2)>>, <<R(1), R(1)>>, <<W(2), W(2)>>,
                  <<R(2), W(1), R(1)>>, <<W(1), R(1), W(2), R(1)>>}

\* Two transfers whose STOP and next bytes can meet in one interrupt.
OrderScripts == {<<W(1), W(1)>>}
=============================================================================
