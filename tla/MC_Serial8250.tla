---------------------------- MODULE MC_Serial8250 ----------------------------
(***************************************************************************)
(* Instances of Serial8250: two tty characters and one XON/XOFF          *)
(* character, a one-character console message, three received characters *)
(* into a two-character FIFO (so that the third overruns), one open, and  *)
(* set_termios on the open port only where a configuration asks for it.   *)
(***************************************************************************)
EXTENDS Serial8250
=============================================================================
