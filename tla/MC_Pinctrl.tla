----------------------------- MODULE MC_Pinctrl -----------------------------
EXTENDS Pinctrl

\* Two CPUs; GPIO 1 and 2 share the 16-pin bank, 17 is in the 4-pin UART0 bank.
MCOwn == [c \in Callers |-> IF c = "c1" THEN {1, 17} \cap Pins ELSE {2}]
MCTypes == [p \in Pins |-> CASE p = 1 -> "both"
                             [] p = 2 -> "rising"
                             [] OTHER -> "falling"]
=============================================================================
