----------------------------- MODULE MCLteHandle -----------------------------
EXTENDS LteHandle

Cfg(named, baud, parity, data, stop) ==
    [named |-> named, baud |-> baud, parity |-> parity,
     data_bit |-> data, stop_bit |-> stop]

\* The default of new_lte, a rate without a case and 261 data bits (5 once
\* stored), a parity module_new refuses, and arguments it refuses at once.
MCConfigs == {Cfg(TRUE, 3000000, "N", 8, 1),
              Cfg(TRUE, 14400, "E", 261, 2),
              Cfg(TRUE, 9600, "X", 8, 1),
              Cfg(TRUE, 0, "N", 8, 1)}

MCOrigLine == [speed |-> 115200, bits |-> 8, stop |-> 1,
               parity |-> "N", raw |-> FALSE]
==============================================================================
