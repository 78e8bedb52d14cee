---------------------------------- MODULE MCLte ----------------------------------
EXTENDS Lte, TLC

\* The defaults of new_lte.
MCConfigs ==
    {[named |-> TRUE, baud |-> 3000000, parity |-> "N", data_bit |-> 8, stop_bit |-> 1]}

MCOrigLine == [speed |-> 115200, bits |-> 8, stop |-> 1, parity |-> "N", raw |-> FALSE]

\* Addresses are alike.
MCSymmetry == Permutations(Handles)
==============================================================================
