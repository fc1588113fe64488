--------------------------- MODULE MCPeripherals ----------------------------
(* An instance of Peripherals for TLC. *)
EXTENDS Peripherals, TLC

CONSTANTS c1, c2, c3, c4, h1, h2, h3, i1, i2

CallSymmetry == Permutations({c1, c2, c3, c4}) \cup Permutations({h1, h2, h3})

=============================================================================
