---------------------------- MODULE MCCpuAverage ----------------------------
(***************************************************************************)
(* Every sum of 9 bits, signed and unsigned, on up to 24 ranks, with a    *)
(* double of 7 bits that does not hold them all, and every float of 9      *)
(* bits: a Float16 of 6 bits has fewer exponents and a shorter mantissa,   *)
(* and a BFloat16 of 6 bits the same exponents.                            *)
(***************************************************************************)
EXTENDS CpuAverage
=============================================================================
