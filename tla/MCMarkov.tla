------------------------------ MODULE MCMarkov ------------------------------
(***************************************************************************)
(* A small instance of Markov.  In tables of the first size 9 and 21 want  *)
(* the slot of 0, in those of the second 21 wants that of 0 and 9 that of  *)
(* 2, so that tables grow by one size and by two.                          *)
(***************************************************************************)
EXTENDS Markov

\* All words of up to two letters, and some of three.
MCWords == UNION {[1..n -> {2, 9, 21}] : n \in 0..2}
           \union {<<2, 9, 21>>, <<21, 9, 2>>, <<9, 9, 9>>, <<9, 21, 9>>}
=============================================================================
