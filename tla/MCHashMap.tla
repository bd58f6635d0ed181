----------------------------- MODULE MCHashMap ------------------------------
(* Instances of HashMap for TLC.                                           *)
EXTENDS HashMap, Functions

CONSTANT HashVals

\* All pairs of hashes in which no two keys share a hash value: siphash over 64
\* bits makes a shared value improbable, shared slots remain.
MCHashFamily ==
  {h \in [Keys -> [1..2 -> HashVals]] :
     \A k, l \in Keys : k # l => \A m, n \in 1..2 : h[k][m] # h[l][n]}

MCSizes == <<3, 7>>
=============================================================================
