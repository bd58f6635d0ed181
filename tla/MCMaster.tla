------------------------------ MODULE MCMaster ------------------------------
(***************************************************************************)
(* A small instance of Master.  Hash blocks are of two words, so the       *)
(* arguments cut them at many places; lanes and blocks of Argon2 are few,  *)
(* with numbers of blocks that are rounded down; and the counter of the    *)
(* key stream carries every three blocks.                                  *)
(***************************************************************************)
EXTENDS Master

Config(algorithm, blocks, passes, lanes) ==
  [algorithm |-> algorithm, nb_blocks |-> blocks, nb_passes |-> passes, nb_lanes |-> lanes]

MCConfigs ==
  {Config(algorithm, 18, 2, 2) : algorithm \in {"argon2d", "argon2i", "argon2id"}}
    \union {Config("argon2id", 8, 8, 1), Config("argon2i", 30, 2, 1), Config("argon2d", 25, 2, 3), Config("argon2id", 34, 2, 2)}
=============================================================================
