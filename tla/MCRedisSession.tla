--------------------------- MODULE MCRedisSession ---------------------------
(* Small instances of RedisSession for TLC.                                *)
EXTENDS RedisSession, TLC

\* The processes are interchangeable: no definition names one of them.
Symmetry == Permutations(Procs)
=============================================================================
