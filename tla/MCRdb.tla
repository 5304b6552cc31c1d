------------------------------- MODULE MCRdb -------------------------------
(* Rdb on a small instance: three tasks, one unique key, an archive that   *)
(* keeps one task (MaxArchiveSize - 1), forwarding by twos, cleaning one by *)
(* one, and clock readings of two ticks.                                   *)
EXTENDS Rdb
=============================================================================
