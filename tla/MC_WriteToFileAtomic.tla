------------------------ MODULE MC_WriteToFileAtomic ------------------------
(* Model-checking instances of WriteToFileAtomic: two bytes of data, so    *)
(* that write() can be partial; one-character suffixes drawn from bytes   *)
(* 0, 62 (both 'a') and 1 ('b'), so that a new temp name can collide with *)
(* a stale or a concurrent one; one crash.                                *)
EXTENDS WriteToFileAtomic

CONSTANTS w1, w2

MCOneWriter == {w1}
MCTwoWriters == {w1, w2}
MCRandBytes == {0, 52, 62}
=============================================================================
