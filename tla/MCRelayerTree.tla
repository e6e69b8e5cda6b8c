---------------------------- MODULE MCRelayerTree ---------------------------
(***************************************************************************)
(* A small instance of RelayerTree: groups of two leaves.                  *)
(***************************************************************************)
EXTENDS RelayerTree

CONSTANTS leaf_a, leaf_b

PairCommitments == {<<leaf_a, leaf_b>>, <<ZeroNote, ZeroNote>>}

=============================================================================
