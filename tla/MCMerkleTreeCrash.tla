-------------------------- MODULE MCMerkleTreeCrash -------------------------
(***************************************************************************)
(* A small instance of MerkleTreeCrash: groups of two leaves.              *)
(***************************************************************************)
EXTENDS MerkleTreeCrash

CONSTANTS leaf_a, leaf_b

PairTxs == {LeafTx(<<leaf_a>>), CommitmentTx(<<leaf_a, leaf_b>>)}

PairPrefixes == {<<leaf_b, leaf_a, leaf_a, ZeroNote>>}

=============================================================================
