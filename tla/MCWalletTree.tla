---------------------------- MODULE MCWalletTree ----------------------------
(***************************************************************************)
(* A small instance of WalletTree.                                         *)
(***************************************************************************)
EXTENDS WalletTree

CONSTANTS leaf_a, leaf_b

\* Groups of four leaves: one and three of them, a foreign and an empty group.
MCTxs ==
  {LeafTx(<<leaf_a>>), LeafTx(<<leaf_a, leaf_b, leaf_a>>),
   CommitmentTx(<<leaf_b, leaf_a, leaf_a, leaf_b>>),
   CommitmentTx(<<ZeroNote, ZeroNote, ZeroNote, ZeroNote>>)}

\* A partial tree may skip one, two or three groups.
MCSkippedParts ==
  {<<leaf_a, leaf_b, leaf_b, ZeroNote>>,
   <<leaf_b, ZeroNote, ZeroNote, ZeroNote, leaf_a, leaf_b, leaf_a, ZeroNote>>,
   [k \in 1..12 |-> IF k % 2 = 0 THEN leaf_a ELSE leaf_b]}

=============================================================================
