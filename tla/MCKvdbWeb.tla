----------------------------- MODULE MCKvdbWeb ------------------------------
(***************************************************************************)
(* Instances of KvdbWeb with two columns, as the commitment tree has its   *)
(* nodes and its indexes in columns that are written together.             *)
(***************************************************************************)
EXTENDS KvdbWeb

MCKeys == {<<0>>, <<0, 1>>}

PutOp(col, key, value) == [type |-> "put", col |-> col, key |-> key, value |-> value]
DeleteOp(col, key) == [type |-> "delete", col |-> col, key |-> key]
DeletePrefixOp(col, prefix) == [type |-> "delete_prefix", col |-> col, key |-> prefix]

MCBatches ==
  {<<PutOp(0, <<0>>, v)>> : v \in Values}
  \cup {<<PutOp(1, <<0, 1>>, v), PutOp(0, <<0>>, v)>> : v \in Values}
  \cup {<<DeleteOp(0, <<0>>), DeleteOp(1, <<0, 1>>)>>}

PrefixBatches ==
  {<<PutOp(0, <<0, 1>>, v)>> : v \in Values} \cup {<<DeletePrefixOp(0, <<0>>)>>}
=============================================================================
