------------------------------ MODULE MCWallet ------------------------------
(***************************************************************************)
(* Instances of Wallet: transactions of others that hold no note, or two   *)
(* notes for the wallet, which a transaction may take at once; a transfer  *)
(* to another and to the wallet itself, a deposit and a withdrawal.        *)
(***************************************************************************)
EXTENDS Wallet

Own(b) == [own |-> TRUE, b |-> b]
Other(b) == [own |-> FALSE, b |-> b]

MCForeignTxs == {<<>>, <<Own(1), Own(2)>>}

MakeRequest(type, amount, fee, energy, outputs) ==
  [type |-> type, amount |-> amount, fee |-> fee, energy |-> energy, outputs |-> outputs]

MCRequests ==
  {MakeRequest("transfer", 0, 1, 0, <<Other(1), Own(1)>>),
   MakeRequest("deposit", 1, 0, 0, <<>>),
   MakeRequest("withdraw", 1, 0, 1, <<>>)}

OverspendRequests == {MakeRequest("withdraw", 1, 1, 0, <<>>)}
=============================================================================
