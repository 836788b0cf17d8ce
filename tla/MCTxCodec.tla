----------------------------- MODULE MCTxCodec -----------------------------
(* None must compare with numbers: -1 stands for an absent field.           *)
EXTENDS TxCodec

MCNone == -1
\* Chain ids around the boundaries of v: 27 and 28 are also pre-EIP-155 v's, 35
\* the first EIP-155 v.
MCChainIds == {1, 2, 13, 27, 28, 34, 35, 36}
MCZeroChain == {0}
MCWildVs == 0..38
=============================================================================
