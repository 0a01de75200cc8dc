---------------------------- MODULE MCRpcChannel ----------------------------
EXTENDS RpcChannel, TLC
CallPermutations == Permutations(Calls)
=============================================================================
