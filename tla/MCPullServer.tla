---------------------------- MODULE MCPullServer ----------------------------
(* PullServer with interchangeable clients, for model checking.            *)
EXTENDS PullServer, TLC

ClientSymmetry == Permutations(Clients)
=============================================================================
