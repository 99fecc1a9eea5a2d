------------------------------- MODULE MCAgent -------------------------------
(* The agent with a few connections.  Clients are alike, and so are the    *)
(* connections to dtcd.                                                    *)
EXTENDS Agent, TLC

Symmetry == Permutations(Client) \cup Permutations(Server)
====
