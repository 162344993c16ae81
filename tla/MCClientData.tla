---------------------------- MODULE MCClientData ----------------------------
(* The client data on a small instance: the graphs are interchangeable.     *)
EXTENDS ClientData, TLC

\* The driver whose uploads can go well and badly in every way there is: one
\* that is refused because the name exists is one that fails.
MCConfigured == {Ftp}

GraphSymmetry == Permutations(Graphs)
=============================================================================
