----------------------------- MODULE MacLinkMC ------------------------------
(* Small instances of MacLink for TLC.                                      *)
EXTENDS MacLink, TLC

\* The protocol tells neither stations nor payloads of one kind apart.
Symmetry == Permutations(Nodes) \cup Permutations(Hubs) \cup Permutations(DownPkts)
=============================================================================
