-------------------------------- MODULE MCPage --------------------------------
EXTENDS Page, TLC

TwoRecords == {DefaultSettings, [enabled |-> FALSE, collapsed |-> TRUE]}

Symmetric == Permutations(RHosts) \cup Permutations(RGroups)
=============================================================================
