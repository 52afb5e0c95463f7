------------------------------ MODULE MCEtharp ------------------------------
(* Instances of Etharp for TLC.                                            *)
EXTENDS Etharp, TLC

CONSTANT h1

\* Every interface reaches the outside through the same host.
MCGateway == [n \in Netifs |-> h1]

\* What the other variables become, and the invariants that are checked, do not
\* depend on the ARP frames sent last or on the history of re-requests.
MCView == <<arp_table, etharp_cached_entry, held, up, configured, out>>

MCSymmetry == Permutations(Macs) \cup Permutations(Pbufs) \cup Permutations(Netifs)

=============================================================================
