------------------------------- MODULE MCDhcp -------------------------------
(* Small instances of Dhcp for TLC.                                        *)
EXTENDS Dhcp, TLC

\* Transaction identifiers, addresses and interfaces are interchangeable.
MCSymmetry == Permutations(Xids) \cup Permutations(Ips) \cup Permutations(Netifs)
=============================================================================
