------------------------------ MODULE MCUdpLink ------------------------------
(* Finite instances of UdpLink. *)
EXTENDS UdpLink, TLC

\* The hosts are interchangeable; used by the safety run only.
PeerSymmetry == Permutations(Peers)
=============================================================================
