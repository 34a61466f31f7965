---------------------------- MODULE MCUdpChannel ----------------------------
(* UdpChannel for TLC: endpoints are interchangeable. *)
EXTENDS UdpChannel, TLC

Symmetry == Permutations(Endpoints)

\* Bound: a behaviour is followed until it has had both a race on Clients and a
\* refused send.  Each is followed to its end without the other; what a race does to
\* the table and the reset a refused send ends the loop with do not depend on each
\* other.
RaceOrRefusal == ~ (raced /\ unreachable)
=============================================================================
