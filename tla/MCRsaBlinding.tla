---------------------------- MODULE MCRsaBlinding ----------------------------
(* A key of one prime: the contexts of two are made in the same way.  Threads *)
(* are interchangeable.                                                       *)
EXTENDS RsaBlinding, TLC

OnePrime == << "p" >>
ThreadSymmetry == Permutations(Threads)
=============================================================================
