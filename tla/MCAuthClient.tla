---------------------------- MODULE MCAuthClient ----------------------------
(* One connection, two keys of each kind, every message a peer can send.   *)
EXTENDS AuthClient

CONSTANTS s1, s2, g1, g2, zero

MCSessionKeys == {s1, s2}
MCGameKeys == {g1, g2}
=============================================================================
