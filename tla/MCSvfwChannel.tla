--------------------------- MODULE MCSvfwChannel ---------------------------
(* Up to two messages with payloads at the boundaries of the lengths: the   *)
(* headers' sizes, one byte, none, and the last size that fits the prefix   *)
(* (65484 for an encrypted request) with its neighbours.                    *)
EXTENDS SvfwChannel

MCPlainLengths == {0, 1, 12, 28, 65484, 65485, 65511, 65512}
=============================================================================
