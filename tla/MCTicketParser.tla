--------------------------- MODULE MCTicketParser ---------------------------
(* TicketParser for TLC: payloads cut at every byte of a ticket, and whole. *)
EXTENDS TicketParser

AllLengths == 0 .. 150
=============================================================================
