----------------------------- MODULE MessageFifo -----------------------------
(***************************************************************************)
(* What the SVFW layers promise the services above them: the messages one  *)
(* side sends reach the other side's handler once each, in the order they  *)
(* were sent, until the channel breaks; a broken channel delivers nothing. *)
(***************************************************************************)
EXTENDS Naturals, Sequences

VARIABLES posted,    \* the messages sent, by number
          handled,   \* those the receiving side has handled, by number
          broken     \* TRUE once the receiving side has given up

fifoVars == << posted, handled, broken >>

FifoInit ==
    /\ posted = << >>
    /\ handled = << >>
    /\ broken = FALSE

Post ==
    /\ posted' = Append(posted, Len(posted) + 1)
    /\ UNCHANGED << handled, broken >>

HandleNext ==
    /\ ~broken
    /\ Len(handled) < Len(posted)
    /\ handled' = Append(handled, posted[Len(handled) + 1])
    /\ UNCHANGED << posted, broken >>

Break ==
    /\ broken' = TRUE
    /\ UNCHANGED << posted, handled >>

FifoNext == Post \/ HandleNext \/ Break

FifoSpec == FifoInit /\ [][FifoNext]_fifoVars
=============================================================================
