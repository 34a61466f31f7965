---------------------------- MODULE AuthProtocol ----------------------------
(***************************************************************************)
(* What one authentication session promises its peer, with every detail of *)
(* sockets, tasks, ciphers and parsing left out.  The server answers the   *)
(* four requests of the protocol in their fixed order, may hang up between *)
(* any two of them, may answer the second one with a refusal, after which  *)
(* it answers nothing, and gives the address of the game server only to a  *)
(* peer that has brought back the key issued in this very session.         *)
(* AuthClient is shown to implement this specification.                    *)
(***************************************************************************)
EXTENDS Naturals, Sequences

CONSTANTS GameKeys,   \* keys the server may issue for the game traffic
          NoKey       \* no key: what the key is before one is issued

\* The answers of a session that runs to its end, in order.
Answers == << "HandshakeReply", "ServiceStatus", "KeyMaterial", "ServerInfo" >>

VARIABLES answered,   \* the answers given so far, by name
          issued,     \* the game key issued in this session
          presented,  \* the key in the ticket the server accepted
          serving     \* FALSE once the server has hung up or refused

protocolVars == << answered, issued, presented, serving >>

ProtocolInit ==
    /\ answered = << >>
    /\ issued = NoKey
    /\ presented = NoKey
    /\ serving = TRUE

Answer(n) ==
    /\ serving
    /\ Len(answered) = n - 1
    /\ answered' = Append(answered, Answers[n])

AnswerHandshake == Answer(1) /\ UNCHANGED << issued, presented, serving >>

AnswerStatus == Answer(2) /\ UNCHANGED << issued, presented, serving >>

IssueKey ==
    /\ Answer(3)
    /\ issued' \in GameKeys
    /\ UNCHANGED << presented, serving >>

Admit ==
    /\ Answer(4)
    /\ presented' = issued
    /\ UNCHANGED << issued, serving >>

Refuse ==
    /\ serving
    /\ Len(answered) = 1
    /\ answered' = Append(answered, "Refusal")
    /\ serving' = FALSE
    /\ UNCHANGED << issued, presented >>

HangUp ==
    /\ serving
    /\ serving' = FALSE
    /\ UNCHANGED << answered, issued, presented >>

ProtocolNext ==
    \/ AnswerHandshake
    \/ AnswerStatus
    \/ IssueKey
    \/ Admit
    \/ Refuse
    \/ HangUp

ProtocolSpec == ProtocolInit /\ [][ProtocolNext]_protocolVars
=============================================================================
