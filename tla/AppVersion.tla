----------------------------- MODULE AppVersion -----------------------------
(***************************************************************************)
(* The version gate of the authentication service: AcvAppVersion and       *)
(* AcvVersion, their comparisons, and the range a client's version is held *)
(* against.  An app version is a 64 bit number of two words: Unk00 above,  *)
(* the four version bytes below.  Words are compared as the code compares  *)
(* them, the upper unsigned and the lower as a signed number.              *)
(***************************************************************************)
EXTENDS Integers

CONSTANT UIntRange   \* the number of values of a word, a uint: 2^32 in the code

\* What the proofs take of it: as many words are negative as are not.
RangeIsEven == UIntRange \in Nat /\ UIntRange > 0 /\ UIntRange % 2 = 0

UInts == 0 .. UIntRange - 1
AppVersions == 0 .. UIntRange * UIntRange - 1

\* AcvAppVersion(ulong): the bytes in big endian order, four and four.
Unk00(v) == v \div UIntRange
Version(v) == v % UIntRange

\* (int)AcvVersion: the four bytes as a two's complement number.
AsInt(w) == IF w < UIntRange \div 2 THEN w ELSE w - UIntRange

\* operator < of AcvAppVersion; operator > is the same with a and b swapped.
Less(a, b) ==
    /\ Unk00(a) < Unk00(b)
    /\ AsInt(Version(a)) < AsInt(Version(b))

-----------------------------------------------------------------------------
VARIABLES minimum, maximum,   \* MinimumVersion and MaximumVersion of AuthConfig
          user,               \* the version a client has sent
          verdict             \* what the client was told

versionVars == << minimum, maximum, user, verdict >>

\* A range is configured; no client has been asked yet.
VersionInit ==
    /\ minimum \in AppVersions
    /\ maximum \in minimum .. UIntRange * UIntRange - 1
    /\ user = minimum
    /\ verdict = "none"

Verdict(u) ==
    IF Less(u, minimum) THEN "belowMinimum"
    ELSE IF Less(maximum, u) THEN "aboveMaximum"
    ELSE "served"

CheckVersion(u) ==
    /\ user' = u
    /\ verdict' = Verdict(u)
    /\ UNCHANGED << minimum, maximum >>

VersionNext == \E u \in AppVersions : CheckVersion(u)

VersionSpec == VersionInit /\ [][VersionNext]_versionVars

-----------------------------------------------------------------------------
(* Properties *)

\* The range, the client's version and the verdict.
VersionTypeOK ==
    /\ minimum \in AppVersions
    /\ maximum \in AppVersions
    /\ user \in AppVersions
    /\ verdict \in {"none", "served", "belowMinimum", "aboveMaximum"}

\* A client is turned away only if its version, read as the number it was sent
\* as, lies outside the configured range, and on the side it is told
\* (belowMinimumVersion and aboveMaximumVersion of the status handler).
RefusedOnlyOutsideRange ==
    /\ verdict = "belowMinimum" => user < minimum
    /\ verdict = "aboveMaximum" => user > maximum

\* The versions at the two ends of the range are served, although the two
\* comparisons look at the words one by one.
EndsOfRangeServed ==
    verdict # "none" /\ user \in {minimum, maximum} => verdict = "served"

\* What SVFWRequestMessage.proto says of the status response: an older version
\* of the game is turned away.
OlderVersionsRefused ==
    verdict = "served" => user >= minimum
=============================================================================
