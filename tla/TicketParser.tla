---------------------------- MODULE TicketParser ----------------------------
(***************************************************************************)
(* Ticket.Parse: a ticket is read field by field, each after the type and  *)
(* the length in front of it.  The contents are what they may be; what     *)
(* counts is where the parser reads, and how it ends.                      *)
(*                                                                         *)
(* The readers of BinaryBufferReader test that the first byte of a number  *)
(* is in the payload, and not the others: a number cut by the end of the   *)
(* payload is completed by whatever lies behind it, and the offset goes on *)
(* past the end.  Spans are tested whole.                                  *)
(***************************************************************************)
EXTENDS Naturals, Sequences

CONSTANTS PayloadLengths, \* bytes of the payload
          FieldLengths    \* lengths a string or a binary field may give

ASSUME LengthsAreNatural == PayloadLengths \subseteq Nat /\ FieldLengths \subseteq Nat

VARIABLES
    length,  \* bytes of the payload
    field,   \* the field that is read next; 0 is the header
    offset,
    peeked,  \* the type of the next field was seen to be Empty
    outcome, \* "reading", "parsed", or the exception: "refused" is the parser's own,
             \* "outOfRange" an index or a span outside the payload, "date" no date
    reach    \* history: the end of the furthest bytes that were read

vars == << length, field, offset, peeked, outcome, reach >>

\* The fields of ReadUserdata and ReadSignature.
Layout == << "Blob", "Binary", "U32", "Time", "Time", "U64", "BString", "Binary",
             "BString", "Binary", "U32", "Cookie", "Empty", "Empty",
             "Blob", "Binary", "Binary" >>

\* The length a field must give, and the bytes of its number.
Width == [U32 |-> 4, U64 |-> 8, Time |-> 8, Empty |-> 0]

HeaderLength == 8

\* Faulty variant: the end of the payload is taken for a byte of it.
CanRead_Inclusive(at) == at <= length

\* Faulty variant: the readers take the address of the byte without the test.
CanRead_Untested(at) == TRUE

\* ref buffer[at] is in the payload.
CanRead(at) == at < length

\* Faulty variant: a span may end one byte behind the payload.
CanSlice_OffByOne(at, n) == at + n <= length + 1

CanSlice(at, n) == at + n <= length

\* The runtime's own exceptions, which TryParse lets through.
OutsideThrows == "outOfRange"

\* A string is read up to its terminator: the offset moves by its whole length,
\* or by that of the payload when the string is longer.
StringLength(n) == IF n < length THEN n ELSE length

-----------------------------------------------------------------------------
Init ==
    /\ length \in PayloadLengths
    /\ field = 0
    /\ offset = 0
    /\ peeked = FALSE
    /\ outcome = "reading"
    /\ reach = 0

\* Bytes up to end were read.
Touch(end) == reach' = IF end > reach THEN end ELSE reach

Fails(how) ==
    /\ outcome' = how
    /\ UNCHANGED << length, field, offset, peeked >>

IsLast(f) == f = Len(Layout)

\* The field is read; the next begins at end.
Passes(end) ==
    /\ offset' = end
    /\ field' = field + 1
    /\ peeked' = FALSE
    /\ outcome' = IF IsLast(field) THEN "parsed" ELSE "reading"
    /\ UNCHANGED length

\* Version and size.  The size is compared with the payload and not used again.
ReadHeader ==
    /\ outcome = "reading"
    /\ field = 0
    /\ \/ /\ ~ (CanRead(0) /\ CanRead(4))
          /\ Fails(OutsideThrows)
          /\ Touch(IF CanRead(0) THEN 4 ELSE 0)
       \/ /\ CanRead(0) /\ CanRead(4)
          /\ Fails("refused")
          /\ Touch(HeaderLength)
       \/ /\ CanRead(0) /\ CanRead(4)
          /\ HeaderLength <= length
          /\ Passes(HeaderLength)
          /\ Touch(HeaderLength)

\* Whether the parser is at a field of one of these kinds.
At(kinds) ==
    /\ outcome = "reading"
    /\ field > 0
    /\ Layout[field] \in kinds

\* The type or the length in front of a field lies outside the payload.
HeadOutside ==
    /\ outcome = "reading"
    /\ field > 0
    /\ \/ ~ CanRead(offset) /\ UNCHANGED reach
       \/ CanRead(offset) /\ ~ CanRead(offset + 2) /\ Touch(offset + 2)
    /\ Fails(OutsideThrows)

\* Expect: another type than the one due, which was not seen by the peek, or
\* another length than the one due.
HeadRefused ==
    /\ outcome = "reading"
    /\ field > 0
    /\ CanRead(offset)
    /\ \/ ~ peeked /\ Touch(offset + 2)
       \/ Layout[field] \in DOMAIN Width /\ CanRead(offset + 2) /\ Touch(offset + 4)
    /\ Fails("refused")

HeadRead == CanRead(offset) /\ CanRead(offset + 2)

Body == offset + 4

\* The userdata and signature blobs: their length is not looked at.
ReadBlob ==
    /\ At({"Blob"})
    /\ HeadRead
    /\ Passes(Body)
    /\ Touch(Body)

ReadNumber ==
    /\ At({"U32", "U64", "Time"})
    /\ HeadRead
    /\ IF CanRead(Body)
         THEN /\ Touch(Body + Width[Layout[field]])
              /\ \/ Passes(Body + Width[Layout[field]])
                 \/ Layout[field] = "Time" /\ Fails("date")
         ELSE /\ Touch(Body)
              /\ Fails(OutsideThrows)

\* PeekTicketDataType: there is no cookie.
PeekEmpty ==
    /\ At({"Cookie"})
    /\ CanRead(offset)
    /\ field' = field + 1
    /\ peeked' = TRUE
    /\ Touch(offset + 2)
    /\ UNCHANGED << length, offset, outcome >>

ReadEmpty ==
    /\ At({"Empty"})
    /\ HeadRead
    /\ Passes(Body)
    /\ Touch(Body)

ReadBinary ==
    /\ At({"Binary", "Cookie"})
    /\ HeadRead
    /\ \E n \in FieldLengths :
          IF CanSlice(Body, n)
            THEN Passes(Body + n) /\ Touch(Body + n)
            ELSE Fails(OutsideThrows) /\ Touch(Body)

\* A terminator inside the payload ends a string that goes on behind it.
ReadBString ==
    /\ At({"BString"})
    /\ HeadRead
    /\ \E n \in FieldLengths :
          LET end == Body + StringLength(n) IN
          \/ CanSlice(Body, StringLength(n)) /\ Passes(end) /\ Touch(end)
          \/ /\ ~ CanSlice(Body, StringLength(n))
             /\ Body < length
             /\ Passes(end)
             /\ Touch(length)
          \/ ~ CanSlice(Body, StringLength(n)) /\ Fails(OutsideThrows) /\ Touch(Body)

Next ==
    \/ ReadHeader
    \/ HeadOutside
    \/ HeadRefused
    \/ ReadBlob
    \/ ReadNumber
    \/ PeekEmpty
    \/ ReadEmpty
    \/ ReadBinary
    \/ ReadBString

Spec == Init /\ [][Next]_vars

-----------------------------------------------------------------------------
(* Properties *)

TypeOK ==
    /\ length \in PayloadLengths
    /\ field \in 0 .. Len(Layout) + 1
    /\ outcome = "reading" => field <= Len(Layout)
    /\ offset \in Nat /\ reach \in Nat
    /\ peeked \in BOOLEAN
    /\ outcome \in {"reading", "parsed", "refused", "outOfRange", "date"}

\* A ticket that was parsed lies in the payload, every byte of it: that the last
\* field is a tested span vouches for all the numbers before it.
\* (Ticket.ReadSignature, BinaryBufferReader)
ParsedInside == outcome = "parsed" => offset <= length /\ reach <= length

\* No read goes further than seven bytes past the end of the payload, however
\* long the fields say they are.  (BinaryBufferReader, Ticket.Expect)
ReadsStayNear == reach <= length + 7

\* A field that ran past the end of the payload is the last one: the very next read
\* ends the parse, with an exception of whichever kind, and no later field is made
\* of bytes that are not the payload's.  (Ticket.Expect, BinaryBufferReader)
OverrunIsNoticed ==
    [][offset > length =>
          field' = field /\ offset' = offset /\ outcome' \notin {"reading", "parsed"}]_vars
=============================================================================
