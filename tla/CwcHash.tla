------------------------------- MODULE CwcHash -------------------------------
(***************************************************************************)
(* The Carter-Wegman hash under the tag of a CWC message: do_cwc and the   *)
(* end of cwc_compute_tag, in the form that computes with four words of    *)
(* 32 bits (USE_LONGS of cwc.c).  A message is hashed block by block: the  *)
(* block is added to the hash, and the sum multiplied with the key modulo  *)
(* 2^127 - 1.  A number of four words is the number it stands for; that it *)
(* has no room for more than four is part of every operation.              *)
(***************************************************************************)
EXTENDS Integers

CONSTANTS Word,   \* the number of values of a word: 2^32 in the code
          z       \* zval, the key of the hash

Size == Word * Word * Word * Word       \* the values of four words
Half == Size \div 2                     \* the top bit of four words
Modulus == Half - 1
Blocks == 0 .. Word * Word * Word - 1   \* three words of input

\* A word has a top bit; the key has its own cleared.
KeyFits ==
    /\ Word \in Nat /\ Word >= 4 /\ Word % 2 = 0
    /\ z \in 0 .. Half - 1

VARIABLES hash,     \* the running hash value, the upper four words of ctx->hash
          exact     \* history: what it should be modulo Modulus

hashVars == << hash, exact >>

\* The last word takes no carry out.
add_4(l, r) == (l + r) % Size

\* A top bit is worth one: it is cleared, and be_inc counts it.
FoldTop(x) == IF x >= Half THEN x - Half + 1 ELSE x

Product(h, data) == add_4(data, h) * z

\* The upper and the lower half of the product, in units of Half: the upper four
\* words are doubled and take over the top bit of the lower four.
Upper(p) == add_4(p \div Size, p \div Size) + (IF p % Size >= Half THEN 1 ELSE 0)
Lower(p) == IF p % Size >= Half THEN (p % Size) - Half ELSE p % Size

do_cwc(h, data) ==
    LET p == Product(h, data) IN FoldTop(add_4(Upper(p), Lower(p)))

\* cwc_init_message
HashInit == hash = 0 /\ exact = 0

Hash(data) ==
    /\ hash' = do_cwc(hash, data)
    /\ exact' = ((exact + data) * z) % Modulus

HashNext == \E data \in Blocks : Hash(data)

HashSpec == HashInit /\ [][HashNext]_hashVars

\* cwc_compute_tag: the lengths of header and text are added at the end, in the
\* second and the fourth of four words.
Lengths(header, text) == header * Word * Word + text
Finish(h, header, text) == FoldTop(add_4(h, Lengths(header, text)))

-----------------------------------------------------------------------------
(* Properties *)

\* The carry out of the last word is not zero, and is gone.
CarryIsLost(h, data) == LET p == Product(h, data) IN Upper(p) + Lower(p) >= Size

\* The hash of the blocks so far is the remainder it stands for, if not the smallest
\* number with that remainder (the comment in do_cwc on the remainder when divided
\* by 2^127 - 1).
HashIsExact == hash % Modulus = exact

\* It leaves room for a block in four words.
HashFits == hash \in 0 .. Half
==============================================================================
