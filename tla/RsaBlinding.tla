----------------------------- MODULE RsaBlinding -----------------------------
(***************************************************************************)
(* The private operations of one RSA key that several threads share: the   *)
(* sessions of both services decrypt requests and encrypt replies with the *)
(* key of their server, on their own threads, through RSACipher and the    *)
(* OpenSSL of this repository (rsa_ossl.c, rsa_crpt.c, bn_blind.c,         *)
(* bn_mont.c).                                                             *)
(*                                                                         *)
(* An operation multiplies its number by a blinding factor A, raises it to *)
(* the private exponent, and multiplies it by Ai, which undoes A.  The     *)
(* thread that made the key's blinding uses it without a lock; all others  *)
(* share a second one under its lock, and take a copy of Ai along.  Both   *)
(* halves are squared between two uses and drawn anew after a number of    *)
(* uses.  Montgomery contexts are made by whoever needs them first.        *)
(*                                                                         *)
(* A half of a blinding is known by the draw it comes of and how often it  *)
(* was squared since; halves that are the same undo one another.           *)
(***************************************************************************)
EXTENDS Integers, Sequences

CONSTANTS Threads,      \* threads that use the key
          NoThread,     \* nobody
          Primes,       \* the primes of the key, in the order their contexts are made
          Counter,      \* BN_BLINDING_COUNTER: uses between two draws
          MaxOps,       \* bound: operations begun
          MaxFailures   \* bound: steps that fail for want of memory or entropy

ASSUME NoThreadIsNone == NoThread \notin Threads
ASSUME CounterIsPositive == Counter \in Nat \ {0}
ASSUME PrimesAreListed == Primes \in Seq({Primes[i] : i \in DOMAIN Primes})
ASSUME BoundsAreNatural == MaxOps \in Nat /\ MaxFailures \in Nat

VARIABLES
    pc,         \* where each thread is in its operation
    todo,       \* the moduli it still needs a Montgomery context of
    local,      \* local_blinding: it uses the key's own blinding
    factor,     \* the half its number is blinded with, and what undoes that
    unblind,    \* its copy of Ai, if the blinding is shared
    failed,     \* history: a step of its operation has failed, and it goes on
    rsaLock,    \* rsa->lock
    sharedLock, \* the lock of the shared blinding
    blinding,   \* rsa->blinding and rsa->mt_blinding
    mont,       \* rsa->_method_mod_*: the thread that made each context
    freed,      \* contexts that were made and freed, by maker and modulus
    draws,      \* draws of a factor so far
    used,       \* history: the factors numbers were blinded with
    reused,     \* history: one of them twice, with no failure to draw another
    ops,        \* operations begun
    failures    \* steps that have failed

threadVars == << pc, todo, local, factor, unblind, failed >>
contextVars == << mont, freed >>
drawVars == << draws, used, reused >>
vars == << threadVars, rsaLock, sharedLock, blinding, contextVars, drawVars, ops, failures >>

Moduli == {"n"} \cup {Primes[i] : i \in DOMAIN Primes}
Labels == {"idle", "context", "made", "enter", "setupOwn", "setupShared", "convert",
           "squareAi", "squareA", "recreate", "multiply", "power"}
Kinds == {"encrypt", "decrypt"}
Which == {"own", "shared"}

Halves == [draw : Nat, squarings : Nat]
NoHalf == [draw |-> 0, squarings |-> 0]
Half(d) == [draw |-> d, squarings |-> 0]
Squared(h) == [h EXCEPT !.squarings = @ + 1]

Factors == [by : Halves, undo : Halves]
NoFactor == [by |-> NoHalf, undo |-> NoHalf]
BlindingStructs ==
    [owner : Threads \cup {NoThread}, A : Halves, Ai : Halves, count : -1 .. Counter - 1,
     context : Threads \cup {NoThread}]
NoBlinding == [owner |-> NoThread, A |-> NoHalf, Ai |-> NoHalf, count |-> -1,
               context |-> NoThread]

IsMade(b) == b # NoBlinding

Mine(t) == IF local[t] THEN "own" ELSE "shared"

-----------------------------------------------------------------------------
Init ==
    /\ pc = [t \in Threads |-> "idle"]
    /\ todo = [t \in Threads |-> << >>]
    /\ local = [t \in Threads |-> FALSE]
    /\ factor = [t \in Threads |-> NoFactor]
    /\ unblind = [t \in Threads |-> NoHalf]
    /\ failed = [t \in Threads |-> FALSE]
    /\ rsaLock = NoThread /\ sharedLock = NoThread
    /\ blinding = [w \in Which |-> NoBlinding]
    /\ mont = [m \in Moduli |-> NoThread] /\ freed = {}
    /\ draws = 0 /\ used = {} /\ reused = FALSE
    /\ ops = 0 /\ failures = 0

Goto(t, label) == pc' = [pc EXCEPT ![t] = label]

\* rsa_ossl_private_encrypt sets the context of the modulus before it blinds,
\* rsa_ossl_private_decrypt does not.
Begin(t, kind) ==
    /\ pc[t] = "idle" /\ ops < MaxOps
    /\ ops' = ops + 1
    /\ todo' = [todo EXCEPT ![t] = IF kind = "encrypt" THEN << "n" >> ELSE << >>]
    /\ Goto(t, IF kind = "encrypt" THEN "context" ELSE "enter")
    /\ UNCHANGED << local, factor, unblind, failed, rsaLock, sharedLock, blinding, contextVars,
                    drawVars, failures >>

\* The operation is over, and what it knew goes with it.
Return(t) ==
    /\ todo' = [todo EXCEPT ![t] = << >>]
    /\ local' = [local EXCEPT ![t] = FALSE]
    /\ factor' = [factor EXCEPT ![t] = NoFactor]
    /\ unblind' = [unblind EXCEPT ![t] = NoHalf]
    /\ failed' = [failed EXCEPT ![t] = FALSE]
    /\ Goto(t, "idle")

-----------------------------------------------------------------------------
(* BN_MONT_CTX_set_locked *)

IsMissing(m) == mont[m] = NoThread

\* Where a thread goes when it has the contexts it set out for.
ContextsReady(t) == Goto(t, IF factor[t] = NoFactor THEN "enter" ELSE "power")

\* The contexts that are there are passed over, and the first that is missing is
\* made without a lock.  That it is one step makes no difference: a context that is
\* there stays.
ReadContexts(t) ==
    /\ pc[t] = "context"
    /\ rsaLock = NoThread
    /\ \E i \in 0 .. Len(todo[t]) :
           /\ \A j \in 1 .. i : ~ IsMissing(todo[t][j])
           /\ i < Len(todo[t]) => IsMissing(todo[t][i + 1])
           /\ todo' = [todo EXCEPT ![t] = SubSeq(@, i + 1, Len(@))]
           /\ IF i = Len(todo[t]) THEN ContextsReady(t) ELSE Goto(t, "made")
    /\ UNCHANGED << local, factor, unblind, failed, rsaLock, sharedLock, blinding,
                    contextVars, drawVars, ops, failures >>

\* Faulty variant: the last to come wins.
Install_Last(t, m) ==
    /\ mont' = [mont EXCEPT ![m] = t]
    /\ freed' = IF IsMissing(m) THEN freed ELSE freed \cup {<< mont[m], m >>}

\* The locked compare and set: who comes second frees the context it has made.
Install(t, m) ==
    IF IsMissing(m)
      THEN mont' = [mont EXCEPT ![m] = t] /\ UNCHANGED freed
      ELSE freed' = freed \cup {<< t, m >>} /\ UNCHANGED mont

SetContext(t) ==
    /\ pc[t] = "made"
    /\ rsaLock = NoThread
    /\ Install(t, Head(todo[t]))
    /\ todo' = [todo EXCEPT ![t] = Tail(@)]
    /\ IF todo'[t] = << >> THEN ContextsReady(t) ELSE Goto(t, "context")
    /\ UNCHANGED << local, factor, unblind, failed, rsaLock, sharedLock, blinding,
                    drawVars, ops, failures >>

-----------------------------------------------------------------------------
(* rsa_get_blinding *)

\* The blinding is ours (BN_BLINDING_is_current_thread), or we use the shared one;
\* the lock of the key is given back unless that is still to be made.
Choose(t, own) ==
    /\ local' = [local EXCEPT ![t] = (own.owner = t)]
    /\ IF own.owner = t \/ IsMade(blinding["shared"])
         THEN Goto(t, "convert") /\ rsaLock' = NoThread
         ELSE Goto(t, "setupShared") /\ rsaLock' = t

EnterRsa(t) ==
    /\ pc[t] = "enter"
    /\ rsaLock = NoThread
    /\ IF IsMade(blinding["own"])
         THEN Choose(t, blinding["own"])
         ELSE Goto(t, "setupOwn") /\ rsaLock' = t /\ UNCHANGED local
    /\ UNCHANGED << todo, factor, unblind, failed, sharedLock, blinding, contextVars,
                    drawVars, ops, failures >>

\* RSA_setup_blinding: a factor is drawn, its halves made, and the blinding takes
\* along the context of the modulus, if there is one.
NewBlinding(t) ==
    [owner |-> t, A |-> Half(draws + 1), Ai |-> Half(draws + 1), count |-> -1,
     context |-> mont["n"]]

SetupOwn(t) ==
    /\ pc[t] = "setupOwn"
    /\ draws' = draws + 1
    /\ blinding' = [blinding EXCEPT !["own"] = NewBlinding(t)]
    /\ Choose(t, NewBlinding(t))
    /\ UNCHANGED << todo, factor, unblind, failed, sharedLock, contextVars, used, reused,
                    ops, failures >>

SetupShared(t) ==
    /\ pc[t] = "setupShared"
    /\ draws' = draws + 1
    /\ blinding' = [blinding EXCEPT !["shared"] = NewBlinding(t)]
    /\ rsaLock' = NoThread
    /\ Goto(t, "convert")
    /\ UNCHANGED << todo, local, factor, unblind, failed, sharedLock, contextVars, used,
                    reused, ops, failures >>

-----------------------------------------------------------------------------
(* rsa_blinding_convert: BN_BLINDING_convert_ex, under the lock if it is shared *)

\* Faulty variant: the shared blinding is not locked.
MayConvert_Always(t) == TRUE

MayConvert(t) == local[t] \/ sharedLock = NoThread

\* A fresh blinding is used as it is, another is updated first: each Counter-th
\* time it is drawn anew, else squared.
Update(count) ==
    IF count = -1 THEN "multiply" ELSE IF count + 1 = Counter THEN "recreate" ELSE "squareAi"

Convert(t) ==
    /\ pc[t] = "convert" /\ MayConvert(t)
    /\ sharedLock' = IF local[t] THEN sharedLock ELSE t
    /\ Goto(t, Update(blinding[Mine(t)].count))
    /\ blinding' = [blinding EXCEPT ![Mine(t)].count = IF @ = -1 THEN 0 ELSE (@ + 1) % Counter]
    /\ UNCHANGED << todo, local, factor, unblind, failed, rsaLock, contextVars, drawVars,
                    ops, failures >>

SquareAi(t) ==
    /\ pc[t] = "squareAi"
    /\ blinding' = [blinding EXCEPT ![Mine(t)].Ai = Squared(@)]
    /\ Goto(t, "squareA")
    /\ UNCHANGED << todo, local, factor, unblind, failed, rsaLock, sharedLock,
                    contextVars, drawVars, ops, failures >>

SquareA(t) ==
    /\ pc[t] = "squareA"
    /\ blinding' = [blinding EXCEPT ![Mine(t)].A = Squared(@)]
    /\ Goto(t, "multiply")
    /\ UNCHANGED << todo, local, factor, unblind, failed, rsaLock, sharedLock,
                    contextVars, drawVars, ops, failures >>

\* BN_BLINDING_create_param on a blinding that exists.
Recreate(t) ==
    /\ pc[t] = "recreate"
    /\ draws' = draws + 1
    /\ blinding' = [blinding EXCEPT ![Mine(t)].A = Half(draws + 1), ![Mine(t)].Ai = Half(draws + 1)]
    /\ Goto(t, "multiply")
    /\ UNCHANGED << todo, local, factor, unblind, failed, rsaLock, sharedLock,
                    contextVars, used, reused, ops, failures >>

\* A re-creation that fails returns the blinding all the same, so the update goes
\* on with what there is: the halves as they were, or a new A that is not yet what
\* Ai undoes, with Ai new or old.
RecreateFails(t) ==
    /\ pc[t] = "recreate" /\ failures < MaxFailures
    /\ failures' = failures + 1
    /\ failed' = [failed EXCEPT ![t] = TRUE]
    /\ draws' = draws + 2
    /\ LET b == blinding[Mine(t)]
       IN  \E h \in {b} \cup {[b EXCEPT !.A = Half(draws + 1), !.Ai = i] :
                                  i \in {b.Ai, Half(draws + 2)}} :
               blinding' = [blinding EXCEPT ![Mine(t)] = h]
    /\ Goto(t, "multiply")
    /\ UNCHANGED << todo, local, factor, unblind, rsaLock, sharedLock, contextVars, used,
                    reused, ops >>

\* Ai is copied if the blinding is shared, the number is blinded and the lock given
\* back; rsa_ossl_mod_exp begins with the contexts of the primes and the modulus.
Multiply(t) ==
    /\ pc[t] = "multiply"
    /\ unblind' = [unblind EXCEPT ![t] = IF local[t] THEN NoHalf ELSE blinding["shared"].Ai]
    /\ LET b == blinding[Mine(t)]
       IN  /\ factor' = [factor EXCEPT ![t] = [by |-> b.A, undo |-> b.Ai]]
           /\ used' = used \cup {b.A}
           /\ reused' = (reused \/ (b.A \in used /\ ~ failed[t]))
    /\ sharedLock' = IF local[t] THEN sharedLock ELSE NoThread
    /\ todo' = [todo EXCEPT ![t] = Append(Primes, "n")]
    /\ Goto(t, "context")
    /\ UNCHANGED << local, failed, rsaLock, blinding, contextVars, draws, ops, failures >>

-----------------------------------------------------------------------------
\* Faulty variant: what undoes the factor is read from the blinding.
Inverse_Stored(t) == blinding[Mine(t)].Ai

\* rsa_blinding_invert: the stored half if the blinding is ours, else the copy.
Inverse(t) == IF local[t] THEN blinding["own"].Ai ELSE unblind[t]

\* rsa_ossl_mod_exp computes with the contexts of the key, and the factor is undone.
Invert(t) ==
    /\ pc[t] = "power"
    /\ Return(t)
    /\ UNCHANGED << rsaLock, sharedLock, blinding, contextVars, drawVars, ops, failures >>

-----------------------------------------------------------------------------
(* Failures: the operation ends with an error, and what it held is given back. *)

\* The labels at which a thread holds a lock.
InShared(t) == pc[t] \in {"squareAi", "squareA", "recreate", "multiply"} /\ ~ local[t]
InRsa(t) == pc[t] \in {"setupOwn", "setupShared"}

\* Faulty variant: the early return forgets the lock.
Release_Forgotten(t) == UNCHANGED << rsaLock, sharedLock >>

Release(t) ==
    /\ rsaLock' = IF InRsa(t) THEN NoThread ELSE rsaLock
    /\ sharedLock' = IF InShared(t) THEN NoThread ELSE sharedLock

\* A failure to square A leaves Ai squared, as an update squares Ai first.
Fail(t) ==
    /\ failures < MaxFailures
    /\ pc[t] \notin {"idle", "context", "enter", "recreate"}
    /\ failures' = failures + 1
    /\ Release(t)
    /\ Return(t)
    /\ UNCHANGED << blinding, contextVars, drawVars, ops >>

-----------------------------------------------------------------------------
Step(t) ==
    \/ ReadContexts(t) \/ SetContext(t)
    \/ EnterRsa(t) \/ SetupOwn(t) \/ SetupShared(t)
    \/ Convert(t) \/ SquareAi(t) \/ SquareA(t) \/ Recreate(t) \/ Multiply(t)
    \/ Invert(t)

Next ==
    \E t \in Threads :
        \/ \E kind \in Kinds : Begin(t, kind)
        \/ Step(t)
        \/ RecreateFails(t) \/ Fail(t)

Spec == Init /\ [][Next]_vars

-----------------------------------------------------------------------------
(* Properties *)

\* What each variable holds.
TypeOK ==
    /\ pc \in [Threads -> Labels]
    /\ todo \in [Threads -> Seq(Moduli)]
    /\ local \in [Threads -> BOOLEAN] /\ failed \in [Threads -> BOOLEAN]
    /\ factor \in [Threads -> Factors]
    /\ unblind \in [Threads -> Halves]
    /\ rsaLock \in Threads \cup {NoThread} /\ sharedLock \in Threads \cup {NoThread}
    /\ blinding \in [Which -> BlindingStructs]
    /\ mont \in [Moduli -> Threads \cup {NoThread}] /\ freed \subseteq Threads \X Moduli
    /\ draws \in Nat /\ used \subseteq Halves /\ reused \in BOOLEAN
    /\ ops \in Nat /\ failures \in Nat

\* However the threads interleave, a number is undone with what belonged to the
\* factor it was blinded with, also when other operations have failed meanwhile;
\* and the two halves undo one another as long as no step of any operation has
\* failed (rsa_blinding_convert, rsa_blinding_invert).
ResultsAreRight ==
    \A t \in Threads : pc[t] = "power" =>
        /\ Inverse(t) = factor[t].undo
        /\ failures = 0 => factor[t].by = factor[t].undo

\* No two numbers are blinded with one factor, not even by threads that share the
\* blinding, unless the draw of another factor failed (BN_BLINDING_update).
NoFactorTwice == ~ reused

\* A thread that computes finds every context it computes with, and neither the key
\* nor a blinding holds on to a context that lost the race to be installed
\* (BN_MONT_CTX_set_locked, and m_ctx of a blinding).
ContextsOutliveUsers ==
    /\ \A t \in Threads : pc[t] = "power" => \A m \in Moduli : mont[m] # NoThread
    /\ \A m \in Moduli : << mont[m], m >> \notin freed
    /\ \A w \in Which : << blinding[w].context, "n" >> \notin freed

\* A lock is held by a thread on its way through what it guards, and by one at a
\* time, so that who waits for it gets it: whatever fails in there gives it back
\* (rsa_get_blinding, rsa_blinding_convert).
LocksAreGivenBack ==
    /\ \A t \in Threads : rsaLock = t <=> InRsa(t)
    /\ \A t \in Threads : sharedLock = t <=> InShared(t)
=============================================================================
