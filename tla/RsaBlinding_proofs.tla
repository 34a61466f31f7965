-------------------------- MODULE RsaBlinding_proofs --------------------------
(***************************************************************************)
(* Proofs about the use of one RSA key by any number of threads.           *)
(***************************************************************************)
EXTENDS RsaBlinding, TLAPS

\* Between the choice of a blinding and the end of its use for the number.
Converting(t) == pc[t] \in {"convert", "squareAi", "squareA", "recreate", "multiply"}
Locked(t) == pc[t] \in {"squareAi", "squareA", "recreate", "multiply"}
IsBlinded(t) == factor[t] # NoFactor

\* A blinding that is not there is NoBlinding, all of it.
Made(w) == blinding[w].owner # NoThread
Blindings ==
    \A w \in Which : IF Made(w) THEN blinding[w].A.draw > 0 ELSE blinding[w] = NoBlinding

\* Where a thread is and what it has.
Stage(t) ==
    /\ pc[t] = "setupOwn" => ~ Made("own")
    /\ pc[t] = "setupShared" => ~ Made("shared")
    /\ local[t] => blinding["own"].owner = t
    /\ Converting(t) /\ ~ local[t] => Made("shared")
    /\ Locked(t) => blinding[Mine(t)].count # -1
    /\ IsBlinded(t) => pc[t] \in {"context", "made", "power"}
    /\ pc[t] = "power" => IsBlinded(t)
Stages == \A t \in Threads : Stage(t)

\* The other half of the factor a number is blinded with is where it is looked for.
Undo(t) ==
    IsBlinded(t) =>
        /\ Inverse(t) = factor[t].undo
        /\ failures = 0 => factor[t].by = factor[t].undo
Undoing == \A t \in Threads : Undo(t)

\* The halves of a blinding are the same, but for the moment when one is squared.
IsBetween(w) == \E t \in Threads : pc[t] = "squareA" /\ Mine(t) = w
Halved(w) ==
    blinding[w].Ai = IF IsBetween(w) THEN Squared(blinding[w].A) ELSE blinding[w].A
Halving == failures = 0 => \A w \in Which : Halved(w)

\* A factor is newer than those that were used of its draw, once it has been updated.
Older(h, w) ==
    h.draw = blinding[w].A.draw => h.squarings <= blinding[w].A.squarings /\ blinding[w].count # -1
Newest(h, w) ==
    h.draw = blinding[w].A.draw => h.squarings < blinding[w].A.squarings
Drawing ==
    /\ \A h \in used : h.draw \in 1 .. draws
    /\ \A w \in Which : blinding[w].A.draw <= draws
    /\ Made("own") /\ Made("shared") => blinding["own"].A.draw # blinding["shared"].A.draw
    /\ \A w \in Which, h \in used : Older(h, w)
    /\ \A t \in Threads, h \in used :
           pc[t] = "multiply" /\ ~ failed[t] => Newest(h, Mine(t))

\* Who needs a context has it or is going to make it; who has made one has not yet
\* installed it; and what was freed is in nobody's hands.
StillToMake(t, m) == \E i \in 1 .. Len(todo[t]) : todo[t][i] = m
Needs(t) ==
    /\ pc[t] = "made" => Len(todo[t]) > 0 /\ mont[todo[t][1]] # t
    /\ IsBlinded(t) => \A m \in Moduli :
           mont[m] = NoThread => pc[t] # "power" /\ StillToMake(t, m)
Contexts ==
    /\ \A t \in Threads : Needs(t)
    /\ \A t \in Threads, m \in Moduli :
           << t, m >> \in freed => mont[m] # NoThread /\ mont[m] # t
    /\ \A w \in Which : blinding[w].context # NoThread => blinding[w].context = mont["n"]

IInv ==
    /\ TypeOK /\ LocksAreGivenBack /\ Blindings /\ Stages
    /\ Undoing /\ Halving /\ Drawing /\ Contexts /\ NoFactorTwice

-----------------------------------------------------------------------------
(* What a step of one thread leaves alone *)

Others(t) ==
    \A u \in Threads \ {t} :
        /\ pc'[u] = pc[u] /\ todo'[u] = todo[u] /\ local'[u] = local[u]
        /\ factor'[u] = factor[u] /\ unblind'[u] = unblind[u] /\ failed'[u] = failed[u]

\* One thread at a time is in the middle of a blinding, and one only has its own.
LEMMA Exclusive ==
    ASSUME LocksAreGivenBack, Stages, NEW t \in Threads, NEW u \in Threads, t # u
    PROVE  /\ ~ (local[t] /\ local[u])
           /\ Locked(t) /\ Locked(u) => Mine(t) # Mine(u)
BY DEF LocksAreGivenBack, InShared, Stages, Stage, Locked, Mine

\* A step that leaves the blindings alone.
LEMMA BlindingsAlone ==
    ASSUME Blindings, Halving, Drawing, NEW t \in Threads, Others(t),
           blinding' = blinding, draws' = draws, used' = used,
           pc'[t] \notin {"squareA", "multiply"},
           failures' = 0 => failures = 0 /\ pc[t] # "squareA"
    PROVE  Blindings' /\ Halving' /\ Drawing'
<1>1. Blindings'
    BY DEF Blindings, Made
<1>2. Halving'
    <2> SUFFICES ASSUME failures' = 0, NEW w \in Which
                 PROVE  Halved(w)'
        BY DEF Halving
    <2>1. IsBetween(w)' <=> IsBetween(w)
        BY DEF IsBetween, Mine, Others
    <2> QED
        BY <2>1 DEF Halving, Halved
<1>3. Drawing'
    <2>1. ASSUME NEW u \in Threads, NEW h \in used', pc'[u] = "multiply", ~ failed'[u]
          PROVE  Newest(h, Mine(u))'
        BY <2>1 DEF Drawing, Newest, Mine, Others
    <2> QED
        BY <2>1 DEF Drawing, Older, Made
<1> QED
    BY <1>1, <1>2, <1>3

\* A step that changes one blinding: its factor is drawn anew, or it is kept and
\* perhaps squared.
LEMMA BlindingStep ==
    ASSUME TypeOK, TypeOK', Blindings, Halving, Drawing, NEW t \in Threads, Others(t),
           NEW w \in Which, \A v \in Which \ {w} : blinding'[v] = blinding[v],
           \A u \in Threads \ {t} : Locked(u) => Mine(u) # w,
           pc[t] = "squareA" => Mine(t) = w,
           pc'[t] \in {"squareA", "multiply"} => Mine(t)' = w,
           failures' = 0 =>
               /\ failures = 0
               /\ blinding'[w].Ai = IF pc'[t] = "squareA" THEN Squared(blinding'[w].A)
                                                         ELSE blinding'[w].A,
           used' = used, draws <= draws',
           Made(w)', blinding'[w].A.draw > 0,
           \/ blinding'[w].A.draw \in draws + 1 .. draws'
           \/ /\ blinding'[w].A.draw = blinding[w].A.draw
              /\ blinding'[w].A.squarings >= blinding[w].A.squarings
              /\ blinding'[w].count # -1
              /\ pc'[t] = "multiply" /\ ~ failed'[t] =>
                     \/ blinding'[w].A.squarings > blinding[w].A.squarings
                     \/ blinding[w].count = -1
    PROVE  Blindings' /\ Halving' /\ Drawing'
<1>0. /\ draws \in Nat /\ draws' \in Nat
      /\ \A h \in used : h.draw \in 1 .. draws /\ h.squarings \in Nat
      /\ \A v \in Which : /\ blinding[v].A.draw \in 0 .. draws /\ blinding[v].A.squarings \in Nat
                          /\ blinding'[v].A.draw \in Nat /\ blinding'[v].A.squarings \in Nat
    <2>1. draws \in Nat /\ draws' \in Nat /\ \A h \in used : h \in Halves
        BY DEF TypeOK
    <2>2. \A v \in Which : blinding[v].A \in Halves /\ blinding'[v].A \in Halves
        BY DEF TypeOK, BlindingStructs
    <2>3. \A h \in Halves : h.draw \in Nat /\ h.squarings \in Nat
        BY DEF Halves
    <2> QED
        BY <2>1, <2>2, <2>3 DEF Drawing
<1>1. Blindings'
    BY DEF Blindings, Made
<1>2. Halving'
    <2> SUFFICES ASSUME failures' = 0, NEW v \in Which
                 PROVE  Halved(v)'
        BY DEF Halving
    <2>1. CASE v = w
        <3>1. IsBetween(w)' <=> pc'[t] = "squareA"
            BY DEF IsBetween, Mine, Others, Locked
        <3> QED
            BY <2>1, <3>1 DEF Halved
    <2>2. CASE v # w
        <3>1. IsBetween(v)' <=> IsBetween(v)
            BY <2>2 DEF IsBetween, Mine, Others
        <3> QED
            BY <2>2, <3>1 DEF Halving, Halved
    <2> QED
        BY <2>1, <2>2
<1>3. Drawing'
    <2>1. /\ \A h \in used' : h.draw \in 1 .. draws'
          /\ \A v \in Which : blinding'[v].A.draw <= draws'
        BY <1>0
    <2>2. Made("own")' /\ Made("shared")' => blinding'["own"].A.draw # blinding'["shared"].A.draw
        BY <1>0 DEF Drawing, Made, Which, Blindings, NoBlinding, NoHalf
    <2>3. ASSUME NEW v \in Which, NEW h \in used'
          PROVE  Older(h, v)'
        <3>1. Older(h, v)
            BY DEF Drawing
        <3> QED
            BY <1>0, <3>1 DEF Older
    <2>4. ASSUME NEW u \in Threads, NEW h \in used', pc'[u] = "multiply", ~ failed'[u]
          PROVE  Newest(h, Mine(u))'
        <3>1. CASE u = t
            <4>1. Older(h, w) /\ Mine(u)' = w
                BY <2>4, <3>1 DEF Drawing
            <4> QED
                BY <1>0, <2>4, <3>1, <4>1 DEF Older, Newest
        <3>2. CASE u # t
            <4>1. Mine(u)' = Mine(u) /\ Mine(u) \in Which \ {w} /\ Newest(h, Mine(u))
                BY <2>4, <3>2 DEF Drawing, Mine, Others, Which, Locked
            <4> QED
                BY <4>1 DEF Newest
        <3> QED
            BY <3>1, <3>2
    <2> QED
        BY <2>1, <2>2, <2>3, <2>4 DEF Drawing
<1> QED
    BY <1>1, <1>2, <1>3

\* A step of a thread that has no number blinded when it is over.
LEMMA UndoingAlone ==
    ASSUME Undoing, NEW t \in Threads, Others(t), ~ IsBlinded(t)', failures' = 0 => failures = 0,
           \A u \in Threads \ {t} : local[u] => blinding'["own"].Ai = blinding["own"].Ai
    PROVE  Undoing'
<1> SUFFICES ASSUME NEW u \in Threads, u # t
             PROVE  Undo(u)'
    BY DEF Undoing, Undo
<1> QED
    BY DEF Undoing, Undo, Inverse, IsBlinded, Others

\* It leaves the contexts alone, but for a blinding that takes one along.
LEMMA ContextsAlone ==
    ASSUME Contexts, NEW t \in Threads, Others(t), ~ IsBlinded(t)', pc'[t] # "made",
           mont' = mont, freed' = freed,
           \A w \in Which : blinding'[w].context \in {blinding[w].context, mont["n"]}
    PROVE  Contexts'
<1>1. ASSUME NEW u \in Threads PROVE Needs(u)'
    <2>1. CASE u = t
        BY <2>1 DEF Needs
    <2>2. CASE u # t
        BY <2>2 DEF Contexts, Needs, StillToMake, IsBlinded, Others
    <2> QED
        BY <2>1, <2>2
<1> QED
    BY <1>1 DEF Contexts
-----------------------------------------------------------------------------
(* The steps *)

\* An operation begins.
LEMMA BeginStep ==
    ASSUME IInv, NEW t \in Threads, NEW kind \in Kinds, Begin(t, kind)
    PROVE  IInv'
<1>0. TypeOK /\ LocksAreGivenBack /\ Blindings /\ Stages /\ Undoing /\ Halving
      /\ Drawing /\ Contexts /\ NoFactorTwice
    BY DEF IInv
<1>1. TypeOK'
    <2>1. pc' \in [Threads -> Labels]
        BY <1>0 DEF TypeOK, Labels, Begin, Goto
    <2>2. todo' \in [Threads -> Seq(Moduli)]
        <3>1. << "n" >> \in Seq(Moduli) /\ << >> \in Seq(Moduli)
            BY DEF Moduli
        <3> QED
            BY <1>0, <3>1 DEF TypeOK, Begin
    <2>3. /\ draws' \in Nat /\ used' \subseteq Halves /\ reused' \in BOOLEAN
          /\ ops' \in Nat /\ failures' \in Nat
        BY <1>0 DEF TypeOK, Begin, threadVars, contextVars, drawVars
    <2> QED
        BY <1>0, <2>1, <2>2, <2>3 DEF TypeOK, threadVars, contextVars, drawVars, Begin, Goto
<1>2. Others(t)
    BY <1>0 DEF TypeOK, Others, threadVars, contextVars, drawVars, Begin, Goto
<1>3. /\ pc[t] = "idle"
      /\ pc'[t] \in {"context", "enter"}
      /\ UNCHANGED << local, factor, unblind, failed, rsaLock, sharedLock, blinding, mont,
                      freed, draws, used, reused, failures >>
    BY <1>0, NoThreadIsNone, CounterIsPositive
    DEF TypeOK, Which, Mine, IsBlinded, BlindingStructs, threadVars, contextVars, drawVars,
        Begin, Goto
<1>4. LocksAreGivenBack'
    BY <1>0, <1>2, <1>3, NoThreadIsNone DEF LocksAreGivenBack, InRsa, InShared, Mine, Others
<1>5. Stages'
    BY <1>0, <1>2, <1>3, NoThreadIsNone
    DEF Stages, Stage, Made, Converting, Locked, IsBlinded, Mine, Which, Others
<1>6. Blindings' /\ Halving' /\ Drawing'
    BY <1>0, <1>2, <1>3, BlindingsAlone DEF TypeOK
<1>7. Undoing'
    <2>1. ~ IsBlinded(t)' /\ (failures' = 0 => failures = 0)
        BY <1>0, <1>3 DEF TypeOK, Stages, Stage, IsBlinded
    <2>2. \A u \in Threads \ {t} : local[u] => blinding'["own"].Ai = blinding["own"].Ai
        BY <1>0, <1>2, <1>3, NoThreadIsNone, Exclusive DEF Mine, Which, Stages, Stage, Made
    <2> QED
        BY <1>0, <1>2, <2>1, <2>2, UndoingAlone
<1>8. Contexts'
    <2>1. ~ IsBlinded(t)' /\ pc'[t] # "made"
        BY <1>0, <1>3 DEF Stages, Stage, IsBlinded
    <2>2. \A w \in Which : blinding'[w].context \in {blinding[w].context, mont["n"]}
        BY <1>3 DEF Which
    <2> QED
        BY <1>0, <1>2, <1>3, <2>1, <2>2, ContextsAlone
<1>9. NoFactorTwice'
    BY <1>0, <1>3 DEF NoFactorTwice
<1> QED
    BY <1>1, <1>4, <1>5, <1>6, <1>7, <1>8, <1>9 DEF IInv

\* BN_MONT_CTX_set_locked, up to the lock.
LEMMA ReadContextsStep ==
    ASSUME IInv, NEW t \in Threads, ReadContexts(t)
    PROVE  IInv'
<1>0. TypeOK /\ LocksAreGivenBack /\ Blindings /\ Stages /\ Undoing /\ Halving
      /\ Drawing /\ Contexts /\ NoFactorTwice
    BY DEF IInv
<1>1. TypeOK'
    <2>1. pc' \in [Threads -> Labels]
        BY <1>0 DEF TypeOK, Labels, ReadContexts, ContextsReady, Goto
    <2>2. todo' \in [Threads -> Seq(Moduli)]
        BY <1>0 DEF TypeOK, ReadContexts, ContextsReady, Goto
    <2> QED
        BY <1>0, <2>1, <2>2
        DEF TypeOK, threadVars, contextVars, drawVars, ReadContexts, ContextsReady, Goto
<1>2. Others(t)
    BY <1>0
    DEF TypeOK, Others, threadVars, contextVars, drawVars, ReadContexts, ContextsReady, Goto
<1>3. /\ pc[t] = "context"
      /\ pc'[t] \in {"enter", "power", "made"}
      /\ pc'[t] = "power" => IsBlinded(t)
      /\ pc'[t] = "enter" => ~ IsBlinded(t)
      /\ UNCHANGED << local, factor, unblind, failed, rsaLock, sharedLock, blinding, mont,
                      freed, draws, used, reused, failures >>
    BY <1>0, NoThreadIsNone, CounterIsPositive
    DEF TypeOK, Which, Mine, IsBlinded, BlindingStructs, threadVars, contextVars, drawVars,
        ReadContexts, ContextsReady, Goto
<1>4. LocksAreGivenBack'
    BY <1>0, <1>2, <1>3, NoThreadIsNone DEF LocksAreGivenBack, InRsa, InShared, Mine, Others
<1>5. Stages'
    BY <1>0, <1>2, <1>3, NoThreadIsNone
    DEF Stages, Stage, Made, Converting, Locked, IsBlinded, Mine, Which, Others
<1>6. Blindings' /\ Halving' /\ Drawing'
    BY <1>0, <1>2, <1>3, BlindingsAlone DEF TypeOK
<1>7. Undoing'
    BY <1>0, <1>2, <1>3 DEF Undoing, Undo, Inverse, IsBlinded, Others
<1>8. Contexts'
    <2> DEFINE s == todo[t]
    <2>1. PICK i \in 0 .. Len(s) :
             /\ \A j \in 1 .. i : ~ IsMissing(s[j])
             /\ i < Len(s) => IsMissing(s[i + 1])
             /\ todo' = [todo EXCEPT ![t] = SubSeq(@, i + 1, Len(@))]
             /\ IF i = Len(s) THEN ContextsReady(t) ELSE Goto(t, "made")
        BY DEF ReadContexts
    <2>2. s \in Seq(Moduli) /\ todo'[t] = SubSeq(s, i + 1, Len(s))
        BY <1>0, <2>1 DEF TypeOK
    <2> HIDE DEF s
    <2>3. /\ Len(todo'[t]) = Len(s) - i
          /\ \A k \in 1 .. Len(s) - i : todo'[t][k] = s[k + i]
        BY <2>2
    <2>4. /\ pc'[t] = "made" => i < Len(s)
          /\ pc'[t] = "power" => i = Len(s)
        BY <1>0, <2>1 DEF TypeOK, ContextsReady, Goto
    <2>5. pc'[t] = "made" => Len(todo'[t]) > 0 /\ mont'[todo'[t][1]] # t
        <3> SUFFICES ASSUME pc'[t] = "made" PROVE Len(todo'[t]) > 0 /\ mont'[todo'[t][1]] # t
            OBVIOUS
        <3>1. Len(s) \in Nat /\ Len(todo'[t]) > 0 /\ todo'[t][1] = s[i + 1]
            BY <2>2, <2>3, <2>4
        <3>2. mont'[todo'[t][1]] = NoThread
            BY <1>3, <2>1, <2>4, <3>1 DEF IsMissing
        <3> QED
            BY <3>1, <3>2, NoThreadIsNone
    <2>6. ASSUME IsBlinded(t)', NEW m \in Moduli, mont'[m] = NoThread
          PROVE  pc'[t] # "power" /\ StillToMake(t, m)'
        <3>1. StillToMake(t, m)
            BY <1>0, <1>3, <2>6 DEF Contexts, Needs, IsBlinded
        <3>2. PICK j \in 1 .. Len(s) : s[j] = m
            BY <3>1 DEF StillToMake, s
        <3>3. IsMissing(m)
            BY <1>3, <2>6 DEF IsMissing
        <3>4. ~ (j \in 1 .. i)
            BY <2>1, <3>2, <3>3
        <3>5. Len(s) \in Nat /\ j > i /\ j - i \in 1 .. Len(s) - i
            BY <2>2, <3>2, <3>4
        <3>6. todo'[t][j - i] = m
            BY <2>3, <3>2, <3>5
        <3>7. pc'[t] # "power"
            BY <2>4, <3>2, <3>5
        <3> QED
            BY <2>3, <3>5, <3>6, <3>7 DEF StillToMake
    <2>7. Needs(t)'
        BY <2>5, <2>6 DEF Needs
    <2>8. ASSUME NEW u \in Threads \ {t} PROVE Needs(u)'
        BY <1>0, <1>2, <1>3 DEF Contexts, Needs, StillToMake, IsBlinded, Others
    <2> QED
        BY <1>0, <1>3, <2>7, <2>8 DEF Contexts
<1>9. NoFactorTwice'
    BY <1>0, <1>3 DEF NoFactorTwice
<1> QED
    BY <1>1, <1>4, <1>5, <1>6, <1>7, <1>8, <1>9 DEF IInv

\* BN_MONT_CTX_set_locked, under the lock.
LEMMA SetContextStep ==
    ASSUME IInv, NEW t \in Threads, SetContext(t)
    PROVE  IInv'
<1>0. TypeOK /\ LocksAreGivenBack /\ Blindings /\ Stages /\ Undoing /\ Halving
      /\ Drawing /\ Contexts /\ NoFactorTwice
    BY DEF IInv
<1>1. TypeOK'
    <2>1. pc' \in [Threads -> Labels]
        BY <1>0 DEF TypeOK, Labels, SetContext, ContextsReady, Goto
    <2>2. todo' \in [Threads -> Seq(Moduli)]
        <3>1. todo[t] \in Seq(Moduli) /\ Len(todo[t]) > 0
            BY <1>0 DEF TypeOK, Contexts, Needs, SetContext
        <3>2. Tail(todo[t]) \in Seq(Moduli)
            BY <3>1
        <3> QED
            BY <1>0, <3>2 DEF TypeOK, SetContext
    <2>3. mont' \in [Moduli -> Threads \cup {NoThread}] /\ freed' \subseteq Threads \X Moduli
        <3>1. Len(todo[t]) > 0 /\ todo[t] \in Seq(Moduli)
            BY <1>0 DEF TypeOK, Contexts, Needs, SetContext
        <3>2. Head(todo[t]) \in Moduli
            BY <3>1
        <3>3. CASE IsMissing(Head(todo[t]))
            BY <1>0, <3>2, <3>3 DEF TypeOK, SetContext, Install
        <3>4. CASE ~ IsMissing(Head(todo[t]))
            BY <1>0, <3>2, <3>4 DEF TypeOK, SetContext, Install
        <3> QED
            BY <3>3, <3>4
    <2> QED
        BY <1>0, <2>1, <2>2, <2>3
        DEF TypeOK, threadVars, contextVars, drawVars, SetContext, ContextsReady, Goto
<1>2. Others(t)
    BY <1>0
    DEF TypeOK, Others, threadVars, contextVars, drawVars, SetContext, ContextsReady, Goto
<1>3. /\ pc[t] = "made"
      /\ pc'[t] \in {"enter", "power", "context"}
      /\ pc'[t] = "power" => IsBlinded(t)
      /\ pc'[t] = "enter" => ~ IsBlinded(t)
      /\ UNCHANGED << local, factor, unblind, failed, rsaLock, sharedLock, blinding, draws,
                      used, reused, failures >>
    BY <1>0, NoThreadIsNone, CounterIsPositive
    DEF TypeOK, Which, Mine, IsBlinded, BlindingStructs, threadVars, contextVars, drawVars,
        SetContext, ContextsReady, Goto
<1>4. LocksAreGivenBack'
    BY <1>0, <1>2, <1>3, NoThreadIsNone DEF LocksAreGivenBack, InRsa, InShared, Mine, Others
<1>5. Stages'
    BY <1>0, <1>2, <1>3, NoThreadIsNone
    DEF Stages, Stage, Made, Converting, Locked, IsBlinded, Mine, Which, Others
<1>6. Blindings' /\ Halving' /\ Drawing'
    BY <1>0, <1>2, <1>3, BlindingsAlone DEF TypeOK
<1>7. Undoing'
    BY <1>0, <1>2, <1>3 DEF Undoing, Undo, Inverse, IsBlinded, Others
<1>8. Contexts'
    <2> DEFINE s == todo[t]
    <2>1. s \in Seq(Moduli) /\ Len(s) > 0 /\ mont[s[1]] # t
        BY <1>0, <1>3 DEF TypeOK, Contexts, Needs
    <2>2. todo'[t] = Tail(s) /\ Install(t, s[1])
        BY <1>0, <2>1 DEF TypeOK, SetContext
    <2>3. pc'[t] = "power" => Len(Tail(s)) = 0
        <3>1. pc'[t] = "power" => Tail(s) = << >>
            BY <1>0, <2>2 DEF TypeOK, SetContext, ContextsReady, Goto
        <3>2. \A r : r = << >> => Len(r) = 0
            OBVIOUS
        <3> QED
            BY <3>1, <3>2
    <2> HIDE DEF s
    <2>4. s[1] \in Moduli
        BY <2>1
    <2>5. /\ mont'[s[1]] # NoThread
          /\ \A m \in Moduli : m # s[1] => mont'[m] = mont[m]
          /\ mont[s[1]] # NoThread => mont'[s[1]] = mont[s[1]]
          /\ mont[s[1]] = NoThread => mont'[s[1]] = t /\ freed' = freed
          /\ freed' \subseteq freed \cup {<< t, s[1] >>}
        BY <1>0, <2>2, <2>4, NoThreadIsNone DEF TypeOK, Install, IsMissing
    <2>6. ASSUME NEW u \in Threads \ {t} PROVE Needs(u)'
        <3>1. pc'[u] = "made" => Len(todo'[u]) > 0 /\ mont'[todo'[u][1]] # u
            <4> SUFFICES ASSUME pc'[u] = "made" PROVE Len(todo'[u]) > 0 /\ mont'[todo'[u][1]] # u
                OBVIOUS
            <4>1. Len(todo[u]) > 0 /\ mont[todo[u][1]] # u /\ todo'[u] = todo[u]
                BY <1>0, <1>2 DEF Contexts, Needs, Others
            <4>2. todo[u][1] \in Moduli
                BY <1>0, <4>1 DEF TypeOK
            <4> QED
                BY <2>5, <4>1, <4>2
        <3>2. ASSUME IsBlinded(u)', NEW m \in Moduli, mont'[m] = NoThread
              PROVE  pc'[u] # "power" /\ StillToMake(u, m)'
            BY <1>0, <1>2, <2>5, <3>2 DEF Contexts, Needs, StillToMake, IsBlinded, Others
        <3> QED
            BY <3>1, <3>2 DEF Needs
    <2>7. ASSUME IsBlinded(t)', NEW m \in Moduli, mont'[m] = NoThread
          PROVE  pc'[t] # "power" /\ StillToMake(t, m)'
        <3>1. StillToMake(t, m) /\ m # s[1]
            BY <1>0, <1>3, <2>5, <2>7 DEF Contexts, Needs, IsBlinded
        <3>2. PICK j \in 1 .. Len(s) : s[j] = m
            BY <3>1 DEF StillToMake, s
        <3>3. Len(s) \in Nat /\ j # 1
            BY <2>1, <3>1, <3>2
        <3>4. Len(Tail(s)) = Len(s) - 1 /\ \A k \in 1 .. Len(s) - 1 : Tail(s)[k] = s[k + 1]
            BY <2>1
        <3>5. j - 1 \in 1 .. Len(s) - 1 /\ (j - 1) + 1 = j
            BY <3>2, <3>3
        <3>6. j - 1 \in 1 .. Len(Tail(s)) /\ Tail(s)[j - 1] = s[j]
            BY <3>4, <3>5
        <3>7. pc'[t] # "power"
            BY <2>3, <3>6
        <3> QED
            BY <2>2, <3>2, <3>6, <3>7 DEF StillToMake
    <2>8. Needs(t)'
        BY <1>3, <2>7 DEF Needs
    <2>9. ASSUME NEW u \in Threads, NEW m \in Moduli, << u, m >> \in freed'
          PROVE  mont'[m] # NoThread /\ mont'[m] # u
        <3>1. CASE << u, m >> \in freed
            <4>1. mont[m] # NoThread /\ mont[m] # u
                BY <1>0, <3>1 DEF Contexts
            <4> QED
                BY <2>5, <4>1
        <3>2. CASE << u, m >> \notin freed
            <4>1. u = t /\ m = s[1] /\ mont[s[1]] # NoThread
                BY <2>5, <2>9, <3>2
            <4> QED
                BY <2>1, <2>5, <4>1
        <3> QED
            BY <3>1, <3>2
    <2>10. ASSUME NEW w \in Which, blinding'[w].context # NoThread
           PROVE  blinding'[w].context = mont'["n"]
        <3>1. mont["n"] # NoThread /\ blinding'[w].context = mont["n"] /\ "n" \in Moduli
            BY <1>0, <1>3, <2>10 DEF Contexts, Moduli
        <3> QED
            BY <2>5, <3>1
    <2> QED
        BY <2>6, <2>8, <2>9, <2>10 DEF Contexts
<1>9. NoFactorTwice'
    BY <1>0, <1>3 DEF NoFactorTwice
<1> QED
    BY <1>1, <1>4, <1>5, <1>6, <1>7, <1>8, <1>9 DEF IInv

\* rsa_get_blinding.
LEMMA EnterRsaStep ==
    ASSUME IInv, NEW t \in Threads, EnterRsa(t)
    PROVE  IInv'
<1>0. TypeOK /\ LocksAreGivenBack /\ Blindings /\ Stages /\ Undoing /\ Halving
      /\ Drawing /\ Contexts /\ NoFactorTwice
    BY DEF IInv
<1>1. TypeOK'
    <2>1. pc' \in [Threads -> Labels]
        BY <1>0 DEF TypeOK, Labels, EnterRsa, Choose, Goto, IsMade, NoBlinding
    <2>2. local' \in [Threads -> BOOLEAN] /\ failed' \in [Threads -> BOOLEAN]
        BY <1>0 DEF TypeOK, EnterRsa, Choose, Goto, IsMade, NoBlinding
    <2>3. rsaLock' \in Threads \cup {NoThread} /\ sharedLock' \in Threads \cup {NoThread}
        BY <1>0 DEF TypeOK, EnterRsa, Choose, Goto, IsMade, NoBlinding
    <2> QED
        BY <1>0, <2>1, <2>2, <2>3
        DEF TypeOK, threadVars, contextVars, drawVars, EnterRsa, Choose, Goto, IsMade,
            NoBlinding
<1>2. Others(t)
    BY <1>0
    DEF TypeOK, Others, threadVars, contextVars, drawVars, EnterRsa, Choose, Goto, IsMade,
        NoBlinding
<1>3. /\ pc[t] = "enter"
      /\ rsaLock = NoThread
      /\ pc'[t] \in {"convert", "setupShared", "setupOwn"}
      /\ pc'[t] = "setupOwn" => blinding["own"] = NoBlinding /\ local'[t] = local[t] /\ rsaLock' = t
      /\ pc'[t] # "setupOwn" => (local'[t] <=> blinding["own"].owner = t)
      /\ pc'[t] = "setupShared" => blinding["shared"] = NoBlinding /\ ~ local'[t] /\ rsaLock' = t
      /\ pc'[t] = "convert" => (local'[t] \/ blinding["shared"] # NoBlinding) /\ rsaLock' = NoThread
      /\ UNCHANGED << factor, unblind, failed, sharedLock, blinding, mont, freed, draws,
                      used, reused, failures >>
    BY <1>0, NoThreadIsNone, CounterIsPositive
    DEF TypeOK, Which, Mine, IsBlinded, BlindingStructs, threadVars, contextVars, drawVars,
        EnterRsa, Choose, Goto, IsMade, NoBlinding
<1>4. LocksAreGivenBack'
    BY <1>0, <1>2, <1>3, NoThreadIsNone DEF LocksAreGivenBack, InRsa, InShared, Mine, Others
<1>5. Stages'
    <2> SUFFICES ASSUME NEW u \in Threads
                 PROVE  Stage(u)'
        BY DEF Stages
    <2>0. Stage(u) /\ Stage(t)
        BY <1>0 DEF Stages
    <2>1. CASE u = t
        BY <2>0, <2>1, <1>0, <1>2, <1>3, NoThreadIsNone
        DEF Stage, Blindings, Made, Converting, Locked, IsBlinded, Mine, Which, NoBlinding
    <2>2. CASE u # t
        BY <2>0, <2>2, <1>0, <1>2, <1>3, NoThreadIsNone
        DEF Stage, LocksAreGivenBack, InRsa, Made, Converting, Locked, IsBlinded, Mine,
            Which, Others,
            NoBlinding
    <2> QED
        BY <2>1, <2>2
<1>6. Blindings' /\ Halving' /\ Drawing'
    BY <1>0, <1>2, <1>3, BlindingsAlone DEF TypeOK
<1>7. Undoing'
    <2>1. ~ IsBlinded(t)' /\ (failures' = 0 => failures = 0)
        BY <1>0, <1>3 DEF TypeOK, Stages, Stage, IsBlinded
    <2>2. \A u \in Threads \ {t} : local[u] => blinding'["own"].Ai = blinding["own"].Ai
        BY <1>0, <1>2, <1>3, NoThreadIsNone, Exclusive DEF Mine, Which, Stages, Stage, Made
    <2> QED
        BY <1>0, <1>2, <2>1, <2>2, UndoingAlone
<1>8. Contexts'
    <2>1. ~ IsBlinded(t)' /\ pc'[t] # "made"
        BY <1>0, <1>3 DEF Stages, Stage, IsBlinded
    <2>2. \A w \in Which : blinding'[w].context \in {blinding[w].context, mont["n"]}
        BY <1>3 DEF Which
    <2> QED
        BY <1>0, <1>2, <1>3, <2>1, <2>2, ContextsAlone
<1>9. NoFactorTwice'
    BY <1>0, <1>3 DEF NoFactorTwice
<1> QED
    BY <1>1, <1>4, <1>5, <1>6, <1>7, <1>8, <1>9 DEF IInv

\* rsa_get_blinding makes the blinding.
LEMMA SetupOwnStep ==
    ASSUME IInv, NEW t \in Threads, SetupOwn(t)
    PROVE  IInv'
<1>0. TypeOK /\ LocksAreGivenBack /\ Blindings /\ Stages /\ Undoing /\ Halving
      /\ Drawing /\ Contexts /\ NoFactorTwice
    BY DEF IInv
<1>1. TypeOK'
    <2>1. pc' \in [Threads -> Labels]
        BY <1>0 DEF TypeOK, Labels, SetupOwn, Choose, Goto, IsMade, NewBlinding
    <2>2. blinding' \in [Which -> BlindingStructs]
        <3>1. NewBlinding(t) \in BlindingStructs
            <4>1. Half(draws + 1) \in Halves /\ mont["n"] \in Threads \cup {NoThread} /\ -1 \in -1 .. Counter - 1
                BY <1>0, CounterIsPositive DEF TypeOK, Half, Halves, Moduli
            <4> QED
                BY <4>1 DEF NewBlinding, BlindingStructs
        <3> QED
            BY <1>0, <3>1 DEF TypeOK, Which, SetupOwn
    <2>3. local' \in [Threads -> BOOLEAN] /\ failed' \in [Threads -> BOOLEAN]
        BY <1>0 DEF TypeOK, SetupOwn, Choose, Goto, IsMade, NewBlinding
    <2>4. rsaLock' \in Threads \cup {NoThread} /\ sharedLock' \in Threads \cup {NoThread}
        BY <1>0 DEF TypeOK, SetupOwn, Choose, Goto, IsMade, NewBlinding
    <2>5. /\ draws' \in Nat /\ used' \subseteq Halves /\ reused' \in BOOLEAN
          /\ ops' \in Nat /\ failures' \in Nat
        BY <1>0 DEF TypeOK, SetupOwn, Choose, Goto, IsMade, NewBlinding
    <2> QED
        BY <1>0, <2>1, <2>2, <2>3, <2>4, <2>5
        DEF TypeOK, threadVars, contextVars, drawVars, SetupOwn, Choose, Goto, IsMade,
            NewBlinding
<1>2. Others(t)
    BY <1>0
    DEF TypeOK, Others, threadVars, contextVars, drawVars, SetupOwn, Choose, Goto, IsMade,
        NewBlinding
<1>3. /\ pc[t] = "setupOwn"
      /\ pc'[t] = "convert"
      /\ local'[t]
      /\ rsaLock' = NoThread
      /\ draws' = draws + 1
      /\ blinding'["own"] =
            [owner |-> t, A |-> Half(draws + 1), Ai |-> Half(draws + 1), count |-> -1,
             context |-> mont["n"]]
      /\ blinding'["shared"] = blinding["shared"]
      /\ UNCHANGED << factor, unblind, failed, sharedLock, mont, freed, used, reused,
                      failures >>
    BY <1>0, NoThreadIsNone, CounterIsPositive
    DEF TypeOK, Which, Mine, IsBlinded, BlindingStructs, threadVars, contextVars, drawVars,
        SetupOwn, Choose, Goto, IsMade, NewBlinding
<1>4. LocksAreGivenBack'
    BY <1>0, <1>2, <1>3, NoThreadIsNone DEF LocksAreGivenBack, InRsa, InShared, Mine, Others
<1>5. Stages'
    <2> SUFFICES ASSUME NEW u \in Threads
                 PROVE  Stage(u)'
        BY DEF Stages
    <2>0. Stage(u) /\ Stage(t)
        BY <1>0 DEF Stages
    <2>1. CASE u = t
        BY <2>0, <2>1, <1>0, <1>2, <1>3, NoThreadIsNone
        DEF Stage, Blindings, Made, Converting, Locked, IsBlinded, Mine, Which, NoBlinding
    <2>2. CASE u # t
        BY <2>0, <2>2, <1>0, <1>2, <1>3, NoThreadIsNone
        DEF Stage, LocksAreGivenBack, InRsa, Made, Converting, Locked, IsBlinded, Mine,
            Which, Others,
            NoBlinding
    <2> QED
        BY <2>1, <2>2
<1>6. Blindings' /\ Halving' /\ Drawing'
    <2> DEFINE w == "own"
    <2>1. /\ w \in Which /\ \A v \in Which \ {w} : blinding'[v] = blinding[v]
          /\ pc[t] = "squareA" => Mine(t) = w
          /\ pc'[t] \in {"squareA", "multiply"} => Mine(t)' = w
        BY <1>3 DEF Mine, Which
    <2>2. \A u \in Threads \ {t} : Locked(u) => Mine(u) # w
        <3> SUFFICES ASSUME NEW u \in Threads \ {t}, Locked(u), Mine(u) = w
                     PROVE  FALSE
            OBVIOUS
        <3>1. local[u]
            BY DEF Mine
        <3> QED
            BY <1>0, <1>3, <3>1, NoThreadIsNone DEF Stages, Stage, Made
    <2>3. Made(w)' /\ blinding'[w].A.draw > 0
        BY <1>0, <1>3, NoThreadIsNone DEF Made, Half, TypeOK
    <2>4. failures' = 0 =>
              /\ failures = 0
              /\ blinding'[w].Ai = IF pc'[t] = "squareA" THEN Squared(blinding'[w].A)
                                                         ELSE blinding'[w].A
        BY <1>3 DEF Half
    <2>5. used' = used /\ draws <= draws'
        BY <1>0, <1>3 DEF TypeOK
    <2>6. \/ blinding'[w].A.draw \in draws + 1 .. draws'
          \/ /\ blinding'[w].A.draw = blinding[w].A.draw
             /\ blinding'[w].A.squarings >= blinding[w].A.squarings
             /\ blinding'[w].count # -1
             /\ pc'[t] = "multiply" /\ ~ failed'[t] =>
                    \/ blinding'[w].A.squarings > blinding[w].A.squarings
                    \/ blinding[w].count = -1
        BY <1>0, <1>3 DEF TypeOK, Half
    <2> HIDE DEF w
    <2> QED
        BY <1>0, <1>1, <1>2, <2>1, <2>2, <2>3, <2>4, <2>5, <2>6, BlindingStep
<1>7. Undoing'
    <2>1. ~ IsBlinded(t)' /\ (failures' = 0 => failures = 0)
        BY <1>0, <1>3 DEF TypeOK, Stages, Stage, IsBlinded
    <2>2. \A u \in Threads \ {t} : local[u] => blinding'["own"].Ai = blinding["own"].Ai
        BY <1>0, <1>2, <1>3, NoThreadIsNone, Exclusive DEF Mine, Which, Stages, Stage, Made
    <2> QED
        BY <1>0, <1>2, <2>1, <2>2, UndoingAlone
<1>8. Contexts'
    <2>1. ~ IsBlinded(t)' /\ pc'[t] # "made"
        BY <1>0, <1>3 DEF Stages, Stage, IsBlinded
    <2>2. \A w \in Which : blinding'[w].context \in {blinding[w].context, mont["n"]}
        BY <1>3 DEF Which
    <2> QED
        BY <1>0, <1>2, <1>3, <2>1, <2>2, ContextsAlone
<1>9. NoFactorTwice'
    BY <1>0, <1>3 DEF NoFactorTwice
<1> QED
    BY <1>1, <1>4, <1>5, <1>6, <1>7, <1>8, <1>9 DEF IInv

\* rsa_get_blinding makes the shared blinding.
LEMMA SetupSharedStep ==
    ASSUME IInv, NEW t \in Threads, SetupShared(t)
    PROVE  IInv'
<1>0. TypeOK /\ LocksAreGivenBack /\ Blindings /\ Stages /\ Undoing /\ Halving
      /\ Drawing /\ Contexts /\ NoFactorTwice
    BY DEF IInv
<1>1. TypeOK'
    <2>1. pc' \in [Threads -> Labels]
        BY <1>0 DEF TypeOK, Labels, SetupShared, Goto, NewBlinding
    <2>2. blinding' \in [Which -> BlindingStructs]
        <3>1. NewBlinding(t) \in BlindingStructs
            <4>1. Half(draws + 1) \in Halves /\ mont["n"] \in Threads \cup {NoThread} /\ -1 \in -1 .. Counter - 1
                BY <1>0, CounterIsPositive DEF TypeOK, Half, Halves, Moduli
            <4> QED
                BY <4>1 DEF NewBlinding, BlindingStructs
        <3> QED
            BY <1>0, <3>1 DEF TypeOK, Which, SetupShared
    <2>3. rsaLock' \in Threads \cup {NoThread} /\ sharedLock' \in Threads \cup {NoThread}
        BY <1>0 DEF TypeOK, SetupShared, Goto, NewBlinding
    <2>4. /\ draws' \in Nat /\ used' \subseteq Halves /\ reused' \in BOOLEAN
          /\ ops' \in Nat /\ failures' \in Nat
        BY <1>0 DEF TypeOK, SetupShared, Goto, NewBlinding
    <2> QED
        BY <1>0, <2>1, <2>2, <2>3, <2>4
        DEF TypeOK, threadVars, contextVars, drawVars, SetupShared, Goto, NewBlinding
<1>2. Others(t)
    BY <1>0
    DEF TypeOK, Others, threadVars, contextVars, drawVars, SetupShared, Goto, NewBlinding
<1>3. /\ pc[t] = "setupShared"
      /\ pc'[t] = "convert"
      /\ rsaLock' = NoThread
      /\ draws' = draws + 1
      /\ blinding'["shared"] =
            [owner |-> t, A |-> Half(draws + 1), Ai |-> Half(draws + 1), count |-> -1,
             context |-> mont["n"]]
      /\ blinding'["own"] = blinding["own"]
      /\ UNCHANGED << local, factor, unblind, failed, sharedLock, mont, freed, used,
                      reused, failures >>
    BY <1>0, NoThreadIsNone, CounterIsPositive
    DEF TypeOK, Which, Mine, IsBlinded, BlindingStructs, threadVars, contextVars, drawVars,
        SetupShared, Goto, NewBlinding
<1>4. LocksAreGivenBack'
    BY <1>0, <1>2, <1>3, NoThreadIsNone DEF LocksAreGivenBack, InRsa, InShared, Mine, Others
<1>5. Stages'
    <2> SUFFICES ASSUME NEW u \in Threads
                 PROVE  Stage(u)'
        BY DEF Stages
    <2>0. Stage(u) /\ Stage(t)
        BY <1>0 DEF Stages
    <2>1. CASE u = t
        BY <2>0, <2>1, <1>0, <1>2, <1>3, NoThreadIsNone
        DEF Stage, Blindings, Made, Converting, Locked, IsBlinded, Mine, Which, NoBlinding
    <2>2. CASE u # t
        BY <2>0, <2>2, <1>0, <1>2, <1>3, NoThreadIsNone
        DEF Stage, LocksAreGivenBack, InRsa, Made, Converting, Locked, IsBlinded, Mine,
            Which, Others,
            NoBlinding
    <2> QED
        BY <2>1, <2>2
<1>6. Blindings' /\ Halving' /\ Drawing'
    <2> DEFINE w == "shared"
    <2>1. /\ w \in Which /\ \A v \in Which \ {w} : blinding'[v] = blinding[v]
          /\ pc[t] = "squareA" => Mine(t) = w
          /\ pc'[t] \in {"squareA", "multiply"} => Mine(t)' = w
        BY <1>3 DEF Mine, Which
    <2>2. \A u \in Threads \ {t} : Locked(u) => Mine(u) # w
        BY <1>0, <1>3
        DEF Stages, Stage, Locked, Converting, Mine, Made, LocksAreGivenBack, InRsa
    <2>3. Made(w)' /\ blinding'[w].A.draw > 0
        BY <1>0, <1>3, NoThreadIsNone DEF Made, Half, TypeOK
    <2>4. failures' = 0 =>
              /\ failures = 0
              /\ blinding'[w].Ai = IF pc'[t] = "squareA" THEN Squared(blinding'[w].A)
                                                         ELSE blinding'[w].A
        BY <1>3 DEF Half
    <2>5. used' = used /\ draws <= draws'
        BY <1>0, <1>3 DEF TypeOK
    <2>6. \/ blinding'[w].A.draw \in draws + 1 .. draws'
          \/ /\ blinding'[w].A.draw = blinding[w].A.draw
             /\ blinding'[w].A.squarings >= blinding[w].A.squarings
             /\ blinding'[w].count # -1
             /\ pc'[t] = "multiply" /\ ~ failed'[t] =>
                    \/ blinding'[w].A.squarings > blinding[w].A.squarings
                    \/ blinding[w].count = -1
        BY <1>0, <1>3 DEF TypeOK, Half
    <2> HIDE DEF w
    <2> QED
        BY <1>0, <1>1, <1>2, <2>1, <2>2, <2>3, <2>4, <2>5, <2>6, BlindingStep
<1>7. Undoing'
    <2>1. ~ IsBlinded(t)' /\ (failures' = 0 => failures = 0)
        BY <1>0, <1>3 DEF TypeOK, Stages, Stage, IsBlinded
    <2>2. \A u \in Threads \ {t} : local[u] => blinding'["own"].Ai = blinding["own"].Ai
        BY <1>0, <1>2, <1>3, NoThreadIsNone, Exclusive DEF Mine, Which, Stages, Stage, Made
    <2> QED
        BY <1>0, <1>2, <2>1, <2>2, UndoingAlone
<1>8. Contexts'
    <2>1. ~ IsBlinded(t)' /\ pc'[t] # "made"
        BY <1>0, <1>3 DEF Stages, Stage, IsBlinded
    <2>2. \A w \in Which : blinding'[w].context \in {blinding[w].context, mont["n"]}
        BY <1>3 DEF Which
    <2> QED
        BY <1>0, <1>2, <1>3, <2>1, <2>2, ContextsAlone
<1>9. NoFactorTwice'
    BY <1>0, <1>3 DEF NoFactorTwice
<1> QED
    BY <1>1, <1>4, <1>5, <1>6, <1>7, <1>8, <1>9 DEF IInv

\* BN_BLINDING_convert_ex looks at the count.
LEMMA ConvertStep ==
    ASSUME IInv, NEW t \in Threads, Convert(t)
    PROVE  IInv'
<1>0. TypeOK /\ LocksAreGivenBack /\ Blindings /\ Stages /\ Undoing /\ Halving
      /\ Drawing /\ Contexts /\ NoFactorTwice
    BY DEF IInv
<1>1. TypeOK'
    <2>1. pc' \in [Threads -> Labels]
        BY <1>0 DEF TypeOK, Labels, Convert, MayConvert, Goto, Update
    <2>2. blinding' \in [Which -> BlindingStructs]
        <3> DEFINE b == [blinding[Mine(t)] EXCEPT !.count = IF @ = -1 THEN 0 ELSE (@ + 1) % Counter]
        <3>1. blinding[Mine(t)] \in BlindingStructs /\ Mine(t) \in Which /\ draws \in Nat
            BY <1>0 DEF TypeOK, Mine, Which
        <3>2. blinding' = [blinding EXCEPT ![Mine(t)] = b]
            BY <1>0, <3>1 DEF TypeOK, Convert, MayConvert, Goto, Update
        <3>3. \A n \in -1 .. Counter - 1 : (IF n = -1 THEN 0 ELSE (n + 1) % Counter) \in 0 .. Counter - 1
            BY CounterIsPositive
        <3>4. b \in BlindingStructs
            BY <3>1, <3>3 DEF BlindingStructs
        <3> QED
            BY <1>0, <3>1, <3>2, <3>4 DEF TypeOK
    <2>3. rsaLock' \in Threads \cup {NoThread} /\ sharedLock' \in Threads \cup {NoThread}
        BY <1>0 DEF TypeOK, Convert, MayConvert, Goto, Update
    <2> QED
        BY <1>0, <2>1, <2>2, <2>3
        DEF TypeOK, threadVars, contextVars, drawVars, Convert, MayConvert, Goto, Update
<1>2. Others(t)
    BY <1>0
    DEF TypeOK, Others, threadVars, contextVars, drawVars, Convert, MayConvert, Goto, Update
<1>3. /\ pc[t] = "convert"
      /\ local[t] \/ sharedLock = NoThread
      /\ sharedLock' = IF local[t] THEN sharedLock ELSE t
      /\ pc'[t] \in {"multiply", "recreate", "squareAi"}
      /\ pc'[t] = "multiply" => blinding[Mine(t)].count = -1
      /\ blinding'[Mine(t)].count \in Nat
      /\ blinding'[Mine(t)].owner = blinding[Mine(t)].owner
      /\ blinding'[Mine(t)].A = blinding[Mine(t)].A
      /\ blinding'[Mine(t)].Ai = blinding[Mine(t)].Ai
      /\ blinding'[Mine(t)].context = blinding[Mine(t)].context
      /\ \A w \in Which \ {Mine(t)} : blinding'[w] = blinding[w]
      /\ UNCHANGED << local, factor, unblind, failed, rsaLock, mont, freed, draws, used,
                      reused, failures >>
    BY <1>0, NoThreadIsNone, CounterIsPositive
    DEF TypeOK, Which, Mine, IsBlinded, BlindingStructs, threadVars, contextVars, drawVars,
        Convert, MayConvert, Goto, Update
<1>4. LocksAreGivenBack'
    BY <1>0, <1>2, <1>3, NoThreadIsNone DEF LocksAreGivenBack, InRsa, InShared, Mine, Others
<1>5. Stages'
    BY <1>0, <1>2, <1>3, NoThreadIsNone
    DEF Stages, Stage, Made, Converting, Locked, IsBlinded, Mine, Which, Others
<1>6. Blindings' /\ Halving' /\ Drawing'
    <2>0. PICK w \in Which : w = Mine(t)
        BY DEF Mine, Which
    <2>1. /\ w \in Which /\ \A v \in Which \ {w} : blinding'[v] = blinding[v]
          /\ pc[t] = "squareA" => Mine(t) = w
          /\ pc'[t] \in {"squareA", "multiply"} => Mine(t)' = w
        BY <2>0, <1>3 DEF Mine, Which
    <2>2. \A u \in Threads \ {t} : Locked(u) => Mine(u) # w
        <3> SUFFICES ASSUME NEW u \in Threads \ {t}, Locked(u), Mine(u) = Mine(t)
                     PROVE  FALSE
            BY <2>0
        <3>1. local[u] <=> local[t]
            BY DEF Mine
        <3>2. CASE local[t]
            BY <1>0, <3>1, <3>2, Exclusive
        <3>3. CASE ~ local[t]
            BY <1>0, <1>3, <3>1, <3>3, NoThreadIsNone
            DEF LocksAreGivenBack, InShared, Locked
        <3> QED
            BY <3>2, <3>3
    <2>3. Made(w)' /\ blinding'[w].A.draw > 0
        BY <2>0, <1>0, <1>3, NoThreadIsNone
        DEF Stages, Stage, Converting, Made, Mine, Which, Blindings
    <2>4. failures' = 0 =>
              /\ failures = 0
              /\ blinding'[w].Ai = IF pc'[t] = "squareA" THEN Squared(blinding'[w].A)
                                                         ELSE blinding'[w].A
        BY <2>0, <1>0, <1>2, <1>3, <2>2
        DEF TypeOK, Halving, Halved, IsBetween, Locked, Mine, Which
    <2>5. used' = used /\ draws <= draws'
        BY <1>0, <1>3 DEF TypeOK
    <2>6. \/ blinding'[w].A.draw \in draws + 1 .. draws'
          \/ /\ blinding'[w].A.draw = blinding[w].A.draw
             /\ blinding'[w].A.squarings >= blinding[w].A.squarings
             /\ blinding'[w].count # -1
             /\ pc'[t] = "multiply" /\ ~ failed'[t] =>
                    \/ blinding'[w].A.squarings > blinding[w].A.squarings
                    \/ blinding[w].count = -1
        <3>1. blinding[w].A.squarings \in Nat /\ blinding[w].A.draw \in Nat /\ draws \in Nat
            BY <1>0 DEF TypeOK, BlindingStructs, Halves
        <3>2. /\ blinding'[w].A = blinding[w].A /\ blinding'[w].count \in Nat
              /\ pc'[t] = "multiply" => blinding[w].count = -1
            BY <1>3, <2>0
        <3> QED
            BY <3>1, <3>2
    <2> QED
        BY <1>0, <1>1, <1>2, <2>1, <2>2, <2>3, <2>4, <2>5, <2>6, BlindingStep
<1>7. Undoing'
    <2>1. ~ IsBlinded(t)' /\ (failures' = 0 => failures = 0)
        BY <1>0, <1>3 DEF TypeOK, Stages, Stage, IsBlinded
    <2>2. \A u \in Threads \ {t} : local[u] => blinding'["own"].Ai = blinding["own"].Ai
        BY <1>0, <1>2, <1>3, NoThreadIsNone, Exclusive DEF Mine, Which, Stages, Stage, Made
    <2> QED
        BY <1>0, <1>2, <2>1, <2>2, UndoingAlone
<1>8. Contexts'
    <2>1. ~ IsBlinded(t)' /\ pc'[t] # "made"
        BY <1>0, <1>3 DEF Stages, Stage, IsBlinded
    <2>2. \A w \in Which : blinding'[w].context \in {blinding[w].context, mont["n"]}
        BY <1>3 DEF Which
    <2> QED
        BY <1>0, <1>2, <1>3, <2>1, <2>2, ContextsAlone
<1>9. NoFactorTwice'
    BY <1>0, <1>3 DEF NoFactorTwice
<1> QED
    BY <1>1, <1>4, <1>5, <1>6, <1>7, <1>8, <1>9 DEF IInv

\* BN_BLINDING_update squares one half,
LEMMA SquareAiStep ==
    ASSUME IInv, NEW t \in Threads, SquareAi(t)
    PROVE  IInv'
<1>0. TypeOK /\ LocksAreGivenBack /\ Blindings /\ Stages /\ Undoing /\ Halving
      /\ Drawing /\ Contexts /\ NoFactorTwice
    BY DEF IInv
<1>1. TypeOK'
    <2>1. pc' \in [Threads -> Labels]
        BY <1>0 DEF TypeOK, Labels, SquareAi, Goto
    <2>2. blinding' \in [Which -> BlindingStructs]
        <3> DEFINE b == [blinding[Mine(t)] EXCEPT !.Ai = Squared(@)]
        <3>1. blinding[Mine(t)] \in BlindingStructs /\ Mine(t) \in Which /\ draws \in Nat
            BY <1>0 DEF TypeOK, Mine, Which
        <3>2. blinding' = [blinding EXCEPT ![Mine(t)] = b]
            BY <1>0, <3>1 DEF TypeOK, SquareAi, Goto
        <3>4. b \in BlindingStructs
            BY <3>1 DEF BlindingStructs, Halves, Half, Squared
        <3> QED
            BY <1>0, <3>1, <3>2, <3>4 DEF TypeOK
    <2> QED
        BY <1>0, <2>1, <2>2 DEF TypeOK, threadVars, contextVars, drawVars, SquareAi, Goto
<1>2. Others(t)
    BY <1>0 DEF TypeOK, Others, threadVars, contextVars, drawVars, SquareAi, Goto
<1>3. /\ pc[t] = "squareAi"
      /\ pc'[t] = "squareA"
      /\ blinding'[Mine(t)].owner = blinding[Mine(t)].owner
      /\ blinding'[Mine(t)].A = blinding[Mine(t)].A
      /\ blinding'[Mine(t)].Ai = Squared(blinding[Mine(t)].Ai)
      /\ blinding'[Mine(t)].count = blinding[Mine(t)].count
      /\ blinding'[Mine(t)].context = blinding[Mine(t)].context
      /\ \A w \in Which \ {Mine(t)} : blinding'[w] = blinding[w]
      /\ UNCHANGED << local, factor, unblind, rsaLock, sharedLock, mont, freed, used,
                      reused, failed, draws, failures >>
    BY <1>0, NoThreadIsNone, CounterIsPositive
    DEF TypeOK, Which, Mine, IsBlinded, BlindingStructs, threadVars, contextVars, drawVars,
        SquareAi, Goto
<1>4. LocksAreGivenBack'
    BY <1>0, <1>2, <1>3, NoThreadIsNone DEF LocksAreGivenBack, InRsa, InShared, Mine, Others
<1>5. Stages'
    BY <1>0, <1>2, <1>3, NoThreadIsNone
    DEF Stages, Stage, Made, Converting, Locked, IsBlinded, Mine, Which, Others
<1>6. Blindings' /\ Halving' /\ Drawing'
    <2>0. PICK w \in Which : w = Mine(t)
        BY DEF Mine, Which
    <2>1. /\ w \in Which /\ \A v \in Which \ {w} : blinding'[v] = blinding[v]
          /\ pc[t] = "squareA" => Mine(t) = w
          /\ pc'[t] \in {"squareA", "multiply"} => Mine(t)' = w
        BY <2>0, <1>3 DEF Mine, Which
    <2>2. \A u \in Threads \ {t} : Locked(u) => Mine(u) # w
        BY <2>0, <1>0, <1>3, Exclusive DEF Locked
    <2>3. Made(w)' /\ blinding'[w].A.draw > 0
        BY <2>0, <1>0, <1>3, NoThreadIsNone
        DEF Stages, Stage, Converting, Made, Mine, Which, Blindings
    <2>4. failures' = 0 =>
              /\ failures = 0
              /\ blinding'[w].Ai = IF pc'[t] = "squareA" THEN Squared(blinding'[w].A)
                                                         ELSE blinding'[w].A
        BY <2>0, <1>0, <1>2, <1>3, <2>2
        DEF TypeOK, Halving, Halved, IsBetween, Locked, Mine, Which
    <2>5. used' = used /\ draws <= draws'
        BY <1>0, <1>3 DEF TypeOK
    <2>6. \/ blinding'[w].A.draw \in draws + 1 .. draws'
          \/ /\ blinding'[w].A.draw = blinding[w].A.draw
             /\ blinding'[w].A.squarings >= blinding[w].A.squarings
             /\ blinding'[w].count # -1
             /\ pc'[t] = "multiply" /\ ~ failed'[t] =>
                    \/ blinding'[w].A.squarings > blinding[w].A.squarings
                    \/ blinding[w].count = -1
        BY <2>0, <1>0, <1>3
        DEF TypeOK, Stages, Stage, Locked, BlindingStructs, Halves, Which, Mine
    <2> QED
        BY <1>0, <1>1, <1>2, <2>1, <2>2, <2>3, <2>4, <2>5, <2>6, BlindingStep
<1>7. Undoing'
    <2>1. ~ IsBlinded(t)' /\ (failures' = 0 => failures = 0)
        BY <1>0, <1>3 DEF TypeOK, Stages, Stage, IsBlinded
    <2>2. \A u \in Threads \ {t} : local[u] => blinding'["own"].Ai = blinding["own"].Ai
        BY <1>0, <1>2, <1>3, NoThreadIsNone, Exclusive DEF Mine, Which, Stages, Stage, Made
    <2> QED
        BY <1>0, <1>2, <2>1, <2>2, UndoingAlone
<1>8. Contexts'
    <2>1. ~ IsBlinded(t)' /\ pc'[t] # "made"
        BY <1>0, <1>3 DEF Stages, Stage, IsBlinded
    <2>2. \A w \in Which : blinding'[w].context \in {blinding[w].context, mont["n"]}
        BY <1>3 DEF Which
    <2> QED
        BY <1>0, <1>2, <1>3, <2>1, <2>2, ContextsAlone
<1>9. NoFactorTwice'
    BY <1>0, <1>3 DEF NoFactorTwice
<1> QED
    BY <1>1, <1>4, <1>5, <1>6, <1>7, <1>8, <1>9 DEF IInv

\* and the other.
LEMMA SquareAStep ==
    ASSUME IInv, NEW t \in Threads, SquareA(t)
    PROVE  IInv'
<1>0. TypeOK /\ LocksAreGivenBack /\ Blindings /\ Stages /\ Undoing /\ Halving
      /\ Drawing /\ Contexts /\ NoFactorTwice
    BY DEF IInv
<1>1. TypeOK'
    <2>1. pc' \in [Threads -> Labels]
        BY <1>0 DEF TypeOK, Labels, SquareA, Goto
    <2>2. blinding' \in [Which -> BlindingStructs]
        <3> DEFINE b == [blinding[Mine(t)] EXCEPT !.A = Squared(@)]
        <3>1. blinding[Mine(t)] \in BlindingStructs /\ Mine(t) \in Which /\ draws \in Nat
            BY <1>0 DEF TypeOK, Mine, Which
        <3>2. blinding' = [blinding EXCEPT ![Mine(t)] = b]
            BY <1>0, <3>1 DEF TypeOK, SquareA, Goto
        <3>4. b \in BlindingStructs
            BY <3>1 DEF BlindingStructs, Halves, Half, Squared
        <3> QED
            BY <1>0, <3>1, <3>2, <3>4 DEF TypeOK
    <2> QED
        BY <1>0, <2>1, <2>2 DEF TypeOK, threadVars, contextVars, drawVars, SquareA, Goto
<1>2. Others(t)
    BY <1>0 DEF TypeOK, Others, threadVars, contextVars, drawVars, SquareA, Goto
<1>3. /\ pc[t] = "squareA"
      /\ pc'[t] = "multiply"
      /\ blinding'[Mine(t)].owner = blinding[Mine(t)].owner
      /\ blinding'[Mine(t)].A = Squared(blinding[Mine(t)].A)
      /\ blinding'[Mine(t)].Ai = blinding[Mine(t)].Ai
      /\ blinding'[Mine(t)].count = blinding[Mine(t)].count
      /\ blinding'[Mine(t)].context = blinding[Mine(t)].context
      /\ \A w \in Which \ {Mine(t)} : blinding'[w] = blinding[w]
      /\ UNCHANGED << local, factor, unblind, rsaLock, sharedLock, mont, freed, used,
                      reused, failed, draws, failures >>
    BY <1>0, NoThreadIsNone, CounterIsPositive
    DEF TypeOK, Which, Mine, IsBlinded, BlindingStructs, threadVars, contextVars, drawVars,
        SquareA, Goto
<1>4. LocksAreGivenBack'
    BY <1>0, <1>2, <1>3, NoThreadIsNone DEF LocksAreGivenBack, InRsa, InShared, Mine, Others
<1>5. Stages'
    BY <1>0, <1>2, <1>3, NoThreadIsNone
    DEF Stages, Stage, Made, Converting, Locked, IsBlinded, Mine, Which, Others
<1>6. Blindings' /\ Halving' /\ Drawing'
    <2>0. PICK w \in Which : w = Mine(t)
        BY DEF Mine, Which
    <2>1. /\ w \in Which /\ \A v \in Which \ {w} : blinding'[v] = blinding[v]
          /\ pc[t] = "squareA" => Mine(t) = w
          /\ pc'[t] \in {"squareA", "multiply"} => Mine(t)' = w
        BY <2>0, <1>3 DEF Mine, Which
    <2>2. \A u \in Threads \ {t} : Locked(u) => Mine(u) # w
        BY <2>0, <1>0, <1>3, Exclusive DEF Locked
    <2>3. Made(w)' /\ blinding'[w].A.draw > 0
        BY <2>0, <1>0, <1>3, NoThreadIsNone
        DEF Stages, Stage, Converting, Made, Mine, Which, Blindings, Squared
    <2>4. failures' = 0 =>
              /\ failures = 0
              /\ blinding'[w].Ai = IF pc'[t] = "squareA" THEN Squared(blinding'[w].A)
                                                         ELSE blinding'[w].A
        BY <2>0, <1>0, <1>2, <1>3, <2>2
        DEF TypeOK, Halving, Halved, IsBetween, Locked, Mine, Which, Squared
    <2>5. used' = used /\ draws <= draws'
        BY <1>0, <1>3 DEF TypeOK
    <2>6. \/ blinding'[w].A.draw \in draws + 1 .. draws'
          \/ /\ blinding'[w].A.draw = blinding[w].A.draw
             /\ blinding'[w].A.squarings >= blinding[w].A.squarings
             /\ blinding'[w].count # -1
             /\ pc'[t] = "multiply" /\ ~ failed'[t] =>
                    \/ blinding'[w].A.squarings > blinding[w].A.squarings
                    \/ blinding[w].count = -1
        <3>1. blinding[w].A.squarings \in Nat /\ blinding[w].A.draw \in Nat /\ draws \in Nat
            BY <1>0 DEF TypeOK, BlindingStructs, Halves
        <3>2. /\ blinding'[w].A.squarings = blinding[w].A.squarings + 1
              /\ blinding'[w].A.draw = blinding[w].A.draw
            <4>1. blinding'[w].A = Squared(blinding[w].A) /\ blinding[w].A \in Halves
                BY <1>0, <1>3, <2>0 DEF TypeOK, BlindingStructs
            <4>2. \A h \in Halves : Squared(h).squarings = h.squarings + 1 /\ Squared(h).draw = h.draw
                BY DEF Squared, Halves
            <4> QED
                BY <4>1, <4>2
        <3>3. blinding'[w].count # -1
            BY <1>0, <1>3, <2>0 DEF Stages, Stage, Locked
        <3> QED
            BY <3>1, <3>2, <3>3
    <2> QED
        BY <1>0, <1>1, <1>2, <2>1, <2>2, <2>3, <2>4, <2>5, <2>6, BlindingStep
<1>7. Undoing'
    <2>1. ~ IsBlinded(t)' /\ (failures' = 0 => failures = 0)
        BY <1>0, <1>3 DEF TypeOK, Stages, Stage, IsBlinded
    <2>2. \A u \in Threads \ {t} : local[u] => blinding'["own"].Ai = blinding["own"].Ai
        BY <1>0, <1>2, <1>3, NoThreadIsNone, Exclusive DEF Mine, Which, Stages, Stage, Made
    <2> QED
        BY <1>0, <1>2, <2>1, <2>2, UndoingAlone
<1>8. Contexts'
    <2>1. ~ IsBlinded(t)' /\ pc'[t] # "made"
        BY <1>0, <1>3 DEF Stages, Stage, IsBlinded
    <2>2. \A w \in Which : blinding'[w].context \in {blinding[w].context, mont["n"]}
        BY <1>3 DEF Which
    <2> QED
        BY <1>0, <1>2, <1>3, <2>1, <2>2, ContextsAlone
<1>9. NoFactorTwice'
    BY <1>0, <1>3 DEF NoFactorTwice
<1> QED
    BY <1>1, <1>4, <1>5, <1>6, <1>7, <1>8, <1>9 DEF IInv

\* BN_BLINDING_update draws another factor,
LEMMA RecreateStep ==
    ASSUME IInv, NEW t \in Threads, Recreate(t)
    PROVE  IInv'
<1>0. TypeOK /\ LocksAreGivenBack /\ Blindings /\ Stages /\ Undoing /\ Halving
      /\ Drawing /\ Contexts /\ NoFactorTwice
    BY DEF IInv
<1>1. TypeOK'
    <2>1. pc' \in [Threads -> Labels]
        BY <1>0 DEF TypeOK, Labels, Recreate, Goto
    <2>2. blinding' \in [Which -> BlindingStructs]
        <3> DEFINE b == [blinding[Mine(t)] EXCEPT !.A = Half(draws + 1), !.Ai = Half(draws + 1)]
        <3>1. blinding[Mine(t)] \in BlindingStructs /\ Mine(t) \in Which
            BY <1>0 DEF TypeOK, Mine, Which
        <3>2. Half(draws + 1) \in Halves
            BY <1>0 DEF TypeOK, Half, Halves
        <3>3. b \in BlindingStructs
            BY <3>1, <3>2 DEF BlindingStructs
        <3>4. blinding' = [blinding EXCEPT ![Mine(t)] = b]
            BY <1>0, <3>1 DEF TypeOK, Recreate
        <3> QED
            BY <1>0, <3>1, <3>3, <3>4 DEF TypeOK
    <2>3. /\ draws' \in Nat /\ used' \subseteq Halves /\ reused' \in BOOLEAN
          /\ ops' \in Nat /\ failures' \in Nat
        BY <1>0 DEF TypeOK, Recreate, Goto
    <2> QED
        BY <1>0, <2>1, <2>2, <2>3
        DEF TypeOK, threadVars, contextVars, drawVars, Recreate, Goto
<1>2. Others(t)
    BY <1>0 DEF TypeOK, Others, threadVars, contextVars, drawVars, Recreate, Goto
<1>3. /\ pc[t] = "recreate"
      /\ pc'[t] = "multiply"
      /\ draws' = draws + 1
      /\ blinding'[Mine(t)].owner = blinding[Mine(t)].owner
      /\ blinding'[Mine(t)].A = Half(draws + 1)
      /\ blinding'[Mine(t)].Ai = Half(draws + 1)
      /\ blinding'[Mine(t)].count = blinding[Mine(t)].count
      /\ blinding'[Mine(t)].context = blinding[Mine(t)].context
      /\ \A w \in Which \ {Mine(t)} : blinding'[w] = blinding[w]
      /\ UNCHANGED << local, factor, unblind, rsaLock, sharedLock, mont, freed, used,
                      reused, failed, failures >>
    BY <1>0, NoThreadIsNone, CounterIsPositive
    DEF TypeOK, Which, Mine, IsBlinded, BlindingStructs, threadVars, contextVars, drawVars,
        Recreate, Goto
<1>4. LocksAreGivenBack'
    BY <1>0, <1>2, <1>3, NoThreadIsNone DEF LocksAreGivenBack, InRsa, InShared, Mine, Others
<1>5. Stages'
    BY <1>0, <1>2, <1>3, NoThreadIsNone
    DEF Stages, Stage, Made, Converting, Locked, IsBlinded, Mine, Which, Others
<1>6. Blindings' /\ Halving' /\ Drawing'
    <2>0. PICK w \in Which : w = Mine(t)
        BY DEF Mine, Which
    <2>1. /\ w \in Which /\ \A v \in Which \ {w} : blinding'[v] = blinding[v]
          /\ pc[t] = "squareA" => Mine(t) = w
          /\ pc'[t] \in {"squareA", "multiply"} => Mine(t)' = w
        BY <2>0, <1>3 DEF Mine, Which
    <2>2. \A u \in Threads \ {t} : Locked(u) => Mine(u) # w
        BY <2>0, <1>0, <1>3, Exclusive DEF Locked
    <2>3. Made(w)' /\ blinding'[w].A.draw > 0
        BY <2>0, <1>0, <1>3, NoThreadIsNone
        DEF Stages, Stage, Converting, Made, Mine, Which, Blindings, Half, TypeOK
    <2>4. failures' = 0 =>
              /\ failures = 0
              /\ blinding'[w].Ai = IF pc'[t] = "squareA" THEN Squared(blinding'[w].A)
                                                         ELSE blinding'[w].A
        BY <2>0, <1>0, <1>2, <1>3, <2>2
        DEF TypeOK, Halving, Halved, IsBetween, Locked, Mine, Which, Half
    <2>5. used' = used /\ draws <= draws'
        BY <1>0, <1>3 DEF TypeOK
    <2>6. \/ blinding'[w].A.draw \in draws + 1 .. draws'
          \/ /\ blinding'[w].A.draw = blinding[w].A.draw
             /\ blinding'[w].A.squarings >= blinding[w].A.squarings
             /\ blinding'[w].count # -1
             /\ pc'[t] = "multiply" /\ ~ failed'[t] =>
                    \/ blinding'[w].A.squarings > blinding[w].A.squarings
                    \/ blinding[w].count = -1
        BY <2>0, <1>0, <1>3
        DEF TypeOK, Stages, Stage, Locked, BlindingStructs, Halves, Which, Mine, Half
    <2> QED
        BY <1>0, <1>1, <1>2, <2>1, <2>2, <2>3, <2>4, <2>5, <2>6, BlindingStep
<1>7. Undoing'
    <2>1. ~ IsBlinded(t)' /\ (failures' = 0 => failures = 0)
        BY <1>0, <1>3 DEF TypeOK, Stages, Stage, IsBlinded
    <2>2. \A u \in Threads \ {t} : local[u] => blinding'["own"].Ai = blinding["own"].Ai
        BY <1>0, <1>2, <1>3, NoThreadIsNone, Exclusive DEF Mine, Which, Stages, Stage, Made
    <2> QED
        BY <1>0, <1>2, <2>1, <2>2, UndoingAlone
<1>8. Contexts'
    <2>1. ~ IsBlinded(t)' /\ pc'[t] # "made"
        BY <1>0, <1>3 DEF Stages, Stage, IsBlinded
    <2>2. \A w \in Which : blinding'[w].context \in {blinding[w].context, mont["n"]}
        BY <1>3 DEF Which
    <2> QED
        BY <1>0, <1>2, <1>3, <2>1, <2>2, ContextsAlone
<1>9. NoFactorTwice'
    BY <1>0, <1>3 DEF NoFactorTwice
<1> QED
    BY <1>1, <1>4, <1>5, <1>6, <1>7, <1>8, <1>9 DEF IInv

\* or fails to.
LEMMA RecreateFailsStep ==
    ASSUME IInv, NEW t \in Threads, RecreateFails(t)
    PROVE  IInv'
<1>0. TypeOK /\ LocksAreGivenBack /\ Blindings /\ Stages /\ Undoing /\ Halving
      /\ Drawing /\ Contexts /\ NoFactorTwice
    BY DEF IInv
<1>1. TypeOK'
    <2>1. pc' \in [Threads -> Labels]
        BY <1>0 DEF TypeOK, Labels, RecreateFails, Goto
    <2>2. blinding' \in [Which -> BlindingStructs]
        <3>1. PICK h \in {blinding[Mine(t)]} \cup {[blinding[Mine(t)] EXCEPT !.A = Half(draws + 1), !.Ai = i] :
                                i \in {blinding[Mine(t)].Ai, Half(draws + 2)}} :
                   blinding' = [blinding EXCEPT ![Mine(t)] = h]
            BY DEF RecreateFails
        <3>2. blinding[Mine(t)] \in BlindingStructs /\ Mine(t) \in Which
            BY <1>0 DEF TypeOK, Mine, Which
        <3>3. Half(draws + 1) \in Halves /\ Half(draws + 2) \in Halves
            BY <1>0 DEF TypeOK, Half, Halves
        <3>4. h \in BlindingStructs
            BY <3>1, <3>2, <3>3 DEF BlindingStructs
        <3> QED
            BY <1>0, <3>1, <3>2, <3>4 DEF TypeOK
    <2>3. local' \in [Threads -> BOOLEAN] /\ failed' \in [Threads -> BOOLEAN]
        BY <1>0 DEF TypeOK, RecreateFails, Goto
    <2>4. /\ draws' \in Nat /\ used' \subseteq Halves /\ reused' \in BOOLEAN
          /\ ops' \in Nat /\ failures' \in Nat
        BY <1>0 DEF TypeOK, RecreateFails, Goto
    <2> QED
        BY <1>0, <2>1, <2>2, <2>3, <2>4
        DEF TypeOK, threadVars, contextVars, drawVars, RecreateFails, Goto
<1>2. Others(t)
    BY <1>0 DEF TypeOK, Others, threadVars, contextVars, drawVars, RecreateFails, Goto
<1>3. /\ pc[t] = "recreate"
      /\ pc'[t] = "multiply"
      /\ draws' = draws + 2
      /\ failures' = failures + 1
      /\ failed'[t]
      /\ blinding'[Mine(t)].A \in {blinding[Mine(t)].A, Half(draws + 1)}
      /\ blinding'[Mine(t)].owner = blinding[Mine(t)].owner
      /\ blinding'[Mine(t)].count = blinding[Mine(t)].count
      /\ blinding'[Mine(t)].context = blinding[Mine(t)].context
      /\ \A w \in Which \ {Mine(t)} : blinding'[w] = blinding[w]
      /\ UNCHANGED << local, factor, unblind, rsaLock, sharedLock, mont, freed, used,
                      reused >>
    <2>1. PICK h \in {blinding[Mine(t)]} \cup {[blinding[Mine(t)] EXCEPT !.A = Half(draws + 1), !.Ai = i] :
                            i \in {blinding[Mine(t)].Ai, Half(draws + 2)}} :
               blinding' = [blinding EXCEPT ![Mine(t)] = h]
        BY DEF RecreateFails
    <2>2. blinding \in [Which -> BlindingStructs] /\ Mine(t) \in Which
        BY <1>0 DEF TypeOK, Mine, Which
    <2>3. /\ h.owner = blinding[Mine(t)].owner /\ h.count = blinding[Mine(t)].count
          /\ h.context = blinding[Mine(t)].context
          /\ h.A \in {blinding[Mine(t)].A, Half(draws + 1)}
        BY <2>1, <2>2 DEF BlindingStructs
    <2>4. blinding'[Mine(t)] = h /\ \A w \in Which \ {Mine(t)} : blinding'[w] = blinding[w]
        BY <2>1, <2>2
    <2> QED
        BY <1>0, <2>3, <2>4
        DEF TypeOK, RecreateFails, Goto, threadVars, contextVars, drawVars
<1>4. LocksAreGivenBack'
    BY <1>0, <1>2, <1>3, NoThreadIsNone DEF LocksAreGivenBack, InRsa, InShared, Mine, Others
<1>5. Stages'
    BY <1>0, <1>2, <1>3, NoThreadIsNone
    DEF Stages, Stage, Made, Converting, Locked, IsBlinded, Mine, Which, Others
<1>6. Blindings' /\ Halving' /\ Drawing'
    <2>0. PICK w \in Which : w = Mine(t)
        BY DEF Mine, Which
    <2>1. /\ w \in Which /\ \A v \in Which \ {w} : blinding'[v] = blinding[v]
          /\ pc[t] = "squareA" => Mine(t) = w
          /\ pc'[t] \in {"squareA", "multiply"} => Mine(t)' = w
        BY <2>0, <1>3 DEF Mine, Which
    <2>2. \A u \in Threads \ {t} : Locked(u) => Mine(u) # w
        BY <2>0, <1>0, <1>3, Exclusive DEF Locked
    <2>3. Made(w)' /\ blinding'[w].A.draw > 0
        BY <2>0, <1>0, <1>3, NoThreadIsNone
        DEF Stages, Stage, Converting, Made, Mine, Which, Blindings, Half, TypeOK
    <2>4. failures' = 0 =>
              /\ failures = 0
              /\ blinding'[w].Ai = IF pc'[t] = "squareA" THEN Squared(blinding'[w].A)
                                                         ELSE blinding'[w].A
        BY <2>0, <1>0, <1>3 DEF TypeOK
    <2>5. used' = used /\ draws <= draws'
        BY <1>0, <1>3 DEF TypeOK
    <2>6. \/ blinding'[w].A.draw \in draws + 1 .. draws'
          \/ /\ blinding'[w].A.draw = blinding[w].A.draw
             /\ blinding'[w].A.squarings >= blinding[w].A.squarings
             /\ blinding'[w].count # -1
             /\ pc'[t] = "multiply" /\ ~ failed'[t] =>
                    \/ blinding'[w].A.squarings > blinding[w].A.squarings
                    \/ blinding[w].count = -1
        <3>1. blinding[w].A.squarings \in Nat /\ blinding[w].A.draw \in Nat /\ draws \in Nat
            BY <1>0 DEF TypeOK, BlindingStructs, Halves
        <3>2. blinding'[w].count # -1 /\ failed'[t]
            BY <1>0, <1>3, <2>0 DEF Stages, Stage, Locked
        <3>3. CASE blinding'[w].A = blinding[w].A
            BY <3>1, <3>2, <3>3
        <3>4. CASE blinding'[w].A = Half(draws + 1)
            <4>1. blinding'[w].A.draw = draws + 1 /\ draws' = draws + 2
                BY <1>3, <3>4 DEF Half
            <4> QED
                BY <3>1, <4>1
        <3> QED
            BY <1>3, <2>0, <3>3, <3>4
    <2> QED
        BY <1>0, <1>1, <1>2, <2>1, <2>2, <2>3, <2>4, <2>5, <2>6, BlindingStep
<1>7. Undoing'
    <2>1. ~ IsBlinded(t)'
        BY <1>0, <1>3 DEF Stages, Stage, IsBlinded
    <2>2. failures' # 0
        BY <1>0, <1>3 DEF TypeOK
    <2>3. \A u \in Threads \ {t} : local[u] => blinding'["own"].Ai = blinding["own"].Ai
        <3> SUFFICES ASSUME NEW u \in Threads \ {t}, local[u]
                     PROVE  blinding'["own"].Ai = blinding["own"].Ai
            OBVIOUS
        <3>1. ~ local[t]
            BY <1>0, Exclusive
        <3> QED
            BY <1>3, <3>1 DEF Mine, Which
    <2> QED
        BY <1>0, <1>2, <2>1, <2>2, <2>3, UndoingAlone
<1>8. Contexts'
    <2>1. ~ IsBlinded(t)' /\ pc'[t] # "made"
        BY <1>0, <1>3 DEF Stages, Stage, IsBlinded
    <2>2. \A w \in Which : blinding'[w].context \in {blinding[w].context, mont["n"]}
        BY <1>3 DEF Which
    <2> QED
        BY <1>0, <1>2, <1>3, <2>1, <2>2, ContextsAlone
<1>9. NoFactorTwice'
    BY <1>0, <1>3 DEF NoFactorTwice
<1> QED
    BY <1>1, <1>4, <1>5, <1>6, <1>7, <1>8, <1>9 DEF IInv

\* A number is blinded.
LEMMA MultiplyStep ==
    ASSUME IInv, NEW t \in Threads, Multiply(t)
    PROVE  IInv'
<1>0. TypeOK /\ LocksAreGivenBack /\ Blindings /\ Stages /\ Undoing /\ Halving
      /\ Drawing /\ Contexts /\ NoFactorTwice
    BY DEF IInv
<1>1. TypeOK'
    <2>1. pc' \in [Threads -> Labels]
        BY <1>0 DEF TypeOK, Labels, Multiply, Goto
    <2>2. todo' \in [Threads -> Seq(Moduli)]
        <3>1. Primes \in Seq(Moduli) /\ "n" \in Moduli
            BY PrimesAreListed DEF Moduli
        <3>2. Append(Primes, "n") \in Seq(Moduli)
            BY <3>1
        <3> QED
            BY <1>0, <3>2 DEF TypeOK, Multiply
    <2>3. factor' \in [Threads -> Factors] /\ unblind' \in [Threads -> Halves]
        <3>1. \A w \in Which : blinding[w].A \in Halves /\ blinding[w].Ai \in Halves
            BY <1>0 DEF TypeOK, BlindingStructs
        <3>2. NoHalf \in Halves /\ Mine(t) \in Which /\ "shared" \in Which
            BY DEF NoHalf, Halves, Mine, Which
        <3>3. factor' = [factor EXCEPT ![t] = [by |-> blinding[Mine(t)].A, undo |-> blinding[Mine(t)].Ai]]
            BY DEF Multiply
        <3>4. factor' \in [Threads -> Factors]
            BY <1>0, <3>1, <3>2, <3>3 DEF TypeOK, Factors
        <3>5. unblind' = [unblind EXCEPT ![t] = IF local[t] THEN NoHalf ELSE blinding["shared"].Ai]
            BY DEF Multiply
        <3>6. unblind' \in [Threads -> Halves]
            BY <1>0, <3>1, <3>2, <3>5 DEF TypeOK
        <3> QED
            BY <3>4, <3>6
    <2>4. rsaLock' \in Threads \cup {NoThread} /\ sharedLock' \in Threads \cup {NoThread}
        BY <1>0 DEF TypeOK, Multiply, Goto
    <2>5. /\ draws' \in Nat /\ used' \subseteq Halves /\ reused' \in BOOLEAN
          /\ ops' \in Nat /\ failures' \in Nat
        <3>1. blinding[Mine(t)].A \in Halves
            BY <1>0 DEF TypeOK, BlindingStructs, Mine, Which
        <3>2. used' \subseteq Halves /\ reused' \in BOOLEAN
            BY <1>0, <3>1 DEF TypeOK, Multiply
        <3> QED
            BY <1>0, <3>2 DEF TypeOK, Multiply
    <2> QED
        BY <1>0, <2>1, <2>2, <2>3, <2>4, <2>5
        DEF TypeOK, threadVars, contextVars, drawVars, Multiply, Goto
<1>2. Others(t)
    BY <1>0 DEF TypeOK, Others, threadVars, contextVars, drawVars, Multiply, Goto
<1>3. /\ pc[t] = "multiply"
      /\ pc'[t] = "context"
      /\ factor'[t] = [by |-> blinding[Mine(t)].A, undo |-> blinding[Mine(t)].Ai]
      /\ ~ local[t] => unblind'[t] = blinding["shared"].Ai
      /\ used' = used \cup {blinding[Mine(t)].A}
      /\ reused' = (reused \/ (blinding[Mine(t)].A \in used /\ ~ failed[t]))
      /\ sharedLock' = IF local[t] THEN sharedLock ELSE NoThread
      /\ todo'[t] = Append(Primes, "n")
      /\ UNCHANGED << local, failed, rsaLock, blinding, mont, freed, draws, failures >>
    BY <1>0, NoThreadIsNone, CounterIsPositive
    DEF TypeOK, Which, Mine, IsBlinded, BlindingStructs, threadVars, contextVars, drawVars,
        Multiply, Goto
<1>4. LocksAreGivenBack'
    BY <1>0, <1>2, <1>3, NoThreadIsNone DEF LocksAreGivenBack, InRsa, InShared, Mine, Others
<1>5. Stages'
    BY <1>0, <1>2, <1>3, NoThreadIsNone
    DEF Stages, Stage, Made, Converting, Locked, IsBlinded, Mine, Which, Others
<1>6. Blindings' /\ Halving' /\ Drawing'
    <2>1. PICK w \in Which : w = Mine(t)
        BY DEF Mine, Which
    <2>2. /\ \A v \in Which : blinding[v].A.draw \in Nat /\ blinding[v].A.squarings \in Nat
          /\ draws \in Nat
        BY <1>0 DEF TypeOK, BlindingStructs, Halves
    <2>3. Made(w) /\ blinding[w].A.draw > 0 /\ blinding[w].count # -1
        BY <1>0, <1>3, <2>1, NoThreadIsNone
        DEF Stages, Stage, Locked, Converting, Made, Mine, Which, Blindings
    <2>4. ASSUME NEW v \in Which, v # w
          PROVE  blinding[v].A.draw # blinding[w].A.draw
        <3>1. CASE Made(v)
            BY <1>0, <2>3, <2>4, <3>1 DEF Drawing, Which
        <3>2. CASE ~ Made(v)
            <4>1. blinding[v].A.draw = 0
                BY <1>0, <3>2 DEF Blindings, NoBlinding, NoHalf
            <4> QED
                BY <2>3, <4>1
        <3> QED
            BY <3>1, <3>2
    <2>5. Blindings'
        BY <1>0, <1>3 DEF Blindings, Made
    <2>6. Halving'
        <3> SUFFICES ASSUME failures' = 0, NEW v \in Which
                     PROVE  Halved(v)'
            BY DEF Halving
        <3>1. IsBetween(v)' <=> IsBetween(v)
            BY <1>2, <1>3 DEF IsBetween, Mine, Others
        <3> QED
            BY <1>0, <1>3, <3>1 DEF Halving, Halved
    <2>7. \A h \in used' : h \in used \/ h = blinding[w].A
        BY <1>3, <2>1
    <2>8. /\ \A h \in used' : h.draw \in 1 .. draws'
          /\ \A v \in Which : blinding'[v].A.draw <= draws'
          /\ Made("own")' /\ Made("shared")' => blinding'["own"].A.draw # blinding'["shared"].A.draw
        <3>1. blinding[w].A.draw \in 1 .. draws
            BY <1>0, <2>2, <2>3 DEF Drawing
        <3>2. \A h \in used' : h.draw \in 1 .. draws
            BY <1>0, <2>7, <3>1 DEF Drawing
        <3> QED
            BY <1>0, <1>3, <3>2 DEF Drawing, Made
    <2>9. ASSUME NEW v \in Which, NEW h \in used'
          PROVE  Older(h, v)'
        <3>1. CASE h \in used
            BY <1>0, <1>3, <3>1 DEF Drawing, Older
        <3>2. CASE h = blinding[w].A
            <4>1. CASE v = w
                BY <1>3, <2>2, <2>3, <3>2, <4>1 DEF Older
            <4>2. CASE v # w
                BY <1>3, <2>4, <3>2, <4>2 DEF Older
            <4> QED
                BY <4>1, <4>2
        <3> QED
            BY <2>7, <3>1, <3>2
    <2>10. ASSUME NEW u \in Threads, NEW h \in used', pc'[u] = "multiply", ~ failed'[u]
           PROVE  Newest(h, Mine(u))'
        <3>1. u # t /\ pc[u] = "multiply" /\ ~ failed[u] /\ Mine(u)' = Mine(u)
            BY <1>2, <1>3, <2>10 DEF Others, Mine
        <3>2. PICK v \in Which : v = Mine(u) /\ v # w
            BY <1>0, <1>3, <2>1, <3>1, Exclusive DEF Locked, Mine, Which
        <3>3. CASE h \in used
            <4>1. Newest(h, v)
                BY <1>0, <3>1, <3>2, <3>3 DEF Drawing
            <4> QED
                BY <1>3, <3>1, <3>2, <4>1 DEF Newest
        <3>4. CASE h = blinding[w].A
            BY <1>3, <2>4, <3>1, <3>2, <3>4 DEF Newest
        <3> QED
            BY <2>7, <3>3, <3>4
    <2> QED
        BY <2>5, <2>6, <2>8, <2>9, <2>10 DEF Drawing
<1>7. Undoing'
    <2> SUFFICES ASSUME NEW u \in Threads
                 PROVE  Undo(u)'
        BY DEF Undoing
    <2>1. CASE u = t
        <3>1. Inverse(t)' = factor'[t].undo
            BY <1>3 DEF Inverse, Mine
        <3>2. ASSUME failures = 0 PROVE blinding[Mine(t)].A = blinding[Mine(t)].Ai
            <4>1. ~ IsBetween(Mine(t))
                BY <1>0, <1>3, Exclusive DEF IsBetween, Locked
            <4> QED
                BY <1>0, <3>2, <4>1 DEF Halving, Halved, Mine, Which
        <3> QED
            BY <1>3, <2>1, <3>1, <3>2 DEF Undo
    <2>2. CASE u # t
        BY <1>0, <1>2, <1>3, <2>2 DEF Undoing, Undo, Inverse, IsBlinded, Others
    <2> QED
        BY <2>1, <2>2
<1>8. Contexts'
    <2>1. ASSUME NEW m \in Moduli PROVE StillToMake(t, m)'
        <3>1. Primes \in Seq(Moduli) /\ Len(Append(Primes, "n")) = Len(Primes) + 1
            <4>1. Primes \in Seq({Primes[i] : i \in DOMAIN Primes})
                BY PrimesAreListed
            <4> QED
                BY <4>1 DEF Moduli
        <3>2. \E i \in 1 .. Len(Primes) + 1 : Append(Primes, "n")[i] = m
            <4>1. CASE m = "n"
                BY <3>1, <4>1
            <4>2. CASE m # "n"
                <5>1. PICK i \in 1 .. Len(Primes) : Primes[i] = m
                    BY <3>1, <4>2 DEF Moduli
                <5> QED
                    BY <3>1, <5>1
            <4> QED
                BY <4>1, <4>2
        <3> QED
            BY <1>3, <3>1, <3>2 DEF StillToMake
    <2>2. Needs(t)'
        BY <1>3, <2>1 DEF Needs
    <2>3. ASSUME NEW u \in Threads \ {t} PROVE Needs(u)'
        BY <1>0, <1>2, <1>3 DEF Contexts, Needs, StillToMake, IsBlinded, Others
    <2> QED
        BY <1>0, <1>3, <2>2, <2>3 DEF Contexts
<1>9. NoFactorTwice'
    <2>1. ASSUME blinding[Mine(t)].A \in used, ~ failed[t]
          PROVE  FALSE
        <3>1. Newest(blinding[Mine(t)].A, Mine(t))
            BY <1>0, <1>3, <2>1 DEF Drawing
        <3>2. blinding[Mine(t)].A.squarings \in Nat
            BY <1>0, <2>1 DEF TypeOK, Halves
        <3> QED
            BY <3>1, <3>2 DEF Newest
    <2> QED
        BY <1>0, <1>3, <2>1 DEF NoFactorTwice
<1> QED
    BY <1>1, <1>4, <1>5, <1>6, <1>7, <1>8, <1>9 DEF IInv

\* A number is unblinded.
LEMMA InvertStep ==
    ASSUME IInv, NEW t \in Threads, Invert(t)
    PROVE  IInv'
<1>0. TypeOK /\ LocksAreGivenBack /\ Blindings /\ Stages /\ Undoing /\ Halving
      /\ Drawing /\ Contexts /\ NoFactorTwice
    BY DEF IInv
<1>1. TypeOK'
    <2>1. pc' \in [Threads -> Labels]
        BY <1>0 DEF TypeOK, Labels, Invert, Return, Goto
    <2>2. todo' \in [Threads -> Seq(Moduli)]
        BY <1>0 DEF TypeOK, Invert, Return, Goto
    <2>3. factor' \in [Threads -> Factors] /\ unblind' \in [Threads -> Halves]
        BY <1>0 DEF TypeOK, Factors, NoFactor, Halves, NoHalf, Invert, Return, Goto
    <2>4. local' \in [Threads -> BOOLEAN] /\ failed' \in [Threads -> BOOLEAN]
        BY <1>0 DEF TypeOK, Invert, Return, Goto
    <2> QED
        BY <1>0, <2>1, <2>2, <2>3, <2>4
        DEF TypeOK, threadVars, contextVars, drawVars, Invert, Return, Goto
<1>2. Others(t)
    BY <1>0 DEF TypeOK, Others, threadVars, contextVars, drawVars, Invert, Return, Goto
<1>3. /\ pc[t] = "power"
      /\ pc'[t] = "idle"
      /\ ~ local'[t]
      /\ factor'[t] = NoFactor
      /\ UNCHANGED << rsaLock, sharedLock, blinding, mont, freed, draws, used, reused,
                      failures >>
    BY <1>0, NoThreadIsNone, CounterIsPositive
    DEF TypeOK, Which, Mine, IsBlinded, BlindingStructs, threadVars, contextVars, drawVars,
        Invert, Return, Goto
<1>4. LocksAreGivenBack'
    BY <1>0, <1>2, <1>3, NoThreadIsNone DEF LocksAreGivenBack, InRsa, InShared, Mine, Others
<1>5. Stages'
    BY <1>0, <1>2, <1>3, NoThreadIsNone
    DEF Stages, Stage, Made, Converting, Locked, IsBlinded, Mine, Which, Others
<1>6. Blindings' /\ Halving' /\ Drawing'
    BY <1>0, <1>2, <1>3, BlindingsAlone DEF TypeOK
<1>7. Undoing'
    <2>1. ~ IsBlinded(t)' /\ (failures' = 0 => failures = 0)
        BY <1>0, <1>3 DEF TypeOK, Stages, Stage, IsBlinded
    <2>2. \A u \in Threads \ {t} : local[u] => blinding'["own"].Ai = blinding["own"].Ai
        BY <1>0, <1>2, <1>3, NoThreadIsNone, Exclusive DEF Mine, Which, Stages, Stage, Made
    <2> QED
        BY <1>0, <1>2, <2>1, <2>2, UndoingAlone
<1>8. Contexts'
    <2>1. ~ IsBlinded(t)' /\ pc'[t] # "made"
        BY <1>0, <1>3 DEF Stages, Stage, IsBlinded
    <2>2. \A w \in Which : blinding'[w].context \in {blinding[w].context, mont["n"]}
        BY <1>3 DEF Which
    <2> QED
        BY <1>0, <1>2, <1>3, <2>1, <2>2, ContextsAlone
<1>9. NoFactorTwice'
    BY <1>0, <1>3 DEF NoFactorTwice
<1> QED
    BY <1>1, <1>4, <1>5, <1>6, <1>7, <1>8, <1>9 DEF IInv

\* An operation fails.
LEMMA FailStep ==
    ASSUME IInv, NEW t \in Threads, Fail(t)
    PROVE  IInv'
<1>0. TypeOK /\ LocksAreGivenBack /\ Blindings /\ Stages /\ Undoing /\ Halving
      /\ Drawing /\ Contexts /\ NoFactorTwice
    BY DEF IInv
<1>1. TypeOK'
    <2>1. pc' \in [Threads -> Labels]
        BY <1>0 DEF TypeOK, Labels, Fail, Release, Return, Goto
    <2>2. todo' \in [Threads -> Seq(Moduli)]
        BY <1>0 DEF TypeOK, Fail, Release, Return, Goto
    <2>3. factor' \in [Threads -> Factors] /\ unblind' \in [Threads -> Halves]
        BY <1>0 DEF TypeOK, Factors, NoFactor, Halves, NoHalf, Fail, Release, Return, Goto
    <2>4. local' \in [Threads -> BOOLEAN] /\ failed' \in [Threads -> BOOLEAN]
        BY <1>0 DEF TypeOK, Fail, Release, Return, Goto
    <2>5. rsaLock' \in Threads \cup {NoThread} /\ sharedLock' \in Threads \cup {NoThread}
        BY <1>0 DEF TypeOK, Fail, Release, Return, Goto
    <2>6. /\ draws' \in Nat /\ used' \subseteq Halves /\ reused' \in BOOLEAN
          /\ ops' \in Nat /\ failures' \in Nat
        <3>1. ops' = ops /\ failures' = failures + 1 /\ UNCHANGED drawVars
            BY DEF Fail
        <3> QED
            BY <1>0, <3>1 DEF TypeOK, drawVars
    <2> QED
        BY <1>0, <2>1, <2>2, <2>3, <2>4, <2>5, <2>6
        DEF TypeOK, threadVars, contextVars, drawVars, Fail, Release, Return, Goto
<1>2. Others(t)
    BY <1>0
    DEF TypeOK, Others, threadVars, contextVars, drawVars, Fail, Release, Return, Goto
<1>3. /\ pc[t] # "enter"
      /\ pc[t] # "recreate"
      /\ pc'[t] = "idle"
      /\ ~ local'[t]
      /\ factor'[t] = NoFactor
      /\ rsaLock' = IF InRsa(t) THEN NoThread ELSE rsaLock
      /\ sharedLock' = IF InShared(t) THEN NoThread ELSE sharedLock
      /\ failures' = failures + 1
      /\ UNCHANGED << blinding, mont, freed, draws, used, reused >>
    BY <1>0, NoThreadIsNone, CounterIsPositive
    DEF TypeOK, Which, Mine, IsBlinded, BlindingStructs, threadVars, contextVars, drawVars,
        Fail, Release, Return, Goto
<1>4. LocksAreGivenBack'
    BY <1>0, <1>2, <1>3, NoThreadIsNone DEF LocksAreGivenBack, InRsa, InShared, Mine, Others
<1>5. Stages'
    BY <1>0, <1>2, <1>3, NoThreadIsNone
    DEF Stages, Stage, Made, Converting, Locked, IsBlinded, Mine, Which, Others, InRsa,
        InShared
<1>6. Blindings' /\ Halving' /\ Drawing'
    <2>1. failures' # 0
        BY <1>0, <1>3 DEF TypeOK
    <2> QED
        BY <1>0, <1>2, <1>3, <2>1, BlindingsAlone
<1>7. Undoing'
    <2>1. ~ IsBlinded(t)' /\ (failures' = 0 => failures = 0)
        BY <1>0, <1>3 DEF TypeOK, Stages, Stage, IsBlinded
    <2>2. \A u \in Threads \ {t} : local[u] => blinding'["own"].Ai = blinding["own"].Ai
        BY <1>0, <1>2, <1>3, NoThreadIsNone, Exclusive DEF Mine, Which, Stages, Stage, Made
    <2> QED
        BY <1>0, <1>2, <2>1, <2>2, UndoingAlone
<1>8. Contexts'
    <2>1. ~ IsBlinded(t)' /\ pc'[t] # "made"
        BY <1>0, <1>3 DEF Stages, Stage, IsBlinded
    <2>2. \A w \in Which : blinding'[w].context \in {blinding[w].context, mont["n"]}
        BY <1>3 DEF Which
    <2> QED
        BY <1>0, <1>2, <1>3, <2>1, <2>2, ContextsAlone
<1>9. NoFactorTwice'
    BY <1>0, <1>3 DEF NoFactorTwice
<1> QED
    BY <1>1, <1>4, <1>5, <1>6, <1>7, <1>8, <1>9 DEF IInv

-----------------------------------------------------------------------------
(* Theorems *)

\* A key that nobody has used satisfies the invariant.
LEMMA InitInv == Init => IInv
<1> SUFFICES ASSUME Init PROVE IInv
    OBVIOUS
<1>1. TypeOK
    <2>1. NoHalf \in Halves /\ NoFactor \in Factors /\ << >> \in Seq(Moduli)
        BY DEF NoHalf, Halves, NoFactor, Factors
    <2>2. NoBlinding \in BlindingStructs
        BY <2>1, CounterIsPositive DEF NoBlinding, BlindingStructs
    <2> QED
        BY <2>1, <2>2 DEF Init, TypeOK, Labels
<1>2. LocksAreGivenBack
    BY NoThreadIsNone DEF Init, LocksAreGivenBack, InRsa, InShared
<1>3. Blindings
    BY DEF Init, Blindings, Made, NoBlinding, Which
<1>4. Stages
    BY DEF Init, Stages, Stage, Converting, Locked, IsBlinded
<1>5. Undoing /\ Halving
    <2>1. Undoing
        BY DEF Init, Undoing, Undo, IsBlinded
    <2>2. \A w \in Which : blinding[w] = NoBlinding /\ ~ IsBetween(w)
        BY DEF Init, Which, IsBetween
    <2> QED
        BY <2>1, <2>2 DEF Halving, Halved, NoBlinding
<1>6. Drawing
    <2>1. used = {} /\ draws = 0 /\ \A w \in Which : blinding[w] = NoBlinding
        BY DEF Init, Which
    <2> QED
        BY <2>1 DEF Drawing, Made, Which, NoBlinding, NoHalf
<1>7. Contexts
    BY DEF Init, Contexts, Needs, IsBlinded, NoBlinding, Which
<1> QED
    BY <1>1, <1>2, <1>3, <1>4, <1>5, <1>6, <1>7 DEF IInv, Init, NoFactorTwice

\* Nothing changes.
LEMMA StutterInv == IInv /\ UNCHANGED vars => IInv'
<1> SUFFICES ASSUME IInv, UNCHANGED vars PROVE IInv'
    OBVIOUS
<1> USE DEF vars, threadVars, contextVars, drawVars
<1>1. TypeOK' /\ LocksAreGivenBack' /\ Blindings' /\ Stages'
    BY DEF IInv, TypeOK, LocksAreGivenBack, InRsa, InShared, Blindings, Made, Stages, Stage,
           Converting, Locked, Mine, IsBlinded
<1>2. Undoing' /\ Halving'
    BY DEF IInv, Undoing, Undo, IsBlinded, Inverse, Halving, Halved, IsBetween, Mine
<1>3. Drawing'
    BY DEF IInv, Drawing, Older, Newest, Mine, Made
<1>4. Contexts' /\ NoFactorTwice'
    BY DEF IInv, Contexts, Needs, StillToMake, IsBlinded, NoFactorTwice
<1> QED
    BY <1>1, <1>2, <1>3, <1>4 DEF IInv

\* The invariant holds whatever the threads do with the key.
THEOREM IInvHolds == Spec => []IInv
<1>1. IInv /\ [Next]_vars => IInv'
    <2> SUFFICES ASSUME IInv, [Next]_vars PROVE IInv'
        OBVIOUS
    <2>1. ASSUME NEW t \in Threads, NEW kind \in Kinds, Begin(t, kind) PROVE IInv'
        BY <2>1, BeginStep
    <2>2. ASSUME NEW t \in Threads, ReadContexts(t) \/ SetContext(t) PROVE IInv'
        BY <2>2, ReadContextsStep, SetContextStep
    <2>3. ASSUME NEW t \in Threads, EnterRsa(t) \/ SetupOwn(t) \/ SetupShared(t) PROVE IInv'
        BY <2>3, EnterRsaStep, SetupOwnStep, SetupSharedStep
    <2>4. ASSUME NEW t \in Threads,
                 Convert(t) \/ SquareAi(t) \/ SquareA(t) \/ Recreate(t) \/ RecreateFails(t)
          PROVE  IInv'
        BY <2>4, ConvertStep, SquareAiStep, SquareAStep, RecreateStep, RecreateFailsStep
    <2>5. ASSUME NEW t \in Threads, Multiply(t) \/ Invert(t) \/ Fail(t) PROVE IInv'
        BY <2>5, MultiplyStep, InvertStep, FailStep
    <2>6. CASE UNCHANGED vars
        BY <2>6, StutterInv
    <2> QED
        BY <2>1, <2>2, <2>3, <2>4, <2>5, <2>6 DEF Next, Step
<1> QED
    BY InitInv, <1>1, PTL DEF Spec

\* Each variable holds what it is meant to, for any number of threads, any key and
\* any number of operations and failures.
THEOREM TypeCorrect == Spec => []TypeOK
<1>1. IInv => TypeOK
    BY DEF IInv
<1> QED
    BY <1>1, IInvHolds, PTL

\* The locks of the key and of the shared blinding are held by the thread that is in
\* what they guard and by no other, and every failure gives them back
\* (rsa_get_blinding, rsa_blinding_convert).
THEOREM LocksHeld == Spec => []LocksAreGivenBack
<1>1. IInv => LocksAreGivenBack
    BY DEF IInv
<1> QED
    BY <1>1, IInvHolds, PTL

\* However many threads share a key, each number is undone with what belongs to the
\* factor it was blinded with (rsa_blinding_convert, rsa_blinding_invert).
THEOREM RightResults == Spec => []ResultsAreRight
<1>1. IInv => ResultsAreRight
    BY DEF IInv, Stages, Stage, Undoing, Undo, ResultsAreRight
<1> QED
    BY <1>1, IInvHolds, PTL

\* As long as factors can be drawn, no two numbers are blinded with the same one
\* (BN_BLINDING_update).
THEOREM NoFactorIsReused == Spec => []NoFactorTwice
<1>1. IInv => NoFactorTwice
    BY DEF IInv
<1> QED
    BY <1>1, IInvHolds, PTL

\* A Montgomery context is there when a thread computes with it, and what has been
\* freed is held by nobody (BN_MONT_CTX_set_locked).
THEOREM ContextsSafe == Spec => []ContextsOutliveUsers
<1>1. IInv => ContextsOutliveUsers
    <2> SUFFICES ASSUME IInv PROVE ContextsOutliveUsers
        OBVIOUS
    <2>1. ASSUME NEW t \in Threads, pc[t] = "power", NEW m \in Moduli
          PROVE  mont[m] # NoThread
        BY <2>1 DEF IInv, Stages, Stage, Contexts, Needs
    <2>2. ASSUME NEW u, NEW m, << u, m >> \in freed
          PROVE  u \in Threads /\ m \in Moduli /\ mont[m] # NoThread /\ mont[m] # u
        BY <2>2 DEF IInv, TypeOK, Contexts
    <2>3. \A m \in Moduli : << mont[m], m >> \notin freed
        BY <2>2
    <2>4. \A w \in Which : << blinding[w].context, "n" >> \notin freed
        BY <2>2, NoThreadIsNone DEF IInv, Contexts
    <2> QED
        BY <2>1, <2>3, <2>4 DEF ContextsOutliveUsers
<1> QED
    BY <1>1, IInvHolds, PTL
=============================================================================
