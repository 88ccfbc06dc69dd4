-------------------------- MODULE CheckQueue_proofs --------------------------
(***************************************************************************)
(* Proofs about CheckQueue, for any number of workers and checks and any   *)
(* batch size.  The inductive invariant is Inv.  Every thread step that    *)
(* looks at the queue ends in Settle, so the proof has two halves: each    *)
(* caller of Settle establishes Ready of the values it passes, and Settle  *)
(* takes Ready back to Inv.                                                *)
(***************************************************************************)
EXTENDS CheckQueue, FiniteSetTheorems, TLAPS

Typed ==
    /\ queue \in Seq(Checks)
    /\ nIdle \in Int /\ nTotal \in Int /\ nTodo \in Int
    /\ fAllOk \in BOOLEAN /\ ret \in BOOLEAN
    /\ pc \in [Threads -> PCs]
    /\ vChecks \in [Threads -> SUBSET Checks]
    /\ nNow \in [Threads -> Nat]
    /\ fOk \in [Threads -> BOOLEAN]
    /\ added \in SUBSET Checks

\* A thread holds a batch, which is not empty, exactly while it runs it.
BatchHeld ==
    \A t \in Threads :
        IF pc[t] \in {"exec", "done"}
        THEN vChecks[t] /= {} /\ nNow[t] = Cardinality(vChecks[t])
        ELSE vChecks[t] = {}

\* What a thread's own verdict says, relative to the verdict ok: it starts
\* negative only if ok is, and after the batch it also stands for the batch.
Verdict(u, ok) ==
    /\ pc[u] = "exec" /\ ~fOk[u] => ~ok
    /\ pc[u] = "done" /\ ~fOk[u] => ~ok \/ ~(vChecks[u] \subseteq Passes)
    /\ pc[u] = "done" /\ fOk[u] => vChecks[u] \subseteq Passes

Verdicts == \A u \in Threads : Verdict(u, fAllOk)

OnlyAdded == Outstanding \subseteq added /\ (pc[Master] = "off" => added = {})

\* The threads other than t that p places in Loop, and those it has idle.
LoopBut(t, p) == {u \in Threads \ {t} : p[u] \in {"exec", "done", "wait", "woken", "gone"}}
IdleBut(t, p) == {u \in Threads \ {t} : p[u] \in {"wait", "woken", "gone"}}

\* The checks outstanding once thread t has accounted for its batch.
HeldBut(t) == UNION {vChecks[u] : u \in Threads \ {t}}
Rest(t) == Queued \cup HeldBut(t)

Inv == Typed /\ BatchHeld /\ CountersAgree /\ OnePlace /\ FailureKept /\ Verdicts /\ OnlyAdded

\* What the arguments of Settle say about the state it is called in.
Ready(t, p, idle, total, todo, ok) ==
    /\ p \in [Threads -> PCs]
    /\ ok \in BOOLEAN
    /\ \A u \in Threads : p[u] = pc[u] \/ (pc[u] = "wait" /\ p[u] = "woken")
    /\ idle = Cardinality(IdleBut(t, p))
    /\ total = Cardinality(LoopBut(t, p)) + 1
    /\ todo = Cardinality(Rest(t))
    /\ added \subseteq Passes <=> ok /\ Rest(t) \subseteq Passes
    /\ \A u \in Threads \ {t} : Verdict(u, ok)
    /\ pc[Master] = "off" => added = {} /\ t /= Master

-----------------------------------------------------------------------------
\* The slice of a sequence without duplicates has as many elements as places.
LEMMA SliceCardinality ==
    ASSUME NEW S, NEW s \in Seq(S), NEW lo \in 0 .. Len(s),
           \A i, j \in DOMAIN s : s[i] = s[j] => i = j
    PROVE  /\ IsFiniteSet({s[i] : i \in lo + 1 .. Len(s)})
           /\ Cardinality({s[i] : i \in lo + 1 .. Len(s)}) = Len(s) - lo
<1> DEFINE I == lo + 1 .. Len(s)
           T == {s[i] : i \in I}
           f == [i \in I |-> s[i]]
<1>1. Len(s) \in Nat /\ DOMAIN s = 1 .. Len(s) /\ lo \in Nat /\ lo <= Len(s)
  OBVIOUS
<1>2. I \subseteq DOMAIN s
  BY <1>1
<1>3. f \in Bijection(I, T)
  <2>1. f \in [I -> T]
    OBVIOUS
  <2>2. \A i, j \in I : f[i] = f[j] => i = j
    BY <1>2
  <2>3. \A y \in T : \E i \in I : f[i] = y
    OBVIOUS
  <2> QED BY <2>1, <2>2, <2>3 DEF Bijection, Injection, Surjection, IsInjective
<1>4. IsFiniteSet(I) /\ Cardinality(I) = Len(s) - lo
  <2>1. lo + 1 \in Int /\ Len(s) \in Int
    BY <1>1
  <2>2. /\ IsFiniteSet(I)
        /\ Cardinality(I) = IF lo + 1 > Len(s) THEN 0 ELSE Len(s) - (lo + 1) + 1
    BY <2>1, FS_Interval
  <2>3. \A n, k \in Nat : k <= n =>
            (IF k + 1 > n THEN 0 ELSE n - (k + 1) + 1) = n - k
    OBVIOUS
  <2> QED BY <1>1, <2>2, <2>3
<1>5. ExistsBijection(I, T)
  BY <1>3 DEF ExistsBijection
<1> QED BY <1>4, <1>5, FS_Bijection

\* A batch is at least one check and never more than the queue holds.
LEMMA BatchSizeBounds ==
    ASSUME queue \in Seq(Checks), queue /= <<>>,
           NEW idle \in Nat, NEW total \in Nat
    PROVE  BatchSize(idle, total) \in 1 .. Len(queue)
<1> DEFINE d == total + idle + 1
           share == Len(queue) \div d
<1>1. Len(queue) \in Nat \ {0}
  OBVIOUS
<1>2. d \in Nat \ {0}
  OBVIOUS
<1>3. \A n \in Nat, e \in Nat \ {0} : n \div e \in Nat /\ n \div e <= n
  OBVIOUS
<1>4. share \in Nat /\ share <= Len(queue)
  <2> HIDE DEF d
  <2> QED BY <1>1, <1>2, <1>3
<1> QED BY <1>1, <1>4, CheckQueueAssumption DEF BatchSize

\* There are finitely many threads, so they can be counted.
LEMMA ThreadsFinite == IsFiniteSet(Threads)
BY CheckQueueAssumption, FS_AddElement DEF Threads

\* A set of threads, counted with and without one of them.
LEMMA CountBut ==
    ASSUME NEW all \in SUBSET Threads, NEW t, NEW others, others = all \ {t}
    PROVE  /\ Cardinality(others) \in Nat
           /\ Cardinality(all) = IF t \in all THEN Cardinality(others) + 1
                                              ELSE Cardinality(others)
<1>1. IsFiniteSet(others) /\ IsFiniteSet(all)
  BY ThreadsFinite, FS_Subset
<1>2. Cardinality(others) \in Nat /\ Cardinality(all) \in Nat
  BY <1>1, FS_CardinalityType
<1>3. Cardinality(others) = IF t \in all THEN Cardinality(all) - 1 ELSE Cardinality(all)
  BY <1>1, FS_RemoveElement
<1> QED BY <1>2, <1>3

-----------------------------------------------------------------------------
\* The checks outstanding after thread t replaced its batch by B.
LEMMA HeldAfter ==
    ASSUME Typed, NEW t \in Threads, NEW B \in SUBSET Checks,
           vChecks' = [vChecks EXCEPT ![t] = B]
    PROVE  /\ UNION {vChecks'[u] : u \in Threads} = HeldBut(t) \cup B
           /\ vChecks'[t] = B
           /\ \A u \in Threads \ {t} : vChecks'[u] = vChecks[u]
<1>1. vChecks'[t] = B /\ \A u \in Threads \ {t} : vChecks'[u] = vChecks[u]
  BY DEF Typed
<1>2. UNION {vChecks'[u] : u \in Threads} = HeldBut(t) \cup B
  BY <1>1 DEF HeldBut
<1> QED BY <1>1, <1>2

\* What all threads hold is what t holds and what the others hold.
LEMMA HeldSplit ==
    ASSUME Typed, NEW t \in Threads
    PROVE  Outstanding = Rest(t) \cup vChecks[t]
BY DEF Typed, Outstanding, Rest, HeldBut

\* Finitely many checks are outstanding.
LEMMA OutstandingFinite ==
    ASSUME Typed
    PROVE  /\ IsFiniteSet(Outstanding)
           /\ \A t \in Threads : IsFiniteSet(Rest(t)) /\ IsFiniteSet(vChecks[t])
<1>1. Outstanding \subseteq Checks
  BY DEF Typed, Outstanding, Queued
<1>2. IsFiniteSet(Outstanding)
  BY <1>1, FS_Subset, CheckQueueAssumption
<1>3. ASSUME NEW t \in Threads
      PROVE  IsFiniteSet(Rest(t)) /\ IsFiniteSet(vChecks[t])
  <2>1. Rest(t) \subseteq Outstanding /\ vChecks[t] \subseteq Outstanding
    BY HeldSplit
  <2> QED BY <1>2, <2>1, FS_Subset
<1> QED BY <1>2, <1>3

\* The counters after t has moved to x, from the counts over the others.
LEMMA CountAfter ==
    ASSUME NEW t \in Threads, NEW p \in [Threads -> PCs], NEW x \in PCs,
           pc' = [p EXCEPT ![t] = x]
    PROVE  /\ Cardinality(IdleBut(t, p)) \in Nat /\ Cardinality(LoopBut(t, p)) \in Nat
           /\ Cardinality(Idle') =
                  Cardinality(IdleBut(t, p)) + IF x \in {"wait", "woken", "gone"} THEN 1 ELSE 0
           /\ Cardinality(InLoop') =
                  Cardinality(LoopBut(t, p)) + IF x \in {"off", "adding"} THEN 0 ELSE 1
<1>1. pc' \in [Threads -> PCs] /\ pc'[t] = x /\ \A u \in Threads \ {t} : pc'[u] = p[u]
  OBVIOUS
<1>2. /\ IdleBut(t, p) = Idle' \ {t} /\ LoopBut(t, p) = InLoop' \ {t}
      /\ Idle' \in SUBSET Threads /\ InLoop' \in SUBSET Threads
  BY <1>1 DEF IdleBut, LoopBut, Idle, InLoop
<1>3. /\ t \in Idle' <=> x \in {"wait", "woken", "gone"}
      /\ t \in InLoop' <=> x \notin {"off", "adding"}
  BY <1>1 DEF Idle, InLoop, PCs
<1>4. /\ Cardinality(IdleBut(t, p)) \in Nat
      /\ Cardinality(Idle') = IF t \in Idle' THEN Cardinality(IdleBut(t, p)) + 1
                                             ELSE Cardinality(IdleBut(t, p))
  BY <1>2, CountBut
<1>5. /\ Cardinality(LoopBut(t, p)) \in Nat
      /\ Cardinality(InLoop') = IF t \in InLoop' THEN Cardinality(LoopBut(t, p)) + 1
                                                 ELSE Cardinality(LoopBut(t, p))
  BY <1>2, CountBut
<1> QED BY <1>3, <1>4, <1>5

-----------------------------------------------------------------------------
\* A master that finds nothing left returns the verdict and resets it.
LEMMA ReturnInv ==
    ASSUME Inv, NEW t \in Threads, NEW p, NEW idle, NEW total, NEW todo, NEW ok,
           Ready(t, p, idle, total, todo, ok),
           Return(t, p, idle, total, todo, ok)
    PROVE  Inv'
<1> USE DEF Inv
<1>1. /\ t = Master /\ todo = 0 /\ queue' = queue /\ added' = {}
      /\ vChecks' = [vChecks EXCEPT ![t] = {}]
      /\ pc' = [p EXCEPT ![t] = "off"]
      /\ p \in [Threads -> PCs] /\ "off" \in PCs
  BY DEF Return, Ready, PCs
<1>2. Rest(t) = {}
  BY <1>1, OutstandingFinite, FS_EmptySet DEF Ready
<1>3. /\ UNION {vChecks'[u] : u \in Threads} = {}
      /\ \A u \in Threads : vChecks'[u] = {}
  <2>1. UNION {vChecks'[u] : u \in Threads} = HeldBut(t) \cup {}
    BY <1>1, HeldAfter
  <2>2. UNION {vChecks'[u] : u \in Threads} = {}
    BY <1>2, <2>1 DEF Rest
  <2>3. ASSUME NEW u \in Threads, NEW c \in vChecks'[u]
        PROVE  FALSE
    BY <2>2
  <2> QED BY <2>2, <2>3
<1>4. Outstanding' = {} /\ Queued' = {}
  BY <1>1, <1>2, <1>3 DEF Rest, Outstanding, Queued
<1>5. \A u \in Threads : pc'[u] \notin {"exec", "done"}
  <2>1. \A u \in Threads \ {t} : vChecks'[u] = vChecks[u]
    BY <1>1, HeldAfter
  <2>2. \A u \in Threads \ {t} : pc[u] \notin {"exec", "done"}
    BY <1>3, <2>1 DEF BatchHeld
  <2> QED BY <1>1, <2>2 DEF Ready
<1>count. /\ Cardinality(IdleBut(t, p)) \in Nat /\ Cardinality(LoopBut(t, p)) \in Nat
      /\ Cardinality(Idle') = Cardinality(IdleBut(t, p))
      /\ Cardinality(InLoop') = Cardinality(LoopBut(t, p))
  <2>1. /\ Cardinality(IdleBut(t, p)) \in Nat /\ Cardinality(LoopBut(t, p)) \in Nat
        /\ Cardinality(Idle') =
              Cardinality(IdleBut(t, p)) + IF "off" \in {"wait", "woken", "gone"} THEN 1 ELSE 0
        /\ Cardinality(InLoop') =
              Cardinality(LoopBut(t, p)) + IF "off" \in {"off", "adding"} THEN 0 ELSE 1
    <3>1. p \in [Threads -> PCs] /\ "off" \in PCs /\ pc' = [p EXCEPT ![t] = "off"]
      BY <1>1
    <3> HIDE DEF Inv
    <3> QED BY <3>1, CountAfter
  <2> QED BY <2>1
<1>6. Typed'
  <2>1. nIdle' \in Int /\ nTotal' \in Int
    BY <1>count DEF Return, Ready
  <2> QED BY <1>1, <2>1 DEF Typed, Return, Ready, PCs
<1>7. BatchHeld'
  BY <1>3, <1>5 DEF BatchHeld
<1>8. CountersAgree'
  <2>1. nTotal' = Cardinality(InLoop') /\ nIdle' = Cardinality(Idle')
    BY <1>count DEF Return, Ready
  <2>2. nTodo' = Cardinality(Outstanding')
    BY <1>1, <1>4, FS_EmptySet DEF Return
  <2> QED BY <2>1, <2>2 DEF CountersAgree
<1>9. OnePlace'
  BY <1>1, <1>3 DEF OnePlace
<1>10. FailureKept'
  BY <1>1, <1>4 DEF FailureKept, Return
<1>11. Verdicts' /\ OnlyAdded'
  BY <1>1, <1>4, <1>5 DEF Verdicts, Verdict, OnlyAdded
<1> QED BY <1>6, <1>7, <1>8, <1>9, <1>10, <1>11

\* A thread that finds the queue empty is counted idle and blocks.
LEMMA BlockInv ==
    ASSUME Inv, NEW t \in Threads, NEW p, NEW idle, NEW total, NEW todo, NEW ok,
           Ready(t, p, idle, total, todo, ok),
           Block(t, p, idle, total, todo, ok)
    PROVE  Inv'
<1> USE DEF Inv
<1>1. /\ queue' = queue /\ added' = added /\ fAllOk' = ok /\ fOk' = fOk /\ nNow' = nNow
      /\ vChecks' = [vChecks EXCEPT ![t] = {}]
      /\ pc' = [p EXCEPT ![t] = "wait"]
      /\ p \in [Threads -> PCs] /\ "wait" \in PCs
  BY DEF Block, Ready, PCs
<1>2. /\ vChecks'[t] = {} /\ Queued' = Queued
      /\ \A u \in Threads \ {t} : vChecks'[u] = vChecks[u]
      /\ UNION {vChecks'[u] : u \in Threads} = HeldBut(t)
  <2>1. UNION {vChecks'[u] : u \in Threads} = HeldBut(t) \cup {}
    BY <1>1, HeldAfter
  <2>2. vChecks'[t] = {} /\ \A u \in Threads \ {t} : vChecks'[u] = vChecks[u]
    BY <1>1 DEF Typed
  <2> QED BY <1>1, <2>1, <2>2 DEF Queued
<1>3. Outstanding' = Rest(t)
  BY <1>2 DEF Outstanding, Rest
<1>4. /\ pc'[t] = "wait"
      /\ \A u \in Threads \ {t} : pc'[u] = pc[u] \/ (pc[u] = "wait" /\ pc'[u] = "woken")
  BY <1>1 DEF Ready
<1>5. Typed'
  <2>1. nIdle' \in Int /\ nTotal' \in Int
    BY <1>1, CountAfter DEF Block, Ready
  <2>2. nTodo' \in Int
    BY OutstandingFinite, FS_CardinalityType DEF Block, Ready
  <2> QED BY <1>1, <2>1, <2>2 DEF Typed, Block, Ready, PCs
<1>6. BatchHeld'
  BY <1>1, <1>2, <1>4 DEF BatchHeld
<1>7. CountersAgree'
  <2>1. nTotal' = Cardinality(InLoop') /\ nIdle' = Cardinality(Idle')
    BY <1>1, CountAfter DEF Block, Ready
  <2>2. nTodo' = Cardinality(Outstanding')
    BY <1>3 DEF Block, Ready
  <2> QED BY <2>1, <2>2 DEF CountersAgree
<1>8. OnePlace'
  BY <1>1, <1>2 DEF OnePlace
<1>9. FailureKept'
  BY <1>1, <1>3 DEF FailureKept, Ready
<1>10. Verdicts'
  BY <1>1, <1>2, <1>4 DEF Verdicts, Verdict, Ready
<1>11. OnlyAdded'
  <2>1. Outstanding' \subseteq added'
    BY <1>1, <1>3, HeldSplit DEF OnlyAdded
  <2>2. pc'[Master] = "off" => added' = {}
    BY <1>1, <1>4 DEF OnlyAdded, Threads
  <2> QED BY <2>1, <2>2 DEF OnlyAdded
<1> QED BY <1>5, <1>6, <1>7, <1>8, <1>9, <1>10, <1>11

Elems(s)    == {s[i] : i \in DOMAIN s}
Distinct(s) == \A i, j \in DOMAIN s : s[i] = s[j] => i = j
Back(s, n)  == {s[i] : i \in Len(s) - n + 1 .. Len(s)}
Front(s, n) == SubSeq(s, 1, Len(s) - n)

\* Taking a batch off the back splits the queue and keeps what is outstanding.
LEMMA TakeSplits ==
    ASSUME NEW S, NEW s \in Seq(S), Distinct(s), NEW n \in 1 .. Len(s)
    PROVE  /\ Front(s, n) \in Seq(S)
           /\ Distinct(Front(s, n))
           /\ Back(s, n) \in SUBSET S /\ Back(s, n) /= {} /\ Cardinality(Back(s, n)) = n
           /\ Elems(s) = Elems(Front(s, n)) \cup Back(s, n)
           /\ Elems(Front(s, n)) \cap Back(s, n) = {}
<1> DEFINE q == Front(s, n)
           B == Back(s, n)
           keep == Len(s) - n
           I == keep + 1 .. Len(s)
<1>1. keep \in 0 .. Len(s) /\ keep \in Nat /\ n = Len(s) - keep
  OBVIOUS
<1>2. /\ q \in Seq(S) /\ DOMAIN q = 1 .. keep
      /\ \A i \in 1 .. keep : i \in DOMAIN s /\ q[i] = s[i]
  BY <1>1 DEF Front
<1>3. DOMAIN s = (1 .. keep) \cup I /\ (1 .. keep) \cap I = {}
  <2>1. Len(s) \in Nat /\ DOMAIN s = 1 .. Len(s) /\ keep <= Len(s)
    BY <1>1
  <2>2. \A k, m \in Nat : k <= m =>
            1 .. m = (1 .. k) \cup (k + 1 .. m) /\ (1 .. k) \cap (k + 1 .. m) = {}
    OBVIOUS
  <2> HIDE DEF keep
  <2> QED BY <1>1, <2>1, <2>2
<1>4. B = {s[i] : i \in I}
  BY DEF Back
<1>5. Cardinality(B) = n
  <2> HIDE DEF keep, B
  <2> QED BY <1>1, <1>4, SliceCardinality DEF Distinct
<1>6. B \in SUBSET S /\ s[Len(s)] \in B
  BY <1>1 DEF Back
<1> HIDE DEF keep, I, q, B
<1>7. Elems(q) = {s[i] : i \in 1 .. keep}
  BY <1>2 DEF Elems
<1>8. Elems(s) = {s[i] : i \in 1 .. keep} \cup B
  BY <1>3, <1>4 DEF Elems
<1>9. Elems(q) \cap B = {}
  <2> SUFFICES ASSUME NEW i \in 1 .. keep, NEW j \in I, s[i] = s[j]
               PROVE  FALSE
    BY <1>4, <1>7
  <2>1. i \in DOMAIN s /\ j \in DOMAIN s /\ i /= j
    BY <1>3
  <2> QED BY <2>1 DEF Distinct
<1>10. Distinct(q)
  BY <1>2, <1>3 DEF Distinct
<1> QED BY <1>2, <1>5, <1>6, <1>7, <1>8, <1>9, <1>10 DEF q, B

\* A thread that takes a batch off the back of the queue keeps the invariant.
LEMMA TakeInv ==
    ASSUME Inv, NEW t \in Threads, NEW p, NEW idle, NEW total, NEW todo, NEW ok,
           Ready(t, p, idle, total, todo, ok),
           Take(t, p, idle, total, todo, ok)
    PROVE  Inv'
<1> USE DEF Inv
<1> DEFINE n == BatchSize(idle, total)
           B == Back(queue, n)
<1>1. /\ queue /= <<>> /\ queue' = Front(queue, n)
      /\ added' = added /\ fAllOk' = ok
      /\ fOk' = [fOk EXCEPT ![t] = ok] /\ nNow' = [nNow EXCEPT ![t] = n]
      /\ vChecks' = [vChecks EXCEPT ![t] = B]
      /\ pc' = [p EXCEPT ![t] = "exec"]
      /\ p \in [Threads -> PCs] /\ "exec" \in PCs /\ ok \in BOOLEAN
  BY DEF Take, Ready, PCs, Back, Front, Remaining
<1>2. /\ Cardinality(IdleBut(t, p)) \in Nat /\ Cardinality(LoopBut(t, p)) \in Nat
      /\ Cardinality(Idle') = Cardinality(IdleBut(t, p))
      /\ Cardinality(InLoop') = Cardinality(LoopBut(t, p)) + 1
  <2>1. p \in [Threads -> PCs] /\ "exec" \in PCs /\ pc' = [p EXCEPT ![t] = "exec"]
    BY <1>1
  <2>2. /\ Cardinality(IdleBut(t, p)) \in Nat /\ Cardinality(LoopBut(t, p)) \in Nat
        /\ Cardinality(Idle') =
              Cardinality(IdleBut(t, p)) + IF "exec" \in {"wait", "woken", "gone"} THEN 1 ELSE 0
        /\ Cardinality(InLoop') =
              Cardinality(LoopBut(t, p)) + IF "exec" \in {"off", "adding"} THEN 0 ELSE 1
    <3> HIDE DEF Inv
    <3> QED BY <2>1, CountAfter
  <2> QED BY <2>2
<1>3. n \in 1 .. Len(queue)
  <2>1. idle \in Nat /\ total \in Nat
    BY <1>2 DEF Ready
  <2> QED BY <1>1, <2>1, BatchSizeBounds DEF Typed
<1> HIDE DEF n
<1>4. /\ queue' \in Seq(Checks) /\ Distinct(queue')
      /\ B \in SUBSET Checks /\ B /= {} /\ Cardinality(B) = n
      /\ Queued = Queued' \cup B /\ Queued' \cap B = {}
  <2>1. queue \in Seq(Checks) /\ Distinct(queue)
    BY DEF Typed, OnePlace, Distinct
  <2>2. Queued = Elems(queue) /\ Queued' = Elems(Front(queue, n))
    BY <1>1 DEF Queued, Elems
  <2> HIDE DEF Inv
  <2> QED BY <1>1, <1>3, <2>1, <2>2, TakeSplits
<1> HIDE DEF B
<1>5. /\ UNION {vChecks'[u] : u \in Threads} = HeldBut(t) \cup B
      /\ vChecks'[t] = B
      /\ \A u \in Threads \ {t} : vChecks'[u] = vChecks[u]
  BY <1>1, <1>4, HeldAfter
<1>6. Outstanding' = Rest(t)
  BY <1>4, <1>5 DEF Outstanding, Rest
<1>7. /\ pc'[t] = "exec" /\ fOk'[t] = ok /\ nNow'[t] = n
      /\ \A u \in Threads \ {t} :
            /\ pc'[u] = pc[u] \/ (pc[u] = "wait" /\ pc'[u] = "woken")
            /\ fOk'[u] = fOk[u] /\ nNow'[u] = nNow[u]
  BY <1>1 DEF Ready, Typed
<1>8. Typed'
  <2>1. nIdle' \in Int /\ nTotal' \in Int
    BY <1>2 DEF Take, Ready
  <2>2. nTodo' \in Int
    BY OutstandingFinite, FS_CardinalityType DEF Take, Ready
  <2>3. nNow' \in [Threads -> Nat] /\ fOk' \in [Threads -> BOOLEAN]
    BY <1>1, <1>3 DEF Typed
  <2>4. vChecks' \in [Threads -> SUBSET Checks] /\ pc' \in [Threads -> PCs]
    BY <1>1, <1>4 DEF Typed
  <2>5. fAllOk' \in BOOLEAN /\ ret' \in BOOLEAN /\ added' \in SUBSET Checks
    BY <1>1 DEF Typed, Take
  <2> QED BY <1>4, <2>1, <2>2, <2>3, <2>4, <2>5 DEF Typed
<1>9. BatchHeld'
  BY <1>4, <1>5, <1>7 DEF BatchHeld
<1>10. CountersAgree'
  <2>1. nTotal' = Cardinality(InLoop') /\ nIdle' = Cardinality(Idle')
    BY <1>2 DEF Take, Ready
  <2>2. nTodo' = Cardinality(Outstanding')
    BY <1>6 DEF Take, Ready
  <2> QED BY <2>1, <2>2 DEF CountersAgree
<1>11. OnePlace'
  <2>1. \A u \in Threads : vChecks'[u] \cap Queued' = {}
    BY <1>4, <1>5 DEF OnePlace
  <2>2. \A u \in Threads \ {t} : vChecks[u] \cap B = {}
    BY <1>4 DEF OnePlace
  <2>3. \A u, v \in Threads : u /= v => vChecks'[u] \cap vChecks'[v] = {}
    BY <1>5, <2>2 DEF OnePlace
  <2> QED BY <1>4, <2>1, <2>3 DEF OnePlace, Distinct
<1>12. FailureKept'
  BY <1>1, <1>6 DEF FailureKept, Ready
<1>13. Verdicts'
  BY <1>1, <1>5, <1>7 DEF Verdicts, Verdict, Ready
<1>14. OnlyAdded'
  <2>1. Outstanding' \subseteq added'
    BY <1>1, <1>6, HeldSplit DEF OnlyAdded
  <2>2. pc'[Master] = "off" => added' = {}
    BY <1>1, <1>7 DEF OnlyAdded, Threads
  <2> QED BY <2>1, <2>2 DEF OnlyAdded
<1> QED BY <1>8, <1>9, <1>10, <1>11, <1>12, <1>13, <1>14

\* A look at the queue ends in one of the three: return, block, take.
LEMMA SettleInv ==
    ASSUME Inv, NEW t \in Threads, NEW p, NEW idle, NEW total, NEW todo, NEW ok,
           Ready(t, p, idle, total, todo, ok),
           Settle(t, p, idle, total, todo, ok)
    PROVE  Inv'
BY ReturnInv, BlockInv, TakeInv DEF Settle

-----------------------------------------------------------------------------
\* Where t is counted now, from where it stands.
LEMMA CountNow ==
    ASSUME Typed, CountersAgree, NEW t \in Threads
    PROVE  /\ Cardinality(IdleBut(t, pc)) \in Nat /\ Cardinality(LoopBut(t, pc)) \in Nat
           /\ nIdle = Cardinality(IdleBut(t, pc)) +
                         IF pc[t] \in {"wait", "woken", "gone"} THEN 1 ELSE 0
           /\ nTotal = Cardinality(LoopBut(t, pc)) +
                         IF pc[t] \in {"off", "adding"} THEN 0 ELSE 1
<1>1. /\ IdleBut(t, pc) = Idle \ {t} /\ LoopBut(t, pc) = InLoop \ {t}
      /\ Idle \in SUBSET Threads /\ InLoop \in SUBSET Threads
  BY DEF IdleBut, LoopBut, Idle, InLoop
<1>2. /\ t \in Idle <=> pc[t] \in {"wait", "woken", "gone"}
      /\ t \in InLoop <=> pc[t] \notin {"off", "adding"}
  BY DEF Idle, InLoop, PCs, Typed
<1>3. /\ Cardinality(IdleBut(t, pc)) \in Nat
      /\ Cardinality(Idle) = IF t \in Idle THEN Cardinality(IdleBut(t, pc)) + 1
                                           ELSE Cardinality(IdleBut(t, pc))
  BY <1>1, CountBut
<1>4. /\ Cardinality(LoopBut(t, pc)) \in Nat
      /\ Cardinality(InLoop) = IF t \in InLoop THEN Cardinality(LoopBut(t, pc)) + 1
                                               ELSE Cardinality(LoopBut(t, pc))
  BY <1>1, CountBut
<1> QED BY <1>2, <1>3, <1>4 DEF CountersAgree

\* Thread t reaches the loop with values that Settle can work with.
Settles(t) ==
    \E p, idle, total, todo, ok :
        Ready(t, p, idle, total, todo, ok) /\ Settle(t, p, idle, total, todo, ok)

\* A thread that holds no batch enters or re-enters the loop.
LEMMA NoBatchReady ==
    ASSUME Inv, NEW t \in Threads, pc[t] \notin {"exec", "done"},
           pc[t] = "off" => t /= Master,
           NEW idle, idle = Cardinality(IdleBut(t, pc)),
           NEW total, total = Cardinality(LoopBut(t, pc)) + 1
    PROVE  Ready(t, pc, idle, total, nTodo, fAllOk)
<1> USE DEF Inv
<1>1. Rest(t) = Outstanding
  BY HeldSplit DEF BatchHeld
<1>2. pc \in [Threads -> PCs] /\ fAllOk \in BOOLEAN
  BY DEF Typed
<1>3. \A u \in Threads \ {t} : Verdict(u, fAllOk)
  BY DEF Verdicts
<1>4. nTodo = Cardinality(Rest(t))
  BY <1>1 DEF CountersAgree
<1>5. added \subseteq Passes <=> fAllOk /\ Rest(t) \subseteq Passes
  BY <1>1 DEF FailureKept
<1>6. pc[Master] = "off" => added = {} /\ t /= Master
  BY DEF OnlyAdded
<1> QED BY <1>2, <1>3, <1>4, <1>5, <1>6 DEF Ready

\* A thread that enters Loop is counted and looks at the queue.
LEMMA EnterLoopSettles == ASSUME Inv, NEW t \in Threads, EnterLoop(t) PROVE Settles(t)
<1>1. /\ pc[t] \in {"off", "adding"} /\ (pc[t] = "off" => t /= Master)
      /\ Settle(t, pc, nIdle, nTotal + 1, nTodo, fAllOk)
  BY DEF EnterLoop
<1>2. nIdle = Cardinality(IdleBut(t, pc)) /\ nTotal + 1 = Cardinality(LoopBut(t, pc)) + 1
  BY <1>1, CountNow DEF Inv
<1>3. Ready(t, pc, nIdle, nTotal + 1, nTodo, fAllOk)
  BY <1>1, <1>2, NoBatchReady
<1> QED BY <1>1, <1>3 DEF Settles

\* A woken thread stops being idle and looks at the queue again.
LEMMA WakeSettles == ASSUME Inv, NEW t \in Threads, Wake(t) PROVE Settles(t)
<1>1. pc[t] = "woken" /\ Settle(t, pc, nIdle - 1, nTotal, nTodo, fAllOk)
  BY DEF Wake
<1>2. nIdle - 1 = Cardinality(IdleBut(t, pc)) /\ nTotal = Cardinality(LoopBut(t, pc)) + 1
  BY <1>1, CountNow DEF Inv
<1>3. Ready(t, pc, nIdle - 1, nTotal, nTodo, fAllOk)
  BY <1>1, <1>2, NoBatchReady
<1> QED BY <1>1, <1>3 DEF Settles

\* A thread that finished its batch merges its verdict before it looks again.
LEMMA FinishSettles == ASSUME Inv, NEW t \in Threads, Finish(t) PROVE Settles(t)
<1> USE DEF Inv
<1> DEFINE todo == nTodo - nNow[t]
           p == IF todo = 0 /\ t /= Master THEN NotifyMaster(pc) ELSE pc
           ok == fAllOk /\ fOk[t]
<1>1. pc[t] = "done" /\ vChecks[t] /= {} /\ nNow[t] = Cardinality(vChecks[t])
  BY DEF Finish, BatchHeld
<1>2. IsFiniteSet(vChecks[t]) /\ IsFiniteSet(Rest(t))
  BY OutstandingFinite
<1>3. nNow[t] /= 0 /\ todo = Cardinality(Rest(t))
  <2>1. Rest(t) \cap vChecks[t] = {}
    BY DEF OnePlace, Rest, HeldBut
  <2>2. Cardinality(Rest(t) \cup vChecks[t]) =
            Cardinality(Rest(t)) + Cardinality(vChecks[t]) - Cardinality(Rest(t) \cap vChecks[t])
    BY <1>2, FS_Union
  <2>3. Cardinality(Rest(t)) \in Nat /\ Cardinality(vChecks[t]) \in Nat
    BY <1>2, FS_CardinalityType
  <2>4. nTodo = Cardinality(Rest(t) \cup vChecks[t])
    BY HeldSplit DEF CountersAgree
  <2>5. Cardinality(Rest(t) \cap vChecks[t]) = 0 /\ Cardinality(vChecks[t]) /= 0
    BY <1>1, <1>2, <2>1, FS_EmptySet
  <2> QED BY <1>1, <2>2, <2>3, <2>4, <2>5
<1>4. Settle(t, p, nIdle, nTotal, todo, ok)
  BY <1>3 DEF Finish, AllOkAfter
<1>5. Ready(t, p, nIdle, nTotal, todo, ok)
  <2>1. /\ p \in [Threads -> PCs]
        /\ \A u \in Threads : p[u] = pc[u] \/ (pc[u] = "wait" /\ p[u] = "woken")
    BY DEF NotifyMaster, Typed, PCs, Threads
  <2>2. IdleBut(t, p) = IdleBut(t, pc) /\ LoopBut(t, p) = LoopBut(t, pc)
    BY <2>1 DEF IdleBut, LoopBut
  <2>3. nIdle = Cardinality(IdleBut(t, p)) /\ nTotal = Cardinality(LoopBut(t, p)) + 1
    BY <1>1, <2>2, CountNow
  <2>4. added \subseteq Passes <=> ok /\ Rest(t) \subseteq Passes
    <3>1. added \subseteq Passes <=> fAllOk /\ Rest(t) \cup vChecks[t] \subseteq Passes
      BY HeldSplit DEF FailureKept
    <3>2. Verdict(t, fAllOk)
      BY DEF Verdicts
    <3> QED BY <1>1, <3>1, <3>2 DEF Verdict
  <2>5. \A u \in Threads \ {t} : Verdict(u, ok)
    BY DEF Verdicts, Verdict
  <2>6. pc[Master] = "off" => added = {} /\ t /= Master
    BY <1>1 DEF OnlyAdded
  <2>7. ok \in BOOLEAN
    BY DEF Typed
  <2> HIDE DEF p, ok, todo
  <2> QED BY <1>3, <2>1, <2>3, <2>4, <2>5, <2>6, <2>7 DEF Ready
<1> HIDE DEF p, ok, todo, Inv
<1> QED BY <1>4, <1>5 DEF Settles

-----------------------------------------------------------------------------
\* Steps that move one thread without touching the queue or the batches.
LEMMA MoveInv ==
    ASSUME Inv, NEW t \in Threads, NEW x \in PCs,
           UNCHANGED <<queue, counters, local, added, ret>>,
           pc' = [pc EXCEPT ![t] = x],
           \/ pc[t] \in {"wait", "woken"} /\ x \in {"woken", "gone"}
           \/ pc[t] = "off" /\ x = "adding"
    PROVE  Inv'
<1> USE DEF Inv, counters, local
<1>1. pc' \in [Threads -> PCs] /\ pc'[t] = x /\ \A u \in Threads \ {t} : pc'[u] = pc[u]
  BY DEF Typed
<1>2. Typed'
  BY <1>1 DEF Typed
<1>3. Queued' = Queued /\ Outstanding' = Outstanding
  BY DEF Queued, Outstanding
<1>4. Idle' = Idle /\ InLoop' = InLoop
  BY <1>1 DEF Idle, InLoop
<1>5. BatchHeld'
  BY <1>1 DEF BatchHeld
<1>6. CountersAgree'
  BY <1>3, <1>4 DEF CountersAgree
<1>7. OnePlace' /\ FailureKept'
  BY <1>3 DEF OnePlace, FailureKept
<1>8. Verdicts'
  BY <1>1 DEF Verdicts, Verdict
<1>9. OnlyAdded'
  BY <1>1, <1>3 DEF OnlyAdded, Threads
<1> QED BY <1>2, <1>5, <1>6, <1>7, <1>8, <1>9

\* Running the checks of a batch touches the thread alone.
LEMMA ExecuteInv == ASSUME Inv, NEW t \in Threads, Execute(t) PROVE Inv'
<1> USE DEF Inv, counters
<1>1. /\ pc[t] = "exec" /\ "done" \in PCs
      /\ pc' = [pc EXCEPT ![t] = "done"]
      /\ fOk' = [fOk EXCEPT ![t] = @ /\ vChecks[t] \subseteq Passes]
      /\ UNCHANGED <<queue, nIdle, nTotal, nTodo, fAllOk, vChecks, nNow, added, ret>>
  BY DEF Execute, PCs
<1>2. /\ pc' \in [Threads -> PCs] /\ pc'[t] = "done"
      /\ fOk' \in [Threads -> BOOLEAN] /\ (fOk'[t] <=> fOk[t] /\ vChecks[t] \subseteq Passes)
      /\ \A u \in Threads \ {t} : pc'[u] = pc[u] /\ fOk'[u] = fOk[u]
  BY <1>1 DEF Typed
<1>3. Typed'
  BY <1>1, <1>2 DEF Typed
<1>4. Queued' = Queued /\ Outstanding' = Outstanding
  BY <1>1 DEF Queued, Outstanding
<1>5. Idle' = Idle /\ InLoop' = InLoop
  BY <1>1, <1>2 DEF Idle, InLoop
<1>6. BatchHeld'
  BY <1>1, <1>2 DEF BatchHeld
<1>7. CountersAgree'
  BY <1>1, <1>4, <1>5 DEF CountersAgree
<1>8. OnePlace' /\ FailureKept'
  BY <1>1, <1>4 DEF OnePlace, FailureKept
<1>9. Verdicts'
  BY <1>1, <1>2 DEF Verdicts, Verdict
<1>10. OnlyAdded'
  BY <1>1, <1>2, <1>4 DEF OnlyAdded, Threads
<1> QED BY <1>3, <1>6, <1>7, <1>8, <1>9, <1>10

\* Appending a vector of checks that are not in the sequence.
LEMMA AppendDistinct ==
    ASSUME NEW S, NEW s \in Seq(S), NEW b \in Seq(S), Distinct(s), Distinct(b),
           Elems(s) \cap Elems(b) = {}
    PROVE  /\ s \o b \in Seq(S) /\ Distinct(s \o b)
           /\ Elems(s \o b) = Elems(s) \cup Elems(b)
           /\ IsFiniteSet(Elems(b)) /\ Cardinality(Elems(b)) = Len(b)
<1> DEFINE q == s \o b
           m == Len(s)
           n == Len(b)
<1>1. m \in Nat /\ n \in Nat /\ DOMAIN s = 1 .. m /\ DOMAIN b = 1 .. n
  OBVIOUS
<1>2. /\ q \in Seq(S) /\ Len(q) = m + n /\ DOMAIN q = 1 .. m + n
      /\ \A i \in 1 .. m : q[i] = s[i]
      /\ \A i \in 1 .. n : q[m + i] = b[i]
  OBVIOUS
<1>3. \A i \in DOMAIN q : i \in DOMAIN s \/ \E j \in DOMAIN b : i = m + j
  <2> SUFFICES ASSUME NEW i \in 1 .. m + n, i \notin 1 .. m
               PROVE  \E j \in 1 .. n : i = m + j
    BY <1>1, <1>2
  <2>1. i - m \in 1 .. n /\ i = m + (i - m)
    BY <1>1
  <2> QED BY <2>1
<1>4. /\ \A i \in DOMAIN s : i \in DOMAIN q /\ q[i] = s[i]
      /\ \A j \in DOMAIN b : m + j \in DOMAIN q /\ q[m + j] = b[j]
  BY <1>1, <1>2
<1>5. \A j \in DOMAIN b : j \in Int
  BY <1>1
<1> HIDE DEF q, m, n
<1>6. Elems(q) = Elems(s) \cup Elems(b)
  BY <1>3, <1>4 DEF Elems
<1>7. Distinct(q)
  <2> SUFFICES ASSUME NEW i \in DOMAIN q, NEW j \in DOMAIN q, q[i] = q[j]
               PROVE  i = j
    BY DEF Distinct
  <2>1. CASE i \in DOMAIN s /\ j \in DOMAIN s
    BY <1>4, <2>1 DEF Distinct
  <2>2. ASSUME NEW k \in DOMAIN b, i = m + k, NEW l \in DOMAIN b, j = m + l
        PROVE  i = j
    BY <1>4, <2>2 DEF Distinct
  <2>3. ASSUME NEW k \in DOMAIN b, i = m + k, j \in DOMAIN s
        PROVE  FALSE
    BY <1>4, <2>3 DEF Elems
  <2>4. ASSUME NEW k \in DOMAIN b, j = m + k, i \in DOMAIN s
        PROVE  FALSE
    BY <1>4, <2>4 DEF Elems
  <2> QED BY <1>3, <2>1, <2>2, <2>3, <2>4
<1>8. IsFiniteSet(Elems(b)) /\ Cardinality(Elems(b)) = Len(b)
  <2>1. 0 \in 0 .. Len(b) /\ Len(b) - 0 = Len(b) /\ DOMAIN b = 0 + 1 .. Len(b)
    OBVIOUS
  <2>2. Elems(b) = {b[i] : i \in 0 + 1 .. Len(b)}
    BY <2>1 DEF Elems
  <2>3. /\ IsFiniteSet({b[i] : i \in 0 + 1 .. Len(b)})
        /\ Cardinality({b[i] : i \in 0 + 1 .. Len(b)}) = Len(b) - 0
    BY <2>1, SliceCardinality DEF Distinct
  <2> QED BY <2>1, <2>2, <2>3
<1> QED BY <1>2, <1>6, <1>7, <1>8 DEF q

\* Adding checks keeps the invariant: they are new to the queue.
LEMMA AddInv == ASSUME Inv, NEW batch \in Batches, Add(batch) PROVE Inv'
<1> USE DEF Inv
<1> DEFINE new == Elems(batch)
<1>1. batch \in Seq(Checks) /\ Distinct(batch)
  BY DEF Batches, Distinct
<1>2. /\ pc[Master] = "adding" /\ new \cap added = {}
      /\ queue' = queue \o batch /\ nTodo' = nTodo + Len(batch)
      /\ added' = added \cup new
      /\ NotifyWorkers(Len(batch))
      /\ UNCHANGED <<nIdle, nTotal, fAllOk, vChecks, nNow, fOk, ret>>
  BY DEF Add, Elems, local
<1>3. /\ queue \in Seq(Checks) /\ Distinct(queue)
      /\ Queued = Elems(queue) /\ Queued' = Elems(queue \o batch)
      /\ Queued \subseteq added
  BY <1>2 DEF Typed, OnePlace, Distinct, Queued, Elems, OnlyAdded, Outstanding
<1>4. /\ queue' \in Seq(Checks) /\ Distinct(queue')
      /\ Queued' = Queued \cup new
      /\ IsFiniteSet(new) /\ Cardinality(new) = Len(batch)
  <2>1. Elems(queue) \cap Elems(batch) = {}
    BY <1>2, <1>3
  <2> HIDE DEF Inv, new
  <2> QED BY <1>1, <1>2, <1>3, <2>1, AppendDistinct DEF new
<1>5. new \in SUBSET Checks
  BY <1>1 DEF Elems
<1>6. /\ pc' \in [Threads -> PCs]
      /\ \A u \in Threads : pc'[u] = pc[u] \/ (pc[u] = "wait" /\ pc'[u] = "woken")
  BY <1>2 DEF NotifyWorkers, Typed, PCs
<1> HIDE DEF new
<1>7. Outstanding' = Outstanding \cup new /\ Outstanding \cap new = {}
  BY <1>2, <1>4 DEF Outstanding, OnlyAdded
<1>8. Typed'
  BY <1>1, <1>2, <1>4, <1>5, <1>6 DEF Typed
<1>9. BatchHeld'
  BY <1>2, <1>6 DEF BatchHeld
<1>10. CountersAgree'
  <2>1. Idle' = Idle /\ InLoop' = InLoop
    BY <1>6 DEF Idle, InLoop
  <2>2. Cardinality(Outstanding \cup new) =
            Cardinality(Outstanding) + Cardinality(new) - Cardinality(Outstanding \cap new)
    BY <1>4, OutstandingFinite, FS_Union
  <2>3. Cardinality(Outstanding) \in Nat /\ Cardinality(new) \in Nat
    BY <1>4, OutstandingFinite, FS_CardinalityType
  <2>4. Cardinality(Outstanding \cap new) = 0
    BY <1>7, FS_EmptySet
  <2>5. nTodo' = Cardinality(Outstanding')
    BY <1>2, <1>4, <1>7, <2>2, <2>3, <2>4 DEF CountersAgree
  <2> QED BY <1>2, <2>1, <2>5 DEF CountersAgree
<1>11. OnePlace'
  <2>1. \A u \in Threads : vChecks'[u] \cap Queued' = {}
    BY <1>2, <1>4, <1>7 DEF OnePlace, Outstanding
  <2> QED BY <1>2, <1>4, <2>1 DEF OnePlace, Distinct
<1>12. FailureKept'
  BY <1>2, <1>7 DEF FailureKept
<1>13. Verdicts'
  BY <1>2, <1>6 DEF Verdicts, Verdict
<1>14. OnlyAdded'
  BY <1>2, <1>6, <1>7 DEF OnlyAdded, Threads
<1> QED BY <1>8, <1>9, <1>10, <1>11, <1>12, <1>13, <1>14

\* The invariant holds when the queue is constructed.
LEMMA InitInv == Init => Inv
<1> SUFFICES ASSUME Init PROVE Inv
  OBVIOUS
<1> USE DEF Init
<1>1. Typed
  BY DEF Typed, PCs
<1>2. Queued = {} /\ Outstanding = {} /\ Idle = {} /\ InLoop = {}
  BY DEF Queued, Outstanding, Idle, InLoop
<1>3. CountersAgree
  BY <1>2, FS_EmptySet DEF CountersAgree
<1>4. BatchHeld /\ OnePlace /\ Verdicts
  BY DEF BatchHeld, OnePlace, Verdicts, Verdict
<1>5. FailureKept /\ OnlyAdded
  BY <1>2 DEF FailureKept, OnlyAdded
<1> QED BY <1>1, <1>3, <1>4, <1>5 DEF Inv

\* Every step keeps the invariant.
LEMMA NextInv == Inv /\ [Next]_vars => Inv'
<1> SUFFICES ASSUME Inv, [Next]_vars PROVE Inv'
  OBVIOUS
<1>1. ASSUME NEW t \in Threads, ThreadStep(t) PROVE Inv'
  <2>1. CASE Execute(t)
    BY <2>1, ExecuteInv
  <2>2. CASE EnterLoop(t) \/ Finish(t) \/ Wake(t)
    <3>1. Settles(t)
      BY <2>2, EnterLoopSettles, FinishSettles, WakeSettles
    <3> QED BY <3>1, SettleInv DEF Settles
  <2> QED BY <1>1, <2>1, <2>2 DEF ThreadStep
<1>2. ASSUME NEW t \in Threads, SpuriousWake(t) PROVE Inv'
  BY <1>2, MoveInv DEF SpuriousWake, PCs
<1>3. ASSUME NEW w \in Workers, Interrupt(w) PROVE Inv'
  BY <1>3, MoveInv DEF Interrupt, PCs, Threads
<1>4. ASSUME Construct PROVE Inv'
  BY <1>4, MoveInv DEF Construct, PCs, Threads
<1>5. ASSUME NEW batch \in Batches, Add(batch) PROVE Inv'
  BY <1>5, AddInv
<1>6. ASSUME UNCHANGED vars PROVE Inv'
  BY <1>6 DEF vars, counters, local, Inv, Typed, BatchHeld, CountersAgree, OnePlace,
     FailureKept, Verdicts, Verdict, OnlyAdded, Outstanding, Queued, Idle, InLoop
<1> QED BY <1>1, <1>2, <1>3, <1>4, <1>5, <1>6 DEF Next

\* The invariant holds always.
LEMMA InvAlways == Spec => []Inv
BY InitInv, NextInv, PTL DEF Spec

\* The unsigned counters of the code are never negative.
LEMMA CountersNat == Inv => nIdle \in Nat /\ nTotal \in Nat /\ nTodo \in Nat
<1> SUFFICES ASSUME Inv PROVE nIdle \in Nat /\ nTotal \in Nat /\ nTodo \in Nat
  OBVIOUS
<1>1. Idle \in SUBSET Threads /\ InLoop \in SUBSET Threads
  BY DEF Idle, InLoop
<1>2. IsFiniteSet(Idle) /\ IsFiniteSet(InLoop) /\ IsFiniteSet(Outstanding)
  BY <1>1, ThreadsFinite, FS_Subset, OutstandingFinite DEF Inv
<1> QED BY <1>2, FS_CardinalityType DEF Inv, CountersAgree

\* The shared fields of CCheckQueue keep their types; in particular nIdle,
\* nTotal and nTodo, which the code declares int and decrements, are never
\* negative, whatever the number of threads and checks.
THEOREM TypeCorrect == Spec => []TypeOK
<1>1. Inv => TypeOK
  BY CountersNat DEF Inv, Typed, TypeOK
<1> QED BY <1>1, InvAlways, PTL

\* nTodo, nTotal and nIdle always agree with where checks and threads are.
THEOREM CountersCorrect == Spec => []CountersAgree
<1>1. Inv => CountersAgree
  BY DEF Inv
<1> QED BY <1>1, InvAlways, PTL

\* No check is ever handed to two threads, or handed out and still queued.
THEOREM ChecksInOnePlace == Spec => []OnePlace
<1>1. Inv => OnePlace
  BY DEF Inv
<1> QED BY <1>1, InvAlways, PTL

\* A failed check is never lost from the verdict of its session.
THEOREM FailureNeverLost == Spec => []FailureKept
<1>1. Inv => FailureKept
  BY DEF Inv
<1> QED BY <1>1, InvAlways, PTL

\* The books of CCheckQueue::Loop: types, counters, ownership and verdict.
THEOREM BookkeepingCorrect == Spec => []Bookkeeping
BY TypeCorrect, CountersCorrect, ChecksInOnePlace, FailureNeverLost, PTL DEF Bookkeeping

\* The assert(isIdle) of CCheckQueueControl's constructor never fails.
THEOREM ConstructorAssertHolds == Spec => []AssertIdle
<1>1. Inv => AssertIdle
  <2> SUFFICES ASSUME Inv, pc[Master] = "off" PROVE IsIdle
    BY DEF AssertIdle
  <2>1. added = {} /\ Outstanding = {}
    BY DEF Inv, OnlyAdded
  <2>2. nTodo = 0 /\ fAllOk
    BY <2>1, FS_EmptySet DEF Inv, CountersAgree, FailureKept
  <2>3. \A t \in Threads : vChecks[t] = {}
    BY <2>1 DEF Outstanding
  <2>4. \A t \in Threads : pc[t] \notin {"exec", "done"}
    BY <2>3 DEF Inv, BatchHeld
  <2>5. InLoop = Idle
    BY <2>4 DEF InLoop, Idle
  <2> QED BY <2>2, <2>5 DEF IsIdle, Inv, CountersAgree
<1> QED BY <1>1, InvAlways, PTL

-----------------------------------------------------------------------------
\* What one look at the queue means to the caller of the pool.
LEMMA SettleControl ==
    ASSUME Inv, NEW t \in Threads, Settles(t)
    PROVE  [Control!Next]_(Control!vars)
<1> USE DEF Control!vars, Control!Next, Control!Return, Control!StartWait
<1>1. PICK p, idle, total, todo, ok :
          Ready(t, p, idle, total, todo, ok) /\ Settle(t, p, idle, total, todo, ok)
  BY DEF Settles
<1>2. /\ p \in [Threads -> PCs] /\ Master \in Threads
      /\ p[Master] = pc[Master] \/ (pc[Master] = "wait" /\ p[Master] = "woken")
      /\ pc[Master] = "off" => t /= Master
  BY <1>1 DEF Ready, Threads
<1>3. CASE Return(t, p, idle, total, todo, ok)
  <2>1. /\ t = Master /\ pc'[Master] = "off" /\ added' = {} /\ ret' = ok /\ todo = 0
    BY <1>2, <1>3 DEF Return
  <2>2. Rest(t) = {}
    BY <1>1, <2>1, OutstandingFinite, FS_EmptySet DEF Ready, Inv
  <2>3. ok = (added \subseteq Passes)
    BY <1>1, <2>2 DEF Ready
  <2> QED BY <1>2, <2>1, <2>3
<1>4. CASE Block(t, p, idle, total, todo, ok) \/ Take(t, p, idle, total, todo, ok)
  <2>1. added' = added /\ ret' = ret
    BY <1>4 DEF Block, Take
  <2>2. \/ pc' = [p EXCEPT ![t] = "wait"]
        \/ pc' = [p EXCEPT ![t] = "exec"]
    BY <1>4 DEF Block, Take
  <2>3. CASE t = Master
    <3>1. pc'[Master] \in {"wait", "exec"}
      BY <1>2, <2>2, <2>3
    <3> QED BY <1>2, <2>1, <2>3, <3>1
  <2>4. CASE t /= Master
    <3>1. pc'[Master] = p[Master]
      BY <1>2, <2>2, <2>4
    <3> QED BY <1>2, <2>1, <3>1
  <2> QED BY <2>3, <2>4
<1> QED BY <1>1, <1>3, <1>4 DEF Settle

\* A CCheckQueueControl is what its comment says: adding checks and leaving
\* the control returns the conjunction of exactly the checks added, for any
\* pool.  The pool refines the sequential specification of its caller.
THEOREM Refinement == Spec => ImplementsControl
<1>1. Init => Control!Init
  BY DEF Init, Control!Init, Threads
<1>2. Inv /\ [Next]_vars => [Control!Next]_(Control!vars)
  <2> SUFFICES ASSUME Inv, [Next]_vars
               PROVE  [Control!Next]_(Control!vars)
    OBVIOUS
  <2> USE DEF Control!vars, Control!Next
  <2>0. Master \in Threads /\ pc \in [Threads -> PCs]
    BY DEF Threads, Inv, Typed
  <2>1. ASSUME NEW t \in Threads, EnterLoop(t) \/ Finish(t) \/ Wake(t)
        PROVE  [Control!Next]_(Control!vars)
    BY <2>1, EnterLoopSettles, FinishSettles, WakeSettles, SettleControl
  <2>2. ASSUME NEW t \in Threads, Execute(t) \/ SpuriousWake(t)
        PROVE  [Control!Next]_(Control!vars)
    BY <2>0, <2>2 DEF Execute, SpuriousWake
  <2>3. ASSUME NEW w \in Workers, Interrupt(w)
        PROVE  [Control!Next]_(Control!vars)
    BY <2>0, <2>3, CheckQueueAssumption DEF Interrupt
  <2>4. ASSUME Construct
        PROVE  [Control!Next]_(Control!vars)
    BY <2>0, <2>4 DEF Construct, Control!Construct
  <2>5. ASSUME NEW batch \in Batches, Add(batch)
        PROVE  [Control!Next]_(Control!vars)
    <3>1. /\ Elems(batch) \in SUBSET Checks /\ added' = added \cup Elems(batch)
          /\ pc[Master] = "adding" /\ ret' = ret
      BY <2>5 DEF Add, Batches, Elems
    <3>2. pc'[Master] = pc[Master]
      BY <2>0, <2>5, <3>1, CheckQueueAssumption DEF Add, NotifyWorkers
    <3>3. Control!Add(Elems(batch))
      BY <3>1, <3>2 DEF Control!Add
    <3> QED BY <3>1, <3>3
  <2>6. ASSUME UNCHANGED vars
        PROVE  [Control!Next]_(Control!vars)
    BY <2>6 DEF vars
  <2> QED BY <2>1, <2>2, <2>3, <2>4, <2>5, <2>6 DEF Next, ThreadStep
<1> QED BY <1>1, <1>2, InvAlways, PTL DEF Spec, ImplementsControl, Control!Spec
=============================================================================
