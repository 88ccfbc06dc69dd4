----------------------------- MODULE CheckQueue -----------------------------
(***************************************************************************)
(* CCheckQueue and CCheckQueueControl (src/src/checkqueue.h): the pool of  *)
(* script-verification threads that ConnectBlock uses.  One thread, the    *)
(* master, pushes batches of checks and then joins the workers until no    *)
(* check is left.                                                          *)
(*                                                                         *)
(* All shared fields are protected by one mutex, so an action is one       *)
(* critical section of the code: everything between taking the lock and    *)
(* releasing it (at the end of the block, in cond.wait, or on return).     *)
(* The checks themselves run outside the lock, in Execute.                 *)
(*                                                                         *)
(* A check is an element of Checks, and Passes says what its operator()    *)
(* returns.  fQuit is never set by the code and is left out: only the      *)
(* master returns from Loop.                                               *)
(***************************************************************************)
EXTENDS Integers, Sequences, FiniteSets

CONSTANTS Workers,     \* the threads running CCheckQueue::Thread
          Master,      \* the thread that owns the CCheckQueueControl
          Checks,      \* the checks of one session
          Passes,      \* the checks whose operator() returns true
          nBatchSize   \* the most checks one thread takes at once

ASSUME CheckQueueAssumption ==
    /\ Master \notin Workers
    /\ IsFiniteSet(Workers)
    /\ IsFiniteSet(Checks)
    /\ Passes \subseteq Checks
    /\ nBatchSize \in Nat \ {0}

Threads == Workers \cup {Master}

VARIABLES
    queue,    \* std::vector<T> queue, popped from the back
    nIdle,    \* threads counted as blocked in cond.wait
    nTotal,   \* threads counted as inside Loop
    fAllOk,   \* the conjunction of the finished batches
    nTodo,    \* checks added and not yet accounted for
    pc,       \* where each thread is
    vChecks,  \* the batch a thread holds, kept here until it is accounted for
    nNow,     \* the size of that batch
    fOk,      \* the thread's own result
    added,    \* history: the checks added in this session
    ret       \* what the last Wait() returned

counters == <<nIdle, nTotal, nTodo, fAllOk>>
local    == <<vChecks, nNow, fOk>>
vars     == <<queue, counters, pc, local, added, ret>>

(***************************************************************************)
(* "off": a worker that has not entered Loop, or the master outside a      *)
(* control.  "adding": the master owns a control.  "exec"/"done": before   *)
(* and after the unlocked loop that runs the batch.  "wait": blocked in    *)
(* cond.wait.  "woken": signalled, has to take the lock again.  "gone": a  *)
(* worker whose wait threw boost::thread_interrupted at shutdown.          *)
(***************************************************************************)
PCs == {"off", "adding", "exec", "done", "wait", "woken", "gone"}

Init ==
    /\ queue = <<>>
    /\ nIdle = 0 /\ nTotal = 0 /\ nTodo = 0 /\ fAllOk = TRUE
    /\ pc = [t \in Threads |-> "off"]
    /\ vChecks = [t \in Threads |-> {}]
    /\ nNow = [t \in Threads |-> 0]
    /\ fOk = [t \in Threads |-> TRUE]
    /\ added = {}
    /\ ret = TRUE

-----------------------------------------------------------------------------
(* The loop `while (queue.empty())' and what follows it, run with the lock *)
(* held and with the counters its caller left: idle, total, todo, ok.  p   *)
(* is pc after the caller's notifications.                                 *)

\* Mutant: the batch size without its lower bound of one check.
BatchSizeUnbounded(idle, total) ==
    LET share == Len(queue) \div (total + idle + 1)
    IN  IF nBatchSize < share THEN nBatchSize ELSE share

\* The size of the next batch, which leaves work for the others.
BatchSize(idle, total) ==
    LET share == Len(queue) \div (total + idle + 1)
        least == IF nBatchSize < share THEN nBatchSize ELSE share
    IN  IF least < 1 THEN 1 ELSE least

\* Nothing is left and nothing is running: the master returns fAllOk.
Return(t, p, idle, total, todo, ok) ==
    /\ queue = <<>> /\ t = Master /\ todo = 0
    /\ nTotal' = total - 1
    /\ ret' = ok
    /\ fAllOk' = TRUE
    /\ nIdle' = idle /\ nTodo' = todo
    /\ pc' = [p EXCEPT ![t] = "off"]
    /\ vChecks' = [vChecks EXCEPT ![t] = {}]
    /\ added' = {}
    /\ UNCHANGED <<queue, nNow, fOk>>

\* Out of work, but not finished: the thread blocks.
Block(t, p, idle, total, todo, ok) ==
    /\ queue = <<>> /\ ~(t = Master /\ todo = 0)
    /\ nIdle' = idle + 1
    /\ nTotal' = total /\ nTodo' = todo /\ fAllOk' = ok
    /\ pc' = [p EXCEPT ![t] = "wait"]
    /\ vChecks' = [vChecks EXCEPT ![t] = {}]
    /\ UNCHANGED <<queue, nNow, fOk, added, ret>>

\* The queue after n times pop_back.
Remaining(n) == SubSeq(queue, 1, Len(queue) - n)

\* Take the last n checks of the queue and the current verdict.
Take(t, p, idle, total, todo, ok) ==
    LET n    == BatchSize(idle, total)
        keep == Len(queue) - n
    IN  /\ queue /= <<>>
        /\ queue' = Remaining(n)
        /\ vChecks' = [vChecks EXCEPT ![t] = {queue[i] : i \in keep + 1 .. Len(queue)}]
        /\ nNow' = [nNow EXCEPT ![t] = n]
        /\ fOk' = [fOk EXCEPT ![t] = ok]
        /\ pc' = [p EXCEPT ![t] = "exec"]
        /\ nIdle' = idle /\ nTotal' = total /\ nTodo' = todo /\ fAllOk' = ok
        /\ UNCHANGED <<added, ret>>

\* Mutant: the master leaves as soon as the queue is empty.
SettleEarly(t, p, idle, total, todo, ok) ==
    \/ Return(t, p, idle, total, 0, ok)
    \/ t /= Master /\ Block(t, p, idle, total, todo, ok)
    \/ Take(t, p, idle, total, todo, ok)

\* One look at the queue: return, block or take a batch.
Settle(t, p, idle, total, todo, ok) ==
    \/ Return(t, p, idle, total, todo, ok)
    \/ Block(t, p, idle, total, todo, ok)
    \/ Take(t, p, idle, total, todo, ok)

-----------------------------------------------------------------------------
\* A thread enters Loop: a worker when it is started, the master in Wait().
EnterLoop(t) ==
    /\ pc[t] = IF t = Master THEN "adding" ELSE "off"
    /\ Settle(t, pc, nIdle, nTotal + 1, nTodo, fAllOk)

\* Mutant: the last worker does not notify.
NotifyNobody(p) == p

\* condMaster.notify_one(): only the master ever waits there.
NotifyMaster(p) ==
    IF p[Master] = "wait" THEN [p EXCEPT ![Master] = "woken"] ELSE p

\* Mutant: fAllOk = fOk in place of fAllOk &= fOk.
AllOkLast(t) == fOk[t]

\* The verdict once thread t has added its own.
AllOkAfter(t) == fAllOk /\ fOk[t]

\* The clean-up of the previous run, in the same critical section as the
\* next look at the queue.  A batch of no checks would count the thread in
\* again: `if (nNow)' is also how the code tells its first iteration.
Finish(t) ==
    LET todo == nTodo - nNow[t]
        p    == IF todo = 0 /\ t /= Master THEN NotifyMaster(pc) ELSE pc
    IN  /\ pc[t] = "done"
        /\ IF nNow[t] /= 0
           THEN Settle(t, p, nIdle, nTotal, todo, AllOkAfter(t))
           ELSE Settle(t, pc, nIdle, nTotal + 1, nTodo, fAllOk)

\* A signalled thread takes the lock again and looks at the queue.
Wake(t) ==
    /\ pc[t] = "woken"
    /\ Settle(t, pc, nIdle - 1, nTotal, nTodo, fAllOk)

\* Run the batch outside the lock; nothing runs once a check has failed.
Execute(t) ==
    /\ pc[t] = "exec"
    /\ fOk' = [fOk EXCEPT ![t] = @ /\ vChecks[t] \subseteq Passes]
    /\ pc' = [pc EXCEPT ![t] = "done"]
    /\ UNCHANGED <<queue, counters, vChecks, nNow, added, ret>>

-----------------------------------------------------------------------------
\* CCheckQueue::IsIdle, which the constructor of a control asserts.
IsIdle == nTotal = nIdle /\ nTodo = 0 /\ fAllOk

\* The master constructs a CCheckQueueControl.
Construct ==
    /\ pc[Master] = "off"
    /\ IsIdle
    /\ pc' = [pc EXCEPT ![Master] = "adding"]
    /\ UNCHANGED <<queue, counters, local, added, ret>>

\* condWorker.notify_one() for one check, notify_all() for more.
NotifyWorkers(n) ==
    LET waiting == {w \in Workers : pc[w] = "wait"}
    IN  \/ /\ n = 1 /\ waiting /= {}
           /\ \E w \in waiting : pc' = [pc EXCEPT ![w] = "woken"]
        \/ /\ n /= 1 \/ waiting = {}
           /\ pc' = [t \in Threads |->
                        IF n > 1 /\ t \in waiting THEN "woken" ELSE pc[t]]

\* The vectors of distinct checks the master can pass to Add.
Batches ==
    {b \in UNION {[1 .. n -> Checks] : n \in 0 .. Cardinality(Checks)} :
        \A i, j \in DOMAIN b : b[i] = b[j] => i = j}

\* CCheckQueue::Add, called by the master with a vector of new checks.
Add(batch) ==
    LET new == {batch[i] : i \in DOMAIN batch}
    IN  /\ pc[Master] = "adding"
        /\ new \cap added = {}
        /\ queue' = queue \o batch
        /\ nTodo' = nTodo + Len(batch)
        /\ added' = added \cup new
        /\ NotifyWorkers(Len(batch))
        /\ UNCHANGED <<nIdle, nTotal, fAllOk, local, ret>>

\* A condition variable may wake a thread nobody signalled.
SpuriousWake(t) ==
    /\ pc[t] = "wait"
    /\ pc' = [pc EXCEPT ![t] = "woken"]
    /\ UNCHANGED <<queue, counters, local, added, ret>>

\* threadGroup.interrupt_all(): cond.wait throws, Loop is left without
\* touching the counters again.
Interrupt(w) ==
    /\ pc[w] \in {"wait", "woken"}
    /\ pc' = [pc EXCEPT ![w] = "gone"]
    /\ UNCHANGED <<queue, counters, local, added, ret>>

ThreadStep(t) == EnterLoop(t) \/ Execute(t) \/ Finish(t) \/ Wake(t)

Next ==
    \/ \E t \in Threads : ThreadStep(t) \/ SpuriousWake(t)
    \/ \E w \in Workers : Interrupt(w)
    \/ Construct
    \/ \E batch \in Batches : Add(batch)

Spec == Init /\ [][Next]_vars

\* The operating system schedules every runnable thread.  Nothing obliges
\* the master to open a control, and nothing wakes a thread spuriously or
\* interrupts it: those steps have no fairness.
FairSpec ==
    /\ Spec
    /\ \A t \in Threads :
          /\ WF_vars(Execute(t)) /\ WF_vars(Finish(t)) /\ WF_vars(Wake(t))

-----------------------------------------------------------------------------
TypeOK ==
    /\ queue \in Seq(Checks)
    /\ nIdle \in Nat /\ nTotal \in Nat /\ nTodo \in Nat
    /\ fAllOk \in BOOLEAN /\ ret \in BOOLEAN
    /\ pc \in [Threads -> PCs]
    /\ vChecks \in [Threads -> SUBSET Checks]
    /\ nNow \in [Threads -> Nat]
    /\ fOk \in [Threads -> BOOLEAN]
    /\ added \subseteq Checks

\* Threads inside Loop; an interrupted worker was never counted out.
InLoop == {t \in Threads : pc[t] \in {"exec", "done", "wait", "woken", "gone"}}

\* Threads that Loop counts as idle.
Idle == {t \in Threads : pc[t] \in {"wait", "woken", "gone"}}

\* The checks that are in the queue or in some thread's batch.
Queued      == {queue[i] : i \in DOMAIN queue}
Outstanding == Queued \cup UNION {vChecks[t] : t \in Threads}

\* The counters agree with where the threads and the checks are: nTodo is
\* never decremented twice or too little whatever the interleaving, and no
\* thread is lost from or counted twice in nTotal and nIdle.
CountersAgree ==
    /\ nTodo = Cardinality(Outstanding)
    /\ nTotal = Cardinality(InLoop)
    /\ nIdle = Cardinality(Idle)

\* A check is in one place only: no two threads verify the same check, and
\* none that a thread took is still queued.
OnePlace ==
    /\ \A i, j \in DOMAIN queue : queue[i] = queue[j] => i = j
    /\ \A t \in Threads : vChecks[t] \cap Queued = {}
    /\ \A t, u \in Threads : t /= u => vChecks[t] \cap vChecks[u] = {}

\* A failure is never forgotten: while a session is open, some check that
\* was added fails exactly when the verdict is already negative or the
\* failing check has not been accounted for.
FailureKept ==
    added \subseteq Passes <=> fAllOk /\ Outstanding \subseteq Passes

\* All of it together, whatever the order of the critical sections.
Bookkeeping == TypeOK /\ CountersAgree /\ OnePlace /\ FailureKept

\* The assertion in the constructor of CCheckQueueControl never fails:
\* outside a session every started worker is idle and nothing is pending,
\* also when workers start late, wake late or were interrupted.
AssertIdle == pc[Master] = "off" => IsIdle

\* The pool implements the sequential view its caller has: leaving a control
\* returns the conjunction of all the checks that were added.
Control == INSTANCE CheckQueueControl WITH
    phase <- IF pc[Master] \in {"off", "adding"} THEN pc[Master] ELSE "waiting"

ImplementsControl == Control!Spec

\* Once the master waits it returns, whoever holds the last batch: the
\* notification of condMaster is never lost, and a worker that is woken,
\* late or interrupted is not needed.
WaitReturns == Control!FairSpec
=============================================================================
