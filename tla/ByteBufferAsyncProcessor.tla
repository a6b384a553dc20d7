---------------------- MODULE ByteBufferAsyncProcessor ----------------------
(***************************************************************************)
(* The send buffer of a wire and the threads that meet in it: the async    *)
(* thread (ThreadProc), the wire's thread (pause, resume, acknowledge),    *)
(* the thread that stops it, and the callers of put.                       *)
(*                                                                         *)
(* Packages are numbered in the order in which put accepts them, and their *)
(* number stands for them.  The action of the processor, send0 of the      *)
(* wire, succeeds or fails; how, is the business of SocketWire.            *)
(*                                                                         *)
(* `lock' is held over several steps only by the wire's thread, while it   *)
(* is in pause or resume.  queue_lock and processing_lock are taken        *)
(* together by process and by reprocess, pause waits for the second.       *)
(***************************************************************************)
EXTENDS Integers, Sequences

CONSTANT MaxPuts    \* bound on the packages put

ASSUME MaxPutsAssumption == MaxPuts \in Nat

VARIABLES
    state,              \* StateKind
    data,               \* accepted and not yet taken by the async thread
    queue,              \* taken and not yet sent
    pending_queue,      \* sent and not yet known to be acknowledged
    max_sent_seqn,
    current_seqn,       \* the seqn of the first package in pending_queue
    acknowledged_seqn,
    interrupt_balance,
    accepted,           \* how many packages put has accepted
    async,              \* where the async thread is
    woken,              \* it waits on cv, and cv has been notified
    wire,               \* where the wire's thread is
    resent,             \* how many pending packages reprocess has been through
    stopper             \* where the thread that calls stop or terminate is

buffers == <<data, queue, pending_queue>>
seqns == <<max_sent_seqn, current_seqn, acknowledged_seqn>>
control == <<async, woken, wire, resent, stopper>>
vars == <<state, buffers, seqns, interrupt_balance, accepted, control>>

StateKind == <<"Initialized", "AsyncProcessing", "Stopping", "Terminating", "Terminated">>
Rank(s) == CHOOSE i \in 1 .. 5 : StateKind[i] = s
AtLeast(s) == Rank(state) >= Rank(s)

LockFree == wire \in {"up", "down"}
InProcessing == async \in {"sending", "sent", "failed"}

\* Mistake: the notification is forgotten.
NotifyNobody == UNCHANGED woken

\* The async thread is the only one that ever waits on cv.
NotifyAll == woken' = (async = "waiting")

\* Before the constructor of the wire pauses and starts the processor.
Init ==
    /\ state = "Initialized"
    /\ data = <<>> /\ queue = <<>> /\ pending_queue = <<>>
    /\ max_sent_seqn = 0 /\ current_seqn = 1 /\ acknowledged_seqn = 0
    /\ interrupt_balance = 0
    /\ accepted = 0
    /\ async = "none" /\ woken = FALSE
    /\ wire = "up" /\ resent = 0
    /\ stopper = "idle"

-----------------------------------------------------------------------------
(* The callers of put, start, stop and terminate.                          *)

\* Mistake: the async thread is not notified.
PutSilently ==
    /\ LockFree /\ accepted < MaxPuts
    /\ ~AtLeast("Stopping")
    /\ data' = Append(data, accepted + 1)
    /\ accepted' = accepted + 1
    /\ UNCHANGED <<state, queue, pending_queue, seqns, interrupt_balance, control>>

\* A package that comes after stop is dropped, without a trace.
put ==
    /\ LockFree /\ accepted < MaxPuts
    /\ ~AtLeast("Stopping")
    /\ data' = Append(data, accepted + 1)
    /\ accepted' = accepted + 1
    /\ NotifyAll
    /\ UNCHANGED <<state, queue, pending_queue, seqns, interrupt_balance,
                   async, wire, resent, stopper>>

start ==
    /\ LockFree
    /\ state = "Initialized"
    /\ state' = "AsyncProcessing"
    /\ async' = "loop"
    /\ UNCHANGED <<buffers, seqns, interrupt_balance, accepted, woken, wire, resent, stopper>>

\* terminate0: a processor that has not been started is cleaned up at once, one
\* that is stopped already is left alone.
StopUnstarted ==
    /\ LockFree /\ stopper = "idle"
    /\ state = "Initialized"
    /\ state' = "Terminated"
    /\ UNCHANGED <<buffers, seqns, interrupt_balance, accepted, control>>

terminate0(state_to_set) ==
    /\ LockFree /\ stopper = "idle"
    /\ state # "Initialized" /\ ~AtLeast(state_to_set)
    /\ state' = state_to_set
    /\ stopper' = "waiting"
    /\ NotifyAll
    /\ UNCHANGED <<buffers, seqns, interrupt_balance, accepted, async, wire, resent>>

stop == terminate0("Stopping")
terminate == terminate0("Terminating")

\* The wait for the async thread ends with the thread or by timeout, whichever
\* comes first; the processor is terminated in either case.
cleanup0 ==
    /\ LockFree /\ stopper = "waiting"
    /\ state' = "Terminated"
    /\ stopper' = "idle"
    /\ NotifyAll
    /\ UNCHANGED <<buffers, seqns, interrupt_balance, accepted, async, wire, resent>>

-----------------------------------------------------------------------------
(* The async thread.                                                       *)

Idle == data = <<>> \/ interrupt_balance # 0

\* The rest of the locked block, from the condition of its loop.
TakeOrWait ==
    /\ \/ /\ Idle /\ AtLeast("Stopping")
          /\ async' = "done"
          /\ UNCHANGED <<data, queue>>
       \/ /\ Idle /\ ~AtLeast("Stopping")
          /\ async' = "waiting"
          /\ UNCHANGED <<data, queue>>
       \/ /\ ~Idle
          /\ async' = "process"
          /\ queue' = queue \o data
          /\ data' = <<>>
    /\ woken' = FALSE
    /\ UNCHANGED <<state, pending_queue, seqns, interrupt_balance, accepted, wire, resent, stopper>>

Quit ==
    /\ async' = "done"
    /\ woken' = FALSE
    /\ UNCHANGED <<state, buffers, seqns, interrupt_balance, accepted, wire, resent, stopper>>

Loop == /\ async = "loop" /\ LockFree
        /\ IF AtLeast("Terminated") THEN Quit ELSE TakeOrWait

Wake == /\ async = "waiting" /\ woken /\ LockFree
        /\ IF AtLeast("Terminating") THEN Quit ELSE TakeOrWait

Go(from, to) == /\ async = from /\ async' = to
                /\ UNCHANGED <<state, buffers, seqns, interrupt_balance, accepted,
                               woken, wire, resent, stopper>>

\* process takes queue_lock and processing_lock.
process == wire # "resending" /\ Go("process", "sending")

SendNew(ok) == queue # <<>> /\ Go("sending", IF ok THEN "sent" ELSE "failed")

\* Mistake: the counters are protected by `lock', as those of put are.
SentLocked ==
    /\ async = "sent" /\ LockFree
    /\ max_sent_seqn' = max_sent_seqn + 1
    /\ pending_queue' = Append(pending_queue, Head(queue))
    /\ queue' = Tail(queue)
    /\ async' = "sending"
    /\ UNCHANGED <<state, data, current_seqn, acknowledged_seqn, interrupt_balance,
                   accepted, woken, wire, resent, stopper>>

\* Only now is the package counted as sent: its acknowledgement may be there.
Sent ==
    /\ async = "sent"
    /\ max_sent_seqn' = max_sent_seqn + 1
    /\ pending_queue' = Append(pending_queue, Head(queue))
    /\ queue' = Tail(queue)
    /\ async' = "sending"
    /\ UNCHANGED <<state, data, current_seqn, acknowledged_seqn, interrupt_balance,
                   accepted, woken, wire, resent, stopper>>

\* A package that could not be sent stays at the head of the queue.
Processed == (queue = <<>> /\ Go("sending", "loop")) \/ Go("failed", "loop")

AsyncThread == Loop \/ Wake \/ process \/ (\E ok \in BOOLEAN : SendNew(ok)) \/ Sent \/ Processed

-----------------------------------------------------------------------------
(* The thread of the wire.                                                 *)

At(from, to) == /\ wire = from /\ wire' = to
                /\ UNCHANGED <<state, data, queue, accepted, async, stopper>>

\* Mistake: a pause is not counted.
PauseUncounted ==
    /\ At("up", "pausing")
    /\ UNCHANGED <<interrupt_balance, pending_queue, seqns, woken, resent>>

\* pause takes `lock' and keeps it until no package is being processed.
pause ==
    /\ At("up", "pausing")
    /\ interrupt_balance' = interrupt_balance + 1
    /\ UNCHANGED <<pending_queue, seqns, woken, resent>>

Paused ==
    /\ ~InProcessing
    /\ At("pausing", "down")
    /\ UNCHANGED <<interrupt_balance, pending_queue, seqns, woken, resent>>

resume ==
    /\ At("down", "resuming")
    /\ UNCHANGED <<interrupt_balance, pending_queue, seqns, woken, resent>>

\* Mistake: the acknowledged packages are sent again.
DropNothing == UNCHANGED <<pending_queue, current_seqn>>

\* Mistake: off by one.
DropNext ==
    LET n == IF acknowledged_seqn + 1 < current_seqn THEN 0
             ELSE acknowledged_seqn - current_seqn + 2
    IN  /\ pending_queue' = SubSeq(pending_queue, n + 1, Len(pending_queue))
        /\ current_seqn' = current_seqn + n

\* One pop_front per acknowledged seqn, whether there is a package to pop or not.
DropAcknowledged ==
    LET n == IF acknowledged_seqn < current_seqn THEN 0
             ELSE acknowledged_seqn - current_seqn + 1
    IN  /\ pending_queue' = SubSeq(pending_queue, n + 1, Len(pending_queue))
        /\ current_seqn' = current_seqn + n

\* Mistake: the first pending package is skipped.
reprocessRest ==
    /\ ~InProcessing
    /\ At("resuming", "resending")
    /\ DropAcknowledged
    /\ resent' = IF pending_queue' = <<>> THEN 0 ELSE 1
    /\ UNCHANGED <<max_sent_seqn, acknowledged_seqn, interrupt_balance, woken>>

reprocess ==
    /\ ~InProcessing
    /\ At("resuming", "resending")
    /\ DropAcknowledged
    /\ resent' = 0
    /\ UNCHANGED <<max_sent_seqn, acknowledged_seqn, interrupt_balance, woken>>

\* The seqn of the package that reprocess is at.
ResendSeqn == current_seqn + resent

\* The first failure ends it, and nobody is told.
Resend(ok) ==
    /\ resent < Len(pending_queue)
    /\ At("resending", IF ok THEN "resending" ELSE "resent")
    /\ resent' = IF ok THEN resent + 1 ELSE resent
    /\ UNCHANGED <<interrupt_balance, pending_queue, seqns, woken>>

Reprocessed ==
    /\ resent = Len(pending_queue)
    /\ At("resending", "resent")
    /\ UNCHANGED <<interrupt_balance, pending_queue, seqns, woken, resent>>

Resumed ==
    /\ At("resent", "up")
    /\ interrupt_balance' = interrupt_balance - 1
    /\ NotifyAll
    /\ UNCHANGED <<pending_queue, seqns, resent>>

\* What the counterpart can have received: all that was counted as sent, and the
\* package whose send is about to return.
HandedOver == max_sent_seqn + IF async = "sent" THEN 1 ELSE 0

\* A seqn that is not greater is reported as an error, and ignored.
acknowledge(seqn) ==
    /\ At("up", "up")
    /\ acknowledged_seqn' = IF seqn > acknowledged_seqn THEN seqn ELSE acknowledged_seqn
    /\ UNCHANGED <<interrupt_balance, pending_queue, max_sent_seqn, current_seqn, woken, resent>>

WireWorks == Paused \/ reprocess \/ (\E ok \in BOOLEAN : Resend(ok)) \/ Reprocessed \/ Resumed

-----------------------------------------------------------------------------
Next ==
    \/ put \/ start \/ StopUnstarted \/ stop \/ terminate \/ cleanup0
    \/ AsyncThread
    \/ pause \/ resume \/ WireWorks
    \/ (\E seqn \in 1 .. HandedOver : acknowledge(seqn))

\* Every thread that can go on does, every call of send returns, and who waits for
\* a mutex that is free again and again gets it.  Nothing is put, paused, resumed,
\* acknowledged or stopped of necessity.
Fairness ==
    /\ SF_vars(Loop) /\ SF_vars(Wake) /\ SF_vars(process)
    /\ WF_vars(\E ok \in BOOLEAN : SendNew(ok)) /\ WF_vars(Sent) /\ WF_vars(Processed)
    /\ SF_vars(cleanup0)
    /\ SF_vars(WireWorks)

Spec == Init /\ [][Next]_vars /\ Fairness

-----------------------------------------------------------------------------
TypeOK ==
    /\ state \in {"Initialized", "AsyncProcessing", "Stopping", "Terminating", "Terminated"}
    /\ data \in Seq(Nat) /\ queue \in Seq(Nat) /\ pending_queue \in Seq(Nat)
    /\ max_sent_seqn \in Nat /\ current_seqn \in Nat \ {0} /\ acknowledged_seqn \in Nat
    /\ interrupt_balance \in 0 .. 1
    /\ accepted \in 0 .. MaxPuts
    /\ async \in {"none", "loop", "waiting", "process", "sending", "sent", "failed", "done"}
    /\ woken \in BOOLEAN
    /\ wire \in {"up", "pausing", "down", "resuming", "resending", "resent"}
    /\ resent \in Nat
    /\ stopper \in {"idle", "waiting"}

\* Through pauses, failed sends and resumes every accepted package is in exactly
\* one place, or acknowledged, and the k-th package accepted is the one that goes
\* out, and goes out again, with seqn k.
SeqnIsPosition ==
    /\ max_sent_seqn + 1 = current_seqn + Len(pending_queue)
    /\ accepted = max_sent_seqn + Len(queue) + Len(data)
    /\ \A i \in 1 .. Len(pending_queue) : pending_queue[i] = current_seqn + i - 1
    /\ \A i \in 1 .. Len(queue) : queue[i] = max_sent_seqn + i
    /\ \A i \in 1 .. Len(data) : data[i] = max_sent_seqn + Len(queue) + i

\* A package put while the processor runs is taken up, unless there is a pause or
\* the end first: no notification is lost.
PutIsTaken ==
    data # <<>> /\ state = "AsyncProcessing"
        ~> data = <<>> \/ interrupt_balance # 0 \/ AtLeast("Stopping")

\* After stop the async thread ends, also when the wait for it has timed out and
\* when it is paused: the future of the thread can be destroyed.
AsyncThreadEnds == AtLeast("Stopping") ~> async \in {"none", "done"}

\* pause and resume return: they hold `lock' while they wait for the async thread.
PauseAndResumeReturn == ~LockFree ~> LockFree
=============================================================================
