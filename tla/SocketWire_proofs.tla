-------------------------- MODULE SocketWire_proofs --------------------------
(***************************************************************************)
(* That the wire uses its buffer as the buffer expects, and that no        *)
(* package is forgotten before the counterpart has read it: for any number *)
(* of packages and connections, wherever they break.                       *)
(*                                                                         *)
(* `Safe' holds always; `Smooth' until a new package overtakes the pending *)
(* ones.  The heart of the latter is that what is in a stream is a run of  *)
(* consecutive packages that begins no later than where its reader is: the *)
(* receiver misses none, and reads the first again only while nothing has  *)
(* been acknowledged.                                                      *)
(***************************************************************************)
EXTENDS SocketWire, SequenceTheorems, TLAPS

-----------------------------------------------------------------------------
(* The buffer.  That every accepted package keeps its seqn, for any number *)
(* of packages, pauses, failures and resumes.                              *)
(*                                                                         *)
(* SeqnIsPosition is not inductive: reprocess drops one pending package    *)
(* for each acknowledged seqn without looking, so one has to know that     *)
(* nothing is acknowledged that has not been handed to the socket, and     *)
(* that what has been handed over is still at the head of the queue.       *)

\* interrupt_balance counts the pause of the wire, and no other.
Balanced == interrupt_balance = IF wire = "up" THEN 0 ELSE 1

\* An acknowledgement belongs to a package that was handed to the socket.
Acks == acknowledged_seqn =< HandedOver

InHand == async = "sent" => queue # <<>>

\* The async thread exists only after start, so start cannot forget a package
\* that is in hand.
Unstarted == state = "Initialized" => async = "none"

IInv == TypeOK /\ SeqnIsPosition /\ Balanced /\ Acks /\ InHand /\ Unstarted

-----------------------------------------------------------------------------
(* What the operations on the buffers do to numbered packages.             *)

\* s holds consecutive numbers from `first' on.
Numbered(s, first) == \A i \in 1 .. Len(s) : s[i] = first + i - 1

LEMMA NumberedAppend ==
    ASSUME NEW s \in Seq(Nat), NEW first \in Nat, Numbered(s, first)
    PROVE  Numbered(Append(s, first + Len(s)), first)
<1>1. Len(s) \in Nat
    OBVIOUS
<1>2. Len(Append(s, first + Len(s))) = Len(s) + 1
    OBVIOUS
<1>3. ASSUME NEW i \in 1 .. Len(s) + 1
      PROVE  Append(s, first + Len(s))[i] = first + i - 1
    BY <1>1, <1>3, SMTT(30) DEF Numbered
<1> QED
    BY <1>2, <1>3 DEF Numbered

LEMMA NumberedTail ==
    ASSUME NEW s \in Seq(Nat), NEW first \in Nat, Numbered(s, first), s # <<>>
    PROVE  /\ Head(s) = first
           /\ Len(Tail(s)) = Len(s) - 1
           /\ Numbered(Tail(s), first + 1)
<1>1. Len(s) \in Nat \ {0}
    OBVIOUS
<1>2. Head(s) = s[1]
    OBVIOUS
<1>3. Len(Tail(s)) = Len(s) - 1
    OBVIOUS
<1>4. ASSUME NEW i \in 1 .. Len(s) - 1
      PROVE  Tail(s)[i] = first + 1 + i - 1
    <2>1. Tail(s)[i] = s[i + 1]
        BY <1>1
    <2> QED
        BY <1>1, <2>1 DEF Numbered
<1> QED
    BY <1>1, <1>2, <1>3, <1>4 DEF Numbered

LEMMA NumberedConcat ==
    ASSUME NEW s \in Seq(Nat), NEW t \in Seq(Nat), NEW first \in Nat,
           Numbered(s, first), Numbered(t, first + Len(s))
    PROVE  /\ Len(s \o t) = Len(s) + Len(t)
           /\ Numbered(s \o t, first)
<1>1. Len(s) \in Nat /\ Len(t) \in Nat
    OBVIOUS
<1>2. Len(s \o t) = Len(s) + Len(t)
    OBVIOUS
<1>3. ASSUME NEW i \in 1 .. Len(s) + Len(t)
      PROVE  (s \o t)[i] = first + i - 1
    <2>1. CASE i =< Len(s)
        BY <1>1, <2>1 DEF Numbered
    <2>2. CASE i > Len(s)
        <3>1. (s \o t)[i] = t[i - Len(s)]
            BY <1>1, <2>2
        <3>2. i - Len(s) \in 1 .. Len(t)
            BY <1>1, <2>2
        <3> QED
            BY <1>1, <3>1, <3>2 DEF Numbered
    <2> QED
        BY <1>1, <2>1, <2>2
<1> QED
    BY <1>2, <1>3 DEF Numbered

LEMMA NumberedDrop ==
    ASSUME NEW s \in Seq(Nat), NEW first \in Nat, NEW n \in 0 .. Len(s), Numbered(s, first)
    PROVE  /\ SubSeq(s, n + 1, Len(s)) \in Seq(Nat)
           /\ Len(SubSeq(s, n + 1, Len(s))) = Len(s) - n
           /\ Numbered(SubSeq(s, n + 1, Len(s)), first + n)
<1>1. Len(s) \in Nat
    OBVIOUS
<1>2. /\ SubSeq(s, n + 1, Len(s)) \in Seq(Nat)
      /\ Len(SubSeq(s, n + 1, Len(s))) = Len(s) - n
    BY <1>1
<1>3. ASSUME NEW i \in 1 .. Len(s) - n
      PROVE  SubSeq(s, n + 1, Len(s))[i] = first + n + i - 1
    <2>1. SubSeq(s, n + 1, Len(s))[i] = s[n + i]
        BY <1>1
    <2> QED
        BY <1>1, <2>1 DEF Numbered
<1> QED
    BY <1>1, <1>2, <1>3 DEF Numbered

\* SeqnIsPosition in terms of Numbered.
LEMMA Positions ==
    ASSUME TypeOK
    PROVE  SeqnIsPosition <=>
              /\ max_sent_seqn + 1 = current_seqn + Len(pending_queue)
              /\ accepted = max_sent_seqn + Len(queue) + Len(data)
              /\ Numbered(pending_queue, current_seqn)
              /\ Numbered(queue, max_sent_seqn + 1)
              /\ Numbered(data, max_sent_seqn + Len(queue) + 1)
<1>1. /\ max_sent_seqn \in Nat /\ current_seqn \in Nat
      /\ Len(queue) \in Nat /\ Len(data) \in Nat /\ Len(pending_queue) \in Nat
    BY DEF TypeOK
<1> QED
    BY <1>1 DEF SeqnIsPosition, Numbered

-----------------------------------------------------------------------------
(* The actions that move packages.                                         *)

LEMMA PutKeeps == ASSUME IInv, put PROVE IInv'
<1>1. /\ data \in Seq(Nat) /\ Len(data) \in Nat /\ Len(queue) \in Nat
      /\ max_sent_seqn \in Nat /\ accepted \in Nat
    BY DEF IInv, TypeOK
<1>2. /\ data' = Append(data, accepted + 1) /\ accepted' = accepted + 1
      /\ UNCHANGED <<state, queue, pending_queue, seqns, interrupt_balance,
                     async, wire, resent, stopper>>
    BY DEF put
<1>3. TypeOK'
    BY <1>1, MaxPutsAssumption DEF IInv, TypeOK, put, NotifyAll, seqns
<1>4. accepted + 1 = max_sent_seqn + Len(queue) + 1 + Len(data)
    BY <1>1, Positions DEF IInv
<1>5. Numbered(data', max_sent_seqn + Len(queue) + 1)
    BY <1>1, <1>2, <1>4, NumberedAppend, Positions DEF IInv
<1>6. Len(data') = Len(data) + 1
    BY <1>1, <1>2
<1>7. /\ max_sent_seqn + 1 = current_seqn + Len(pending_queue)
      /\ accepted + 1 = max_sent_seqn + Len(queue) + (Len(data) + 1)
      /\ Numbered(pending_queue, current_seqn)
      /\ Numbered(queue, max_sent_seqn + 1)
    BY <1>1, <1>4, Positions DEF IInv
<1>8. SeqnIsPosition'
    BY <1>1, <1>2, <1>5, <1>6, <1>7 DEF SeqnIsPosition, Numbered, seqns
<1> QED
    BY <1>2, <1>3, <1>8 DEF IInv, Balanced, Acks, HandedOver, InHand, Unstarted, seqns

LEMMA TakeKeeps == ASSUME IInv, TakeOrWait, async \in {"loop", "waiting"} PROVE IInv'
<1>1. /\ data \in Seq(Nat) /\ Len(data) \in Nat
      /\ queue \in Seq(Nat) /\ Len(queue) \in Nat /\ max_sent_seqn \in Nat
    BY DEF IInv, TypeOK
<1>2. UNCHANGED <<state, pending_queue, seqns, interrupt_balance, accepted, wire, resent, stopper>>
      /\ woken' = FALSE /\ async' \in {"done", "waiting", "process"}
    BY DEF TakeOrWait
<1>3. CASE UNCHANGED <<data, queue>>
    BY <1>2, <1>3 DEF IInv, TypeOK, SeqnIsPosition, Balanced, Acks, HandedOver, InHand, Unstarted, seqns
<1>4. CASE queue' = queue \o data /\ data' = <<>>
    <2>1. /\ max_sent_seqn + 1 = current_seqn + Len(pending_queue)
          /\ accepted = max_sent_seqn + Len(queue) + Len(data)
          /\ Numbered(pending_queue, current_seqn)
          /\ Numbered(queue, max_sent_seqn + 1)
          /\ Numbered(data, max_sent_seqn + 1 + Len(queue))
        BY <1>1, Positions DEF IInv, Numbered
    <2>2. /\ Len(queue') = Len(queue) + Len(data)
          /\ Numbered(queue', max_sent_seqn + 1)
        BY <1>1, <1>4, <2>1, NumberedConcat
    <2>3. Len(data') = 0
        BY <1>4
    <2>4. SeqnIsPosition'
        BY <1>1, <1>2, <2>1, <2>2, <2>3 DEF SeqnIsPosition, Numbered, seqns
    <2>5. queue \o data \in Seq(Nat) /\ <<>> \in Seq(Nat)
        BY <1>1
    <2>6. TypeOK'
        BY <1>1, <1>2, <1>4, <2>5 DEF IInv, TypeOK, seqns
    <2> QED
        BY <1>2, <2>4, <2>6 DEF IInv, Balanced, Acks, HandedOver, InHand, Unstarted, seqns
<1> QED
    BY <1>3, <1>4 DEF TakeOrWait

LEMMA SentKeeps == ASSUME IInv, Sent PROVE IInv'
<1>1. /\ queue \in Seq(Nat) /\ Len(queue) \in Nat /\ queue # <<>>
      /\ pending_queue \in Seq(Nat) /\ Len(pending_queue) \in Nat
      /\ max_sent_seqn \in Nat /\ current_seqn \in Nat /\ Len(data) \in Nat
    BY DEF IInv, TypeOK, InHand, Sent
<1>2. /\ max_sent_seqn' = max_sent_seqn + 1
      /\ pending_queue' = Append(pending_queue, Head(queue))
      /\ queue' = Tail(queue)
      /\ async = "sent" /\ async' = "sending"
      /\ UNCHANGED <<state, data, current_seqn, acknowledged_seqn, interrupt_balance,
                     accepted, woken, wire, resent, stopper>>
    BY DEF Sent
<1>3. /\ max_sent_seqn + 1 = current_seqn + Len(pending_queue)
      /\ accepted = max_sent_seqn + Len(queue) + Len(data)
      /\ Numbered(pending_queue, current_seqn)
      /\ Numbered(queue, max_sent_seqn + 1)
      /\ Numbered(data, max_sent_seqn + Len(queue) + 1)
    BY Positions DEF IInv
<1>4. /\ Head(queue) = max_sent_seqn + 1
      /\ Len(queue') = Len(queue) - 1
      /\ Numbered(queue', max_sent_seqn + 1 + 1)
    BY <1>1, <1>2, <1>3, NumberedTail
<1>5. /\ Len(pending_queue') = Len(pending_queue) + 1
      /\ Numbered(pending_queue', current_seqn)
    BY <1>1, <1>2, <1>3, <1>4, NumberedAppend
<1>6. SeqnIsPosition'
    BY <1>1, <1>2, <1>3, <1>4, <1>5, SMTT(30) DEF SeqnIsPosition, Numbered
<1>7. TypeOK'
    BY <1>1, <1>2 DEF IInv, TypeOK
<1> QED
    BY <1>1, <1>2, <1>6, <1>7 DEF IInv, Balanced, Acks, HandedOver, InHand, Unstarted, TypeOK

\* No more packages are dropped than there are: none is in hand, so what is
\* acknowledged has been counted.
LEMMA ReprocessKeeps == ASSUME IInv, reprocess PROVE IInv'
<1> DEFINE n == IF acknowledged_seqn < current_seqn THEN 0
                ELSE acknowledged_seqn - current_seqn + 1
<1>1. /\ pending_queue \in Seq(Nat) /\ Len(pending_queue) \in Nat
      /\ Len(queue) \in Nat /\ Len(data) \in Nat
      /\ max_sent_seqn \in Nat /\ current_seqn \in Nat \ {0} /\ acknowledged_seqn \in Nat
    BY DEF IInv, TypeOK
<1>2. /\ pending_queue' = SubSeq(pending_queue, n + 1, Len(pending_queue))
      /\ current_seqn' = current_seqn + n
      /\ wire = "resuming" /\ wire' = "resending" /\ resent' = 0
      /\ async # "sent"
      /\ UNCHANGED <<state, data, queue, accepted, async, stopper, max_sent_seqn,
                     acknowledged_seqn, interrupt_balance, woken>>
    BY DEF reprocess, DropAcknowledged, At, InProcessing
<1>3. /\ max_sent_seqn + 1 = current_seqn + Len(pending_queue)
      /\ Numbered(pending_queue, current_seqn)
    BY Positions DEF IInv
<1>4. acknowledged_seqn =< max_sent_seqn
    BY <1>1, <1>2 DEF IInv, Acks, HandedOver
<1>5. n \in 0 .. Len(pending_queue)
    BY <1>1, <1>3, <1>4
<1>6. /\ pending_queue' \in Seq(Nat)
      /\ Len(pending_queue') = Len(pending_queue) - n
      /\ Numbered(pending_queue', current_seqn + n)
    BY <1>1, <1>2, <1>3, <1>5, NumberedDrop
<1> HIDE DEF n
<1>7. /\ max_sent_seqn' + 1 = current_seqn' + Len(pending_queue')
      /\ current_seqn' \in Nat \ {0}
    <2>1. max_sent_seqn' = max_sent_seqn /\ current_seqn' = current_seqn + n
        BY <1>2
    <2>2. Len(pending_queue') = Len(pending_queue) - n
        BY <1>6
    <2>3. n \in Nat
        BY <1>1, <1>5
    <2> QED
        BY <1>1, <1>3, <2>1, <2>2, <2>3
<1>8. SeqnIsPosition'
    BY <1>2, <1>6, <1>7 DEF IInv, SeqnIsPosition, Numbered
<1>9. TypeOK'
    <2>1. /\ wire' \in {"up", "pausing", "down", "resuming", "resending", "resent"}
          /\ resent' \in Nat
        BY <1>2
    <2> QED
        BY <1>2, <1>6, <1>7, <2>1 DEF IInv, TypeOK
<1> QED
    BY <1>2, <1>8, <1>9 DEF IInv, Balanced, Acks, HandedOver, InHand, Unstarted

-----------------------------------------------------------------------------
(* The actions that leave the packages where they are.                     *)

\* A step that changes neither the buffers nor what counts them.
LEMMA PositionsStay ==
    ASSUME SeqnIsPosition, UNCHANGED <<buffers, max_sent_seqn, current_seqn, accepted>>
    PROVE  SeqnIsPosition'
BY DEF SeqnIsPosition, buffers

LEMMA StoppingKeeps ==
    ASSUME IInv,
           \/ start \/ StopUnstarted \/ cleanup0 \/ stop \/ terminate
    PROVE  IInv'
<1>1. CASE start
    BY <1>1, PositionsStay DEF IInv, start, TypeOK, Balanced, Acks, HandedOver, InHand, Unstarted, buffers, seqns
<1>2. CASE StopUnstarted
    BY <1>2, PositionsStay DEF IInv, StopUnstarted, TypeOK, Balanced, Acks, HandedOver, InHand, Unstarted,
                               buffers, seqns, control
<1>3. CASE cleanup0
    BY <1>3, PositionsStay DEF IInv, cleanup0, NotifyAll, TypeOK, Balanced, Acks, HandedOver, InHand, Unstarted,
                               buffers, seqns
<1>4. ASSUME NEW s \in {"Stopping", "Terminating"}, terminate0(s)
      PROVE  IInv'
    BY <1>4, PositionsStay DEF IInv, terminate0, NotifyAll, TypeOK, Balanced, Acks, HandedOver, InHand, Unstarted,
                               buffers, seqns
<1> QED
    BY <1>1, <1>2, <1>3, <1>4 DEF stop, terminate

LEMMA AsyncKeeps == ASSUME IInv, AsyncThread PROVE IInv'
<1>1. ASSUME Quit, async \in {"loop", "waiting"}
      PROVE  IInv'
    BY <1>1, PositionsStay DEF IInv, Quit, TypeOK, Balanced, Acks, HandedOver, InHand, Unstarted, buffers, seqns
<1>2. CASE Loop \/ Wake
    BY <1>1, <1>2, TakeKeeps DEF Loop, Wake
<1>3. CASE process \/ Processed
    BY <1>3, PositionsStay DEF IInv, process, Processed, Go, TypeOK, Balanced, Acks, HandedOver,
                               InHand, Unstarted, buffers, seqns
<1>4. ASSUME NEW ok \in BOOLEAN, SendNew(ok)
      PROVE  IInv'
    BY <1>4, PositionsStay DEF IInv, SendNew, Go, TypeOK, Balanced, Acks, HandedOver, InHand, Unstarted,
                               buffers, seqns
<1> QED
    BY <1>2, <1>3, <1>4, SentKeeps DEF AsyncThread

LEMMA WireKeeps == ASSUME IInv, pause \/ resume \/ WireWorks PROVE IInv'
<1> USE DEF IInv, At, TypeOK, Balanced, Acks, HandedOver, InHand, Unstarted, buffers, seqns
<1>1. CASE pause
    BY <1>1, PositionsStay DEF pause
<1>2. CASE resume
    BY <1>2, PositionsStay DEF resume
<1>3. CASE Paused
    BY <1>3, PositionsStay DEF Paused
<1>4. ASSUME NEW ok \in BOOLEAN, Resend(ok)
      PROVE  IInv'
    BY <1>4, PositionsStay DEF Resend
<1>5. CASE Reprocessed
    BY <1>5, PositionsStay DEF Reprocessed
<1>6. CASE Resumed
    BY <1>6, PositionsStay DEF Resumed, NotifyAll
<1> QED
    BY <1>1, <1>2, <1>3, <1>4, <1>5, <1>6, ReprocessKeeps DEF WireWorks

LEMMA AcknowledgeKeeps ==
    ASSUME IInv, NEW seqn \in 1 .. HandedOver, acknowledge(seqn)
    PROVE  IInv'
<1>1. HandedOver \in Nat
    BY DEF IInv, TypeOK, HandedOver
<1> QED
    BY <1>1, PositionsStay DEF IInv, acknowledge, At, TypeOK, Balanced, Acks, HandedOver, InHand, Unstarted, buffers

-----------------------------------------------------------------------------
\* IInv holds initially.
LEMMA InitHolds == ASSUME Init PROVE IInv
<1>1. TypeOK
    <2>1. <<>> \in Seq(Nat)
        OBVIOUS
    <2>2. data \in Seq(Nat) /\ queue \in Seq(Nat) /\ pending_queue \in Seq(Nat)
        BY <2>1 DEF Init
    <2>3. /\ state = "Initialized" /\ async = "none"
          /\ wire = "up" /\ stopper = "idle" /\ resent = 0 /\ interrupt_balance = 0
          /\ max_sent_seqn = 0 /\ current_seqn = 1 /\ acknowledged_seqn = 0 /\ accepted = 0
        BY DEF Init
    <2>4. woken \in BOOLEAN
        BY DEF Init
    <2> QED
        BY <2>2, <2>3, <2>4, MaxPutsAssumption DEF TypeOK
<1>2. SeqnIsPosition
    <2>1. data = <<>> /\ queue = <<>> /\ pending_queue = <<>>
        BY DEF Init
    <2>2. Len(<<>>) = 0
        BY EmptySeq
    <2>3. max_sent_seqn = 0 /\ current_seqn = 1 /\ accepted = 0
        BY DEF Init
    <2> QED
        BY <2>1, <2>2, <2>3 DEF SeqnIsPosition
<1> QED
    BY <1>1, <1>2 DEF Init, IInv, Balanced, Acks, HandedOver, InHand, Unstarted

\* Every step keeps IInv.
LEMMA StepKeeps == ASSUME IInv, [Next]_vars PROVE IInv'
<1>1. CASE put
    BY <1>1, PutKeeps
<1>2. CASE start \/ StopUnstarted \/ stop \/ terminate \/ cleanup0
    BY <1>2, StoppingKeeps
<1>3. CASE AsyncThread
    BY <1>3, AsyncKeeps
<1>4. CASE pause \/ resume \/ WireWorks
    BY <1>4, WireKeeps
<1>5. CASE \E seqn \in 1 .. HandedOver : acknowledge(seqn)
    BY <1>5, AcknowledgeKeeps
<1>6. CASE UNCHANGED vars
    BY <1>6, PositionsStay DEF IInv, vars, TypeOK, Balanced, Acks, HandedOver, InHand, Unstarted,
                               buffers, seqns, control
<1> QED
    BY <1>1, <1>2, <1>3, <1>4, <1>5, <1>6 DEF Next

\* IInv is an invariant.
LEMMA Inductive == Spec => []IInv
BY InitHolds, StepKeeps, PTL DEF Spec

\* The buffers, the counters and the places of the threads keep their types, and
\* pauses are balanced, however many packages there are.
THEOREM TypeCorrect == Spec => []TypeOK
BY Inductive, PTL DEF IInv

\* Every accepted package keeps the seqn of its position through failures, pauses
\* and resumes, and reprocess never pops an empty pending_queue.
THEOREM PositionCorrect == Spec => []SeqnIsPosition
BY Inductive, PTL DEF IInv

-----------------------------------------------------------------------------
(* The wire.                                                               *)

Places ==
    /\ wire \in {"resuming", "resending", "resent"} => attached
    /\ wire = "pausing" => ~attached
    /\ wire = "up" /\ ~attached => state = "Initialized"
    /\ attached => state # "Initialized" /\ sconn # 0
    /\ wire = "resending" => ~InProcessing
    /\ ~attached /\ sconn # 0 => sconn \in broken
    /\ sconn = 0 => async \in {"none", "loop", "waiting", "done"}

Order ==
    /\ \A c \in Connection : c > sconn => out[c] = <<>> /\ back[c] = <<>>
    /\ \A c \in Connection : c > rconn => back[c] = <<>>
    /\ \A c \in Connection : c < rconn => out[c] = <<>>
    /\ \A c \in Connection : c < sconn \/ c < rconn => c \in broken
    /\ rattached => rconn # 0
    /\ ~rattached /\ rconn # 0 => rconn \in broken /\ out[rconn] = <<>>

Handed ==
    /\ current_seqn =< acknowledged_seqn + 1
    /\ \A c \in Connection :
        /\ \A i \in 1 .. Len(out[c]) : out[c][i] =< HandedOver
        /\ \A i \in 1 .. Len(back[c]) : back[c][i] =< HandedOver

Runs == \A c \in Connection : \A i \in 1 .. Len(out[c]) : out[c][i] = out[c][1] + i - 1

Heads == \A c \in Connection : out[c] # <<>> =>
    /\ c = rconn => out[c][1] =< max_received_seqn + 1
    /\ c > rconn => out[c][1] =< acknowledged_seqn + 1
    /\ out[c][1] = 1 => acknowledged_seqn = 0

AcksOrdered == sconn # 0 =>
    /\ \A i \in 1 .. Len(back[sconn]) :
        /\ acknowledged_seqn < back[sconn][i] /\ back[sconn][i] =< max_received_seqn
        /\ \A j \in 1 .. i - 1 : back[sconn][j] < back[sconn][i]
        /\ out[sconn] # <<>> => back[sconn][i] < out[sconn][1]
    /\ out[sconn] # <<>> => acknowledged_seqn < out[sconn][1]

Received ==
    /\ acknowledged_seqn =< max_received_seqn
    /\ 1 .. max_received_seqn \subseteq read

Fresh == attached /\ wire \in {"down", "resuming"} => out[sconn] = <<>> /\ back[sconn] = <<>>

NextToSend == IF wire = "resending" THEN current_seqn + resent ELSE HandedOver + 1

First == NextToSend - Len(out[sconn])

InStep == attached /\ sconn \notin broken /\ wire \in {"resending", "resent", "up"} =>
    /\ out[sconn] # <<>> => out[sconn][1] = First
    /\ acknowledged_seqn < First
    /\ rconn < sconn => First =< acknowledged_seqn + 1
    /\ rconn = sconn => First =< max_received_seqn + 1
    /\ \A i \in 1 .. Len(back[sconn]) : back[sconn][i] < First

Dispatched ==
    /\ \A i \in 1 .. Len(dispatched) :
        dispatched[i] = 1 \/ (i > 1 /\ dispatched[i] = dispatched[i - 1] + 1)
    /\ aligned => IF dispatched = <<>> THEN max_received_seqn = 0
                  ELSE max_received_seqn = dispatched[Len(dispatched)]

Safe == IInv /\ WireTypeOK /\ Places /\ Order /\ Handed

Smooth == Runs /\ Heads /\ AcksOrdered /\ Received /\ Fresh /\ InStep /\ Dispatched

WInv == Safe /\ (~rushed => Smooth)

-----------------------------------------------------------------------------
(* The streams of a connection: what each operation does to a sequence.    *)

LEMMA Appended ==
    ASSUME NEW S, NEW s \in Seq(S), NEW x \in S
    PROVE  /\ Append(s, x) \in Seq(S) /\ Append(s, x) # <<>>
           /\ Len(s) \in Nat /\ Len(Append(s, x)) = Len(s) + 1
           /\ \A i \in 1 .. Len(s) : Append(s, x)[i] = s[i]
           /\ Append(s, x)[Len(s) + 1] = x
OBVIOUS

LEMMA Taken ==
    ASSUME NEW S, NEW s \in Seq(S), s # <<>>
    PROVE  /\ Tail(s) \in Seq(S) /\ Head(s) = s[1] /\ Head(s) \in S
           /\ Len(s) \in Nat \ {0} /\ 1 \in 1 .. Len(s) /\ Len(Tail(s)) = Len(s) - 1
           /\ \A i \in 1 .. Len(s) - 1 : Tail(s)[i] = s[i + 1]
<1>1. Len(s) \in Nat \ {0} /\ 1 \in 1 .. Len(s)
    OBVIOUS
<1>2. Head(s) = s[1] /\ Tail(s) \in Seq(S) /\ Len(Tail(s)) = Len(s) - 1
    OBVIOUS
<1>3. \A i \in 1 .. Len(s) - 1 : Tail(s)[i] = s[i + 1]
    BY <1>1
<1>4. s[1] \in S
    BY <1>1, ElementOfSeq
<1> QED
    BY <1>1, <1>2, <1>3, <1>4

LEMMA Cut ==
    ASSUME NEW S, NEW s \in Seq(S), NEW t \in Prefixes(s)
    PROVE  /\ t \in Seq(S) /\ Len(t) \in Nat /\ Len(s) \in Nat /\ Len(t) =< Len(s)
           /\ \A i \in 1 .. Len(t) : t[i] = s[i]
           /\ t # <<>> => s # <<>> /\ 1 \in 1 .. Len(t)
<1>1. PICK n \in 0 .. Len(s) : t = SubSeq(s, 1, n)
    BY DEF Prefixes
<1>2. Len(s) \in Nat
    OBVIOUS
<1>3. \A i \in 1 .. n : s[i] \in S
    BY <1>2, ElementOfSeq
<1>4. t \in Seq(S) /\ Len(t) = n
    BY <1>1, <1>2, <1>3
<1>5. \A i \in 1 .. Len(t) : t[i] = s[i]
    BY <1>1, <1>2, <1>4
<1>6. t # <<>> => Len(t) > 0
    BY <1>4
<1>7. s = <<>> => Len(s) = 0
    BY EmptySeq
<1> QED
    BY <1>1, <1>2, <1>4, <1>5, <1>6, <1>7

-----------------------------------------------------------------------------
(* The wire and its buffer.                                                *)

\* A package that is handed to the socket has been accepted.
LEMMA SendRange ==
    ASSUME IInv
    PROVE  /\ HandedOver \in Nat /\ HandedOver =< MaxPuts
           /\ queue # <<>> => max_sent_seqn + 1 \in 1 .. MaxPuts
           /\ resent < Len(pending_queue) =>
                /\ ResendSeqn \in 1 .. MaxPuts
                /\ ResendSeqn =< HandedOver
<1>1. /\ max_sent_seqn \in Nat /\ current_seqn \in Nat \ {0} /\ resent \in Nat
      /\ accepted \in Nat /\ accepted =< MaxPuts /\ MaxPuts \in Nat
      /\ Len(queue) \in Nat /\ Len(data) \in Nat /\ Len(pending_queue) \in Nat
    BY MaxPutsAssumption DEF IInv, TypeOK
<1>2. queue # <<>> => Len(queue) > 0
    BY DEF IInv, TypeOK
<1>3. /\ max_sent_seqn + 1 = current_seqn + Len(pending_queue)
      /\ accepted = max_sent_seqn + Len(queue) + Len(data)
    BY DEF IInv, SeqnIsPosition
<1>4. HandedOver \in Nat /\ HandedOver =< MaxPuts /\ max_sent_seqn =< HandedOver
    BY <1>1, <1>2, <1>3 DEF HandedOver, IInv, InHand
<1> QED
    BY <1>1, <1>2, <1>3, <1>4 DEF ResendSeqn

\* Every step of the wire is a step of its buffer, or leaves it alone.
LEMMA BufferSteps ==
    ASSUME IInv, WireTypeOK, Places, Handed, [WireNext]_wireVars
    PROVE  [Next]_vars
<1>1. ASSUME NEW c \in Connection, Break(c)
      PROVE  UNCHANGED vars
    BY <1>1 DEF Break
<1>2. CASE Construct \/ Send
    BY <1>2 DEF Construct, Send, Next
<1>3. ASSUME NEW ok \in BOOLEAN, SendPackage(ok) \/ ResendPackage(ok)
      PROVE  Next
    BY <1>3 DEF SendPackage, ResendPackage, Next, AsyncThread, WireWorks
<1>4. CASE BufferWorks
    BY <1>4 DEF BufferWorks, Next, AsyncThread, WireWorks
<1>5. CASE set_socket_provider \/ Accept \/ read_package \/ Lose
    BY <1>5 DEF set_socket_provider, Accept, read_package, Lose
<1>6. CASE Resume \/ Disconnect
    BY <1>6 DEF Resume, Disconnect, Next
<1>7. CASE ReadAck
    <2>1. sconn \in Connection
        BY <1>7 DEF ReadAck, WireTypeOK, Places, Connection
    <2>2. back[sconn] \in Seq(1 .. MaxPuts) /\ back[sconn] # <<>>
        BY <1>7, <2>1 DEF ReadAck, WireTypeOK
    <2>3. Head(back[sconn]) = back[sconn][1] /\ 1 \in 1 .. Len(back[sconn])
        BY <2>2
    <2>4. back[sconn][1] \in 1 .. MaxPuts
        BY <2>2, <2>3, ElementOfSeq
    <2>5. back[sconn][1] =< HandedOver
        BY <2>1, <2>3 DEF Handed
    <2>6. Head(back[sconn]) \in 1 .. HandedOver
        BY <2>3, <2>4, <2>5, SendRange
    <2> QED
        BY <1>7, <2>6 DEF ReadAck, Next
<1>8. CASE UNCHANGED wireVars
    BY <1>8 DEF wireVars
<1> QED
    BY <1>1, <1>2, <1>3, <1>4, <1>5, <1>6, <1>7, <1>8 DEF WireNext

\* A package reaches only a connection that holds.
LEMMA Sends ==
    ASSUME IInv, WireTypeOK, Places, NEW ok \in BOOLEAN, SendPackage(ok) \/ ResendPackage(ok)
    PROVE  /\ sconn \in Connection
           /\ UNCHANGED <<senderConnects, back, broken, sconn, attached, receiver>>
           /\ \/ out' = out
              \/ /\ sconn \notin broken
                 /\ \E x \in 1 .. MaxPuts : /\ x =< HandedOver'
                                            /\ out' = [out EXCEPT ![sconn] = Append(@, x)]
<1>1. CASE SendPackage(ok)
    <2>1. async = "sending" /\ queue # <<>> /\ max_sent_seqn' = max_sent_seqn
          /\ (ok => async' = "sent")
        BY <1>1 DEF SendPackage, SendNew, Go, seqns
    <2>2. sconn \in Connection
        BY <2>1 DEF WireTypeOK, Places, Connection
    <2>3. ok => max_sent_seqn + 1 =< HandedOver'
        BY <2>1 DEF HandedOver, IInv, TypeOK
    <2> QED
        BY <1>1, <2>1, <2>2, <2>3, SendRange DEF SendPackage, send0
<1>2. CASE ResendPackage(ok)
    <2>1. wire = "resending" /\ resent < Len(pending_queue) /\ HandedOver' = HandedOver
        BY <1>2 DEF ResendPackage, Resend, At, HandedOver, seqns
    <2>2. sconn \in Connection
        BY <2>1 DEF WireTypeOK, Places, Connection
    <2> QED
        BY <1>2, <2>1, <2>2, SendRange DEF ResendPackage, send0
<1> QED
    BY <1>1, <1>2

LEMMA PlacesKept ==
    ASSUME IInv, WireTypeOK, Places, [WireNext]_wireVars
    PROVE  Places'
<1> USE DEF Places, InProcessing, streams, receiver
<1>0. attached \in BOOLEAN /\ sconn \in 0 .. MaxConnections /\ MaxConnections \in Nat
    BY MaxConnectionsAssumption DEF WireTypeOK
<1>1. ASSUME NEW c \in Connection, Break(c)
      PROVE  Places'
    BY <1>0, <1>1 DEF Break, vars, control
<1>2. CASE Construct
    BY <1>0, <1>2 DEF Construct, pause, start, At
<1>3. CASE Send
    BY <1>0, <1>3 DEF Send, put
<1>4. ASSUME NEW ok \in BOOLEAN, SendPackage(ok)
      PROVE  Places'
    BY <1>0, <1>4 DEF SendPackage, send0, SendNew, Go
<1>5. ASSUME NEW ok \in BOOLEAN, ResendPackage(ok)
      PROVE  Places'
    BY <1>0, <1>5 DEF ResendPackage, send0, Resend, At
<1>6. CASE BufferWorks
    <2> USE DEF BufferWorks
    <2>1. CASE Loop \/ Wake
        BY <1>0, <1>6, <2>1 DEF Loop, Wake, TakeOrWait, Quit, Idle, IInv, Balanced, Unstarted
    <2>2. CASE process \/ Sent \/ Processed
        BY <1>0, <1>6, <2>2 DEF process, Sent, Processed, Go
    <2>3. CASE Paused \/ reprocess \/ Reprocessed \/ Resumed
        BY <1>0, <1>6, <2>3 DEF Paused, reprocess, Reprocessed, Resumed, At
    <2> QED
        BY <1>6, <2>1, <2>2, <2>3
<1>7. CASE set_socket_provider
    BY <1>0, <1>7 DEF set_socket_provider, vars, control, WireTypeOK
<1>8. CASE Resume
    BY <1>0, <1>8 DEF Resume, resume, At
<1>9. CASE ReadAck
    BY <1>0, <1>9 DEF ReadAck, acknowledge, At
<1>10. CASE Disconnect
    BY <1>0, <1>10 DEF Disconnect, pause, At
<1>11. CASE Accept \/ read_package \/ Lose
    BY <1>0, <1>11 DEF Accept, read_package, Lose, vars, control
<1>12. CASE UNCHANGED wireVars
    BY <1>0, <1>12 DEF wireVars, vars, control
<1> QED
    BY <1>1, <1>2, <1>3, <1>4, <1>5, <1>6, <1>7, <1>8, <1>9, <1>10, <1>11, <1>12 DEF WireNext

\* WireTypeOK in parts that the provers take one by one.
Flags == /\ senderConnects \in BOOLEAN
         /\ attached \in BOOLEAN /\ rattached \in BOOLEAN
         /\ aligned \in BOOLEAN
         /\ rushed \in BOOLEAN

Flows == /\ out \in [Connection -> Seq(1 .. MaxPuts)]
         /\ back \in [Connection -> Seq(1 .. MaxPuts)]

Ends == /\ broken \subseteq Connection
        /\ sconn \in 0 .. MaxConnections /\ rconn \in 0 .. MaxConnections
        /\ max_received_seqn \in 0 .. MaxPuts
        /\ dispatched \in Seq(1 .. MaxPuts)
        /\ read \subseteq 1 .. MaxPuts

LEMMA FlagsKept ==
    ASSUME WireTypeOK, [WireNext]_wireVars
    PROVE  Flags'
<1> USE DEF Flags, streams, receiver
<1>0. Flags
    BY DEF WireTypeOK
<1>1. ASSUME NEW c \in Connection, Break(c)
      PROVE  Flags'
    BY <1>0, <1>1 DEF Break
<1>2. CASE Construct \/ Send \/ BufferWorks \/ Resume \/ Disconnect
    BY <1>0, <1>2 DEF Construct, Send, BufferWorks, Resume, Disconnect
<1>3. ASSUME NEW ok \in BOOLEAN, SendPackage(ok) \/ ResendPackage(ok)
      PROVE  Flags'
    BY <1>0, <1>3 DEF SendPackage, ResendPackage, send0, Overtakes
<1>4. CASE set_socket_provider \/ ReadAck
    BY <1>0, <1>4 DEF set_socket_provider, ReadAck
<1>5. CASE Accept \/ Lose
    BY <1>0, <1>5 DEF Accept, Lose
<1>6. CASE read_package
    BY <1>0, <1>6 DEF read_package
<1>7. CASE UNCHANGED wireVars
    BY <1>0, <1>7 DEF wireVars
<1> QED
    BY <1>1, <1>2, <1>3, <1>4, <1>5, <1>6, <1>7 DEF WireNext

LEMMA FlowsKept ==
    ASSUME IInv, WireTypeOK, Places, Order, [WireNext]_wireVars
    PROVE  Flows'
<1> DEFINE S == 1 .. MaxPuts
           StreamsTo(o, b) == o \in [Connection -> Seq(S)] /\ b \in [Connection -> Seq(S)]
<1>0. StreamsTo(out, back)
    BY DEF WireTypeOK
<1> SUFFICES StreamsTo(out', back')
    BY DEF Flows
<1>a. sconn # 0 => sconn \in Connection
    BY DEF WireTypeOK, Connection
<1>b. rattached => rconn \in Connection
    BY DEF WireTypeOK, Connection, Order
<1>c. ASSUME NEW ok \in BOOLEAN, SendPackage(ok) \/ ResendPackage(ok)
      PROVE  /\ sconn \in Connection
             /\ back' = back
             /\ (out' = out \/ \E x \in S : out' = [out EXCEPT ![sconn] = Append(@, x)])
    BY <1>c, Sends
<1> HIDE DEF S
<1>1. ASSUME NEW c \in Connection, Break(c)
      PROVE  StreamsTo(out', back')
    <2>1. PICK s \in Prefixes(out[c]), t \in Prefixes(back[c]) :
            out' = [out EXCEPT ![c] = s] /\ back' = [back EXCEPT ![c] = t]
        BY <1>1 DEF Break
    <2>2. s \in Seq(S) /\ t \in Seq(S)
        BY <1>0, Cut
    <2> QED
        BY <1>0, <2>1, <2>2
<1>2. CASE Construct \/ Send \/ BufferWorks \/ Resume \/ Disconnect \/ set_socket_provider \/ Accept \/ Lose
    BY <1>0, <1>2 DEF Construct, Send, BufferWorks, Resume, Disconnect, streams, set_socket_provider, Accept, Lose
<1>3. ASSUME NEW ok \in BOOLEAN, SendPackage(ok) \/ ResendPackage(ok)
      PROVE  StreamsTo(out', back')
    <2>1. sconn \in Connection /\ back' = back
          /\ (out' = out \/ \E x \in S : out' = [out EXCEPT ![sconn] = Append(@, x)])
        BY <1>3, <1>c
    <2>2. \A x \in S : Append(out[sconn], x) \in Seq(S)
        BY <1>0, <2>1, Appended
    <2> QED
        BY <1>0, <2>1, <2>2
<1>5. CASE ReadAck
    <2>1. sconn \in Connection /\ back[sconn] # <<>> /\ out' = out
          /\ back' = [back EXCEPT ![sconn] = Tail(@)]
        BY <1>5, <1>a DEF ReadAck, Places
    <2> QED
        BY <1>0, <2>1, Taken
<1>7. CASE read_package
    <2>1. rconn \in Connection /\ out[rconn] # <<>> /\ out' = [out EXCEPT ![rconn] = Tail(@)]
          /\ (back' = back \/ back' = [back EXCEPT ![rconn] = Append(@, Head(out[rconn]))])
        BY <1>7, <1>b DEF read_package, send_ack
    <2>2. Head(out[rconn]) \in S /\ Tail(out[rconn]) \in Seq(S)
        BY <1>0, <2>1, Taken
    <2>3. Append(back[rconn], Head(out[rconn])) \in Seq(S)
        BY <1>0, <2>1, <2>2, Appended
    <2> QED
        BY <1>0, <2>1, <2>2, <2>3
<1>8. CASE UNCHANGED wireVars
    BY <1>0, <1>8 DEF wireVars, streams
<1> QED
    BY <1>1, <1>2, <1>3, <1>5, <1>7, <1>8 DEF WireNext

LEMMA EndsKept ==
    ASSUME IInv, WireTypeOK, Places, Order, [WireNext]_wireVars
    PROVE  Ends'
<1>0. Ends
    BY DEF WireTypeOK, Ends
<1>1. ASSUME NEW c \in Connection, Break(c)
      PROVE  Ends'
    BY <1>0, <1>1 DEF Break, receiver, Ends
<1>2. CASE Construct \/ Send \/ BufferWorks \/ Resume \/ Disconnect \/ ReadAck \/ Lose
    BY <1>0, <1>2 DEF Construct, Send, BufferWorks, Resume, Disconnect, ReadAck, Lose, streams, receiver, Ends
<1>3. ASSUME NEW ok \in BOOLEAN, SendPackage(ok) \/ ResendPackage(ok)
      PROVE  Ends'
    BY <1>0, <1>3, Sends DEF receiver, Ends
<1>4. CASE set_socket_provider \/ Accept
    <2>1. UNCHANGED <<broken, max_received_seqn, dispatched, read>>
        BY <1>4 DEF set_socket_provider, Accept, streams, receiver
    <2>2. sconn' \in 0 .. MaxConnections /\ rconn' \in 0 .. MaxConnections
        BY <1>0, <1>4, MaxConnectionsAssumption DEF set_socket_provider, Accept, streams, receiver, Connection, Opened, Ends
    <2> QED
        BY <1>0, <2>1, <2>2 DEF Ends
<1>7. CASE read_package
    <2>1. rconn \in Connection /\ out[rconn] \in Seq(1 .. MaxPuts)
        BY <1>7 DEF read_package, Order, WireTypeOK, Connection
    <2>2. Head(out[rconn]) \in 1 .. MaxPuts
        BY <1>7, <2>1, Taken DEF read_package
    <2>3. max_received_seqn' \in 0 .. MaxPuts
        BY <1>0, <1>7, <2>2 DEF read_package, Ends
    <2>4. dispatched' \in Seq(1 .. MaxPuts)
        <3>1. Append(dispatched, Head(out[rconn])) \in Seq(1 .. MaxPuts)
            BY <1>0, <2>2, Appended DEF Ends
        <3>2. dispatched' \in {dispatched, Append(dispatched, Head(out[rconn]))}
            BY <1>7 DEF read_package
        <3> QED
            BY <1>0, <3>1, <3>2 DEF Ends
    <2>5. read' \subseteq 1 .. MaxPuts
        BY <1>0, <1>7, <2>2 DEF read_package, Ends
    <2>6. UNCHANGED <<broken, sconn, rconn>>
        BY <1>7 DEF read_package
    <2> QED
        BY <1>0, <2>3, <2>4, <2>5, <2>6 DEF Ends
<1>8. CASE UNCHANGED wireVars
    BY <1>0, <1>8 DEF wireVars, streams, receiver, Ends
<1> QED
    BY <1>1, <1>2, <1>3, <1>4, <1>7, <1>8 DEF WireNext

LEMMA TypesKept ==
    ASSUME IInv, TypeOK', WireTypeOK, Places, Places', Order, [WireNext]_wireVars
    PROVE  WireTypeOK'
<1>1. Flags' /\ Flows' /\ Ends'
    BY FlagsKept, FlowsKept, EndsKept
<1>2. (InProcessing => sconn # 0)'
    BY DEF Places, InProcessing
<1> QED
    BY <1>1, <1>2 DEF WireTypeOK, Flags, Flows, Ends

\* What the streams carry before and after a package is sent, taken or cut off.
LEMMA OrderKept ==
    ASSUME IInv, WireTypeOK, Places, Order, [WireNext]_wireVars
    PROVE  Order'
<1>0. /\ sconn \in 0 .. MaxConnections /\ rconn \in 0 .. MaxConnections /\ MaxConnections \in Nat
      /\ out \in [Connection -> Seq(1 .. MaxPuts)] /\ back \in [Connection -> Seq(1 .. MaxPuts)]
      /\ rattached \in BOOLEAN /\ attached \in BOOLEAN
    BY MaxConnectionsAssumption DEF WireTypeOK
<1>1. ASSUME NEW c \in Connection, Break(c)
      PROVE  Order'
    <2>1. PICK s \in Prefixes(out[c]), t \in Prefixes(back[c]) :
            out' = [out EXCEPT ![c] = s] /\ back' = [back EXCEPT ![c] = t]
        BY <1>1 DEF Break
    <2>2. (out[c] = <<>> => s = <<>>) /\ (back[c] = <<>> => t = <<>>)
        BY <1>0, Cut
    <2> QED
        BY <1>0, <1>1, <2>1, <2>2 DEF Break, receiver, Order
<1>2. CASE Construct \/ Send \/ BufferWorks \/ Resume \/ Disconnect
    BY <1>2 DEF Construct, Send, BufferWorks, Resume, Disconnect, streams, receiver, Order
<1>3. ASSUME NEW ok \in BOOLEAN, SendPackage(ok) \/ ResendPackage(ok)
      PROVE  Order'
    <2>1. /\ sconn \in Connection
          /\ UNCHANGED <<back, broken, sconn, receiver>>
          /\ (out' = out \/ (sconn \notin broken
                             /\ \E x \in 1 .. MaxPuts : out' = [out EXCEPT ![sconn] = Append(@, x)]))
        BY <1>3, Sends
    <2> QED
        <3>1. \A c \in Connection : c # sconn \/ sconn \in broken => out'[c] = out[c]
            BY <1>0, <2>1
        <3>2. rattached' = rattached /\ rconn' = rconn
            BY <2>1 DEF receiver
        <3>3. \A c \in Connection : c > sconn => out'[c] = <<>>
            BY <1>0, <3>1 DEF Order, Connection
        <3>4. \A c \in Connection : c < rconn => out'[c] = <<>>
            BY <3>1 DEF Order
        <3>5. ~rattached /\ rconn # 0 => out'[rconn] = <<>>
            <4>1. rconn # 0 => rconn \in Connection
                BY <1>0 DEF Connection
            <4> QED
                BY <3>1, <4>1 DEF Order
        <3> QED
            BY <2>1, <3>2, <3>3, <3>4, <3>5 DEF Order
<1>4. CASE set_socket_provider
    <2>1. /\ UNCHANGED <<out, back, broken, rconn, rattached>>
          /\ sconn' = sconn + 1 /\ ~attached
        BY <1>4 DEF set_socket_provider, streams, receiver
    <2>2. \A c \in Connection : c > sconn + 1 => c > sconn
        BY <1>0 DEF Connection
    <2>3. \A c \in Connection : c < sconn + 1 => c \in broken
        <3>1. sconn # 0 => sconn \in broken
            BY <2>1 DEF Places
        <3>2. \A c \in Connection : c < sconn + 1 => c < sconn \/ (c = sconn /\ sconn # 0)
            BY <1>0 DEF Connection
        <3> QED
            BY <3>1, <3>2 DEF Order
    <2> QED
        BY <2>1, <2>2, <2>3 DEF Order
<1>5. CASE ReadAck
    BY <1>0, <1>5 DEF ReadAck, receiver, Connection, Order, Places
<1>6. CASE Accept
    <2>1. /\ UNCHANGED <<out, back, broken, sconn>>
          /\ rconn' = rconn + 1 /\ rattached' = TRUE /\ ~rattached
        BY <1>6 DEF Accept, streams
    <2>2. \A c \in Connection : c > rconn + 1 => c > rconn
        BY <1>0 DEF Connection
    <2>3. \A c \in Connection : c < rconn + 1 => c \in broken /\ out[c] = <<>>
        <3>1. rconn # 0 => rconn \in broken /\ out[rconn] = <<>>
            BY <2>1 DEF Order
        <3>2. \A c \in Connection : c < rconn + 1 => c < rconn \/ (c = rconn /\ rconn # 0)
            BY <1>0 DEF Connection
        <3> QED
            BY <3>1, <3>2 DEF Order
    <2>4. rconn' # 0
        BY <1>0, <2>1
    <2> QED
        BY <2>1, <2>2, <2>3, <2>4 DEF Order
<1>7. CASE read_package
    <2>1. rconn \in Connection /\ rconn =< sconn
        BY <1>0, <1>7 DEF read_package, Connection, Order
    <2> QED
        BY <1>0, <1>7, <2>1 DEF read_package, send_ack, Order
<1>8. CASE Lose
    BY <1>0, <1>8 DEF Lose, streams, Order
<1>9. CASE UNCHANGED wireVars
    BY <1>9 DEF wireVars, streams, receiver, Order
<1> QED
    BY <1>1, <1>2, <1>3, <1>4, <1>5, <1>6, <1>7, <1>8, <1>9 DEF WireNext

\* Nothing that was handed to the socket is taken back.
LEMMA HandedGrows ==
    ASSUME IInv, WireTypeOK, Places, [WireNext]_wireVars
    PROVE  HandedOver \in Nat /\ HandedOver' \in Nat /\ HandedOver =< HandedOver'
<1>0. HandedOver \in Nat /\ max_sent_seqn \in Nat
    BY SendRange DEF IInv, TypeOK
<1>1. ASSUME NEW ok \in BOOLEAN, SendPackage(ok)
      PROVE  HandedOver' \in Nat /\ HandedOver =< HandedOver'
    BY <1>0, <1>1 DEF SendPackage, SendNew, Go, HandedOver, seqns
<1>2. CASE Loop \/ Wake
    BY <1>0, <1>2 DEF Loop, Wake, TakeOrWait, Quit, HandedOver, seqns
<1>3. CASE process \/ Sent \/ Processed
    BY <1>0, <1>3 DEF process, Sent, Processed, Go, HandedOver, seqns
<1>4. CASE Paused \/ reprocess \/ Reprocessed \/ Resumed
    BY <1>0, <1>4 DEF Paused, reprocess, Reprocessed, Resumed, At, HandedOver, seqns
<1>5. ASSUME NEW ok \in BOOLEAN, ResendPackage(ok)
      PROVE  HandedOver' = HandedOver
    BY <1>5 DEF ResendPackage, Resend, At, HandedOver, seqns
<1>6. CASE Construct
    BY <1>0, <1>6 DEF Construct, pause, start, At, HandedOver, seqns, IInv, Unstarted
<1>7. CASE Send \/ Resume \/ ReadAck \/ Disconnect
    BY <1>0, <1>7 DEF Send, put, Resume, resume, ReadAck, acknowledge, Disconnect, pause, At, HandedOver, seqns
<1>8. CASE set_socket_provider \/ Accept \/ read_package \/ Lose \/ UNCHANGED wireVars
          \/ \E c \in Connection : Break(c)
    BY <1>0, <1>8 DEF set_socket_provider, Accept, read_package, Lose, wireVars, Break, vars, seqns, control, HandedOver
<1> QED
    BY <1>0, <1>1, <1>2, <1>3, <1>4, <1>5, <1>6, <1>7, <1>8 DEF WireNext, BufferWorks

\* The acknowledgements only grow, and what is dropped has been acknowledged.
LEMMA DroppedKept ==
    ASSUME IInv, WireTypeOK, Places, Handed, [WireNext]_wireVars
    PROVE  current_seqn' =< acknowledged_seqn' + 1
<1>0. /\ current_seqn =< acknowledged_seqn + 1
      /\ current_seqn \in Nat /\ acknowledged_seqn \in Nat
    BY DEF Handed, IInv, TypeOK
<1>1. CASE reprocess
    BY <1>0, <1>1 DEF reprocess, DropAcknowledged
<1>2. CASE ReadAck
    <2>1. sconn \in Connection
        BY <1>2 DEF ReadAck, WireTypeOK, Places, Connection
    <2>2. Head(back[sconn]) \in 1 .. MaxPuts
        BY <1>2, <2>1, Taken DEF ReadAck, WireTypeOK
    <2> QED
        BY <1>0, <1>2, <2>2, MaxPutsAssumption DEF ReadAck, acknowledge
<1>3. ASSUME ~reprocess, ~ReadAck
      PROVE  UNCHANGED <<current_seqn, acknowledged_seqn>>
    <2>1. ASSUME NEW ok \in BOOLEAN, SendPackage(ok) \/ ResendPackage(ok)
          PROVE  UNCHANGED <<current_seqn, acknowledged_seqn>>
        BY <2>1 DEF SendPackage, SendNew, Go, ResendPackage, Resend, At, seqns
    <2>2. CASE BufferWorks
        BY <1>3, <2>2 DEF BufferWorks, Loop, Wake, TakeOrWait, Quit, process, Sent, Processed, Go,
                          Paused, Reprocessed, Resumed, At, seqns
    <2>3. CASE Construct \/ Send \/ Resume \/ Disconnect
        BY <2>3 DEF Construct, Send, put, start, pause, Resume, resume, Disconnect, At, seqns
    <2>4. CASE set_socket_provider \/ Accept \/ read_package \/ Lose \/ UNCHANGED wireVars
               \/ \E c \in Connection : Break(c)
        BY <2>4 DEF set_socket_provider, Accept, read_package, Lose, wireVars, Break, vars, seqns
    <2> QED
        BY <1>3, <2>1, <2>2, <2>3, <2>4 DEF WireNext
<1> QED
    BY <1>0, <1>1, <1>2, <1>3

LEMMA HandedKept ==
    ASSUME IInv, WireTypeOK, Places, Order, Handed, [WireNext]_wireVars
    PROVE  Handed'
<1> DEFINE Bound(s, n) == \A i \in 1 .. Len(s) : s[i] =< n
           All(o, b, n) == \A c \in Connection : Bound(o[c], n) /\ Bound(b[c], n)
<1>0. /\ out \in [Connection -> Seq(1 .. MaxPuts)] /\ back \in [Connection -> Seq(1 .. MaxPuts)]
      /\ sconn # 0 => sconn \in Connection
      /\ rattached => rconn \in Connection
    BY DEF WireTypeOK, Connection, Order
<1>a. /\ HandedOver \in Nat /\ HandedOver' \in Nat /\ HandedOver =< HandedOver'
      /\ MaxPuts \in Nat
    BY HandedGrows, MaxPutsAssumption
<1>b. All(out, back, HandedOver)
    BY DEF Handed
<1>c. ASSUME NEW s \in Seq(1 .. MaxPuts), Bound(s, HandedOver)
      PROVE  Bound(s, HandedOver')
    BY <1>a, <1>c, ElementOfSeq
<1>d. All(out, back, HandedOver')
    BY <1>0, <1>b, <1>c
<1>e. ASSUME NEW s \in Seq(1 .. MaxPuts), s # <<>>, Bound(s, HandedOver')
      PROVE  /\ Head(s) \in 1 .. MaxPuts /\ Head(s) =< HandedOver'
             /\ Bound(Tail(s), HandedOver')
    <2>1. /\ Head(s) = s[1] /\ Head(s) \in 1 .. MaxPuts
          /\ Len(s) \in Nat \ {0} /\ 1 \in 1 .. Len(s) /\ Len(Tail(s)) = Len(s) - 1
          /\ \A i \in 1 .. Len(s) - 1 : Tail(s)[i] = s[i + 1]
        BY <1>e, Taken
    <2> QED
        BY <1>e, <2>1
<1> SUFFICES All(out', back', HandedOver')
    BY DroppedKept DEF Handed
<1>1. ASSUME NEW c \in Connection, Break(c)
      PROVE  All(out', back', HandedOver')
    <2>1. PICK s \in Prefixes(out[c]), t \in Prefixes(back[c]) :
            out' = [out EXCEPT ![c] = s] /\ back' = [back EXCEPT ![c] = t]
        BY <1>1 DEF Break
    <2>2. ASSUME NEW u \in Seq(1 .. MaxPuts), NEW v \in Prefixes(u), Bound(u, HandedOver')
          PROVE  Bound(v, HandedOver')
        <3>1. /\ Len(v) \in Nat /\ Len(u) \in Nat /\ Len(v) =< Len(u)
              /\ \A i \in 1 .. Len(v) : v[i] = u[i]
            BY Cut
        <3> QED
            BY <2>2, <3>1
    <2> HIDE DEF Bound
    <2> QED
        BY <1>0, <1>d, <2>1, <2>2
<1>3. ASSUME NEW ok \in BOOLEAN, SendPackage(ok) \/ ResendPackage(ok)
      PROVE  All(out', back', HandedOver')
    <2>1. /\ sconn \in Connection /\ back' = back
          /\ (out' = out \/ \E x \in 1 .. MaxPuts : x =< HandedOver' /\ out' = [out EXCEPT ![sconn] = Append(@, x)])
        BY <1>3, Sends
    <2>2. ASSUME NEW x \in 1 .. MaxPuts, x =< HandedOver'
          PROVE  Bound(Append(out[sconn], x), HandedOver')
        BY <1>0, <1>d, <2>1, <2>2, Appended
    <2> HIDE DEF Bound
    <2> QED
        BY <1>0, <1>d, <2>1, <2>2
<1>5. CASE ReadAck
    <2>1. sconn \in Connection /\ back[sconn] # <<>> /\ out' = out
          /\ back' = [back EXCEPT ![sconn] = Tail(@)]
        BY <1>0, <1>5 DEF ReadAck, Places
    <2>2. Bound(Tail(back[sconn]), HandedOver')
        BY <1>0, <1>d, <1>e, <2>1
    <2> HIDE DEF Bound
    <2> QED
        BY <1>0, <1>d, <2>1, <2>2
<1>7. CASE read_package
    <2>1. rconn \in Connection /\ out[rconn] # <<>> /\ out' = [out EXCEPT ![rconn] = Tail(@)]
          /\ (back' = back \/ back' = [back EXCEPT ![rconn] = Append(@, Head(out[rconn]))])
        BY <1>0, <1>7 DEF read_package, send_ack
    <2>2. /\ Head(out[rconn]) \in 1 .. MaxPuts /\ Head(out[rconn]) =< HandedOver'
          /\ Bound(Tail(out[rconn]), HandedOver')
        BY <1>0, <1>d, <1>e, <2>1
    <2>3. Bound(Append(back[rconn], Head(out[rconn])), HandedOver')
        BY <1>0, <1>d, <2>1, <2>2, Appended
    <2> HIDE DEF Bound
    <2> QED
        BY <1>0, <1>d, <2>1, <2>2, <2>3
<1>8. CASE Construct \/ Send \/ BufferWorks \/ Resume \/ Disconnect \/ set_socket_provider \/ Accept
           \/ Lose \/ UNCHANGED wireVars
    <2>1. UNCHANGED <<out, back>>
        BY <1>8 DEF Construct, Send, BufferWorks, Resume, Disconnect, streams, set_socket_provider, Accept,
                    Lose, wireVars
    <2> QED
        BY <1>d, <2>1
<1> QED
    BY <1>1, <1>3, <1>5, <1>7, <1>8 DEF WireNext

-----------------------------------------------------------------------------
(* What holds until a new package overtakes the pending ones.              *)

contents == <<out, back, sconn, rconn, acknowledged_seqn, max_received_seqn, read, dispatched, aligned>>

\* A step that moves nothing.
LEMMA ContentsStay ==
    ASSUME Smooth, UNCHANGED contents
    PROVE  Runs' /\ Heads' /\ AcksOrdered' /\ Received' /\ Dispatched'
<1>1. Runs' /\ Heads'
    BY DEF Smooth, contents, Runs, Heads
<1>2. AcksOrdered'
    BY DEF Smooth, contents, AcksOrdered
<1>3. Received'
    BY DEF Smooth, contents, Received
<1>4. Dispatched'
    <2>1. Dispatched
        BY DEF Smooth
    <2>2. aligned' = aligned /\ dispatched' = dispatched /\ max_received_seqn' = max_received_seqn
        BY DEF contents
    <2> QED
        BY <2>1, <2>2 DEF Dispatched
<1> QED
    BY <1>1, <1>2, <1>3, <1>4

\* Nothing moves, and the sender is where it was in the order of its packages.
LEMMA StandsStill ==
    ASSUME Smooth, UNCHANGED contents, UNCHANGED <<attached, broken, wire, NextToSend>>
    PROVE  Smooth'
<1>1. Fresh'
    BY DEF Smooth, contents, Fresh
<1>2. InStep'
    BY DEF Smooth, contents, InStep, First
<1> QED
    BY <1>1, <1>2, ContentsStay DEF Smooth

\* The buffer is resumed when the new connection is still empty, and begins with the
\* first package that has not been acknowledged.
LEMMA ReprocessSmooth ==
    ASSUME Safe, Smooth, reprocess, UNCHANGED <<streams, sconn, attached, receiver>>
    PROVE  Smooth'
<1>1. UNCHANGED contents
    BY DEF reprocess, contents, streams, receiver
<1>2. wire = "resuming" /\ wire' = "resending" /\ resent' = 0 /\ acknowledged_seqn' = acknowledged_seqn
    BY DEF reprocess, At
<1>3. current_seqn \in Nat /\ acknowledged_seqn \in Nat /\ current_seqn =< acknowledged_seqn + 1
    BY DEF Safe, Handed, IInv, TypeOK
<1>4. current_seqn' = acknowledged_seqn + 1
    BY <1>3 DEF reprocess, DropAcknowledged
<1>5. attached /\ out[sconn] = <<>> /\ back[sconn] = <<>>
    BY <1>2 DEF Safe, Places, Smooth, Fresh
<1>6. Len(<<>>) = 0
    BY EmptySeq
<1>7. First' = acknowledged_seqn + 1
    BY <1>1, <1>2, <1>3, <1>4, <1>5, <1>6 DEF First, NextToSend, contents
<1>8. acknowledged_seqn =< max_received_seqn /\ max_received_seqn \in Nat
    BY DEF Smooth, Received, Safe, WireTypeOK
<1>9. InStep'
    BY <1>1, <1>3, <1>5, <1>6, <1>7, <1>8 DEF InStep, contents
<1>10. Fresh'
    BY <1>2 DEF Fresh
<1> QED
    BY <1>1, <1>9, <1>10, ContentsStay DEF Smooth

LEMMA BufferSmooth ==
    ASSUME Safe, Smooth, BufferWorks
    PROVE  Smooth'
<1>0. /\ UNCHANGED <<streams, sconn, attached, receiver, rushed>>
      /\ Places /\ IInv
    BY DEF BufferWorks, Safe
<1>1. CASE Loop \/ Wake
    <2>1. UNCHANGED <<seqns, wire, resent, HandedOver>>
        BY <1>1 DEF Loop, Wake, TakeOrWait, Quit, HandedOver, seqns
    <2> QED
        BY <1>0, <2>1, StandsStill DEF contents, streams, receiver, seqns, NextToSend
<1>2. CASE process \/ Processed
    <2>1. UNCHANGED <<seqns, wire, resent, HandedOver>>
        BY <1>2 DEF process, Processed, Go, HandedOver, seqns
    <2> QED
        BY <1>0, <2>1, StandsStill DEF contents, streams, receiver, seqns, NextToSend
<1>3. CASE Sent
    <2>1. UNCHANGED <<current_seqn, acknowledged_seqn, wire, resent, HandedOver>>
        BY <1>0, <1>3 DEF Sent, HandedOver, IInv, TypeOK
    <2> QED
        BY <1>0, <2>1, StandsStill DEF contents, streams, receiver, NextToSend
<1>4. CASE Paused
    <2>1. ~attached /\ UNCHANGED contents /\ attached' = attached
        BY <1>0, <1>4 DEF Paused, At, Places, contents, streams, receiver, seqns
    <2> QED
        BY <2>1, ContentsStay DEF Smooth, Fresh, InStep
<1>5. CASE reprocess
    BY <1>0, <1>5, ReprocessSmooth
<1>6. CASE Reprocessed \/ Resumed
    <2>1. /\ UNCHANGED <<seqns, HandedOver>>
          /\ wire \in {"resending", "resent"} /\ wire' \in {"resent", "up"}
        BY <1>6 DEF Reprocessed, Resumed, At, seqns, HandedOver
    <2>2. NextToSend' = NextToSend
        <3>1. CASE Resumed
            BY <2>1, <3>1 DEF Resumed, At, NextToSend
        <3>2. CASE Reprocessed
            <4>1. resent = Len(pending_queue) /\ wire = "resending" /\ wire' = "resent"
                BY <3>2 DEF Reprocessed, At
            <4>2. max_sent_seqn + 1 = current_seqn + Len(pending_queue)
                BY <1>0 DEF IInv, SeqnIsPosition
            <4>3. async # "sent"
                BY <1>0, <4>1 DEF Places, InProcessing
            <4> QED
                BY <1>0, <2>1, <4>1, <4>2, <4>3 DEF NextToSend, HandedOver, IInv, TypeOK
        <3> QED
            BY <1>6, <3>1, <3>2
    <2>3. UNCHANGED contents /\ UNCHANGED <<attached, broken>>
        BY <1>0, <2>1 DEF contents, streams, receiver, seqns
    <2>4. Fresh'
        BY <2>1 DEF Fresh
    <2>5. InStep'
        BY <2>1, <2>2, <2>3 DEF Smooth, InStep, First, contents
    <2> QED
        BY <2>3, <2>4, <2>5, ContentsStay DEF Smooth
<1> QED
    BY <1>1, <1>2, <1>3, <1>4, <1>5, <1>6 DEF BufferWorks

LEMMA QuietSmooth ==
    ASSUME Safe, Smooth,
           Construct \/ Send \/ Resume \/ Disconnect \/ Lose \/ UNCHANGED wireVars
    PROVE  Smooth'
<1>1. CASE Send
    <2>1. UNCHANGED <<contents, attached, broken, wire>> /\ NextToSend' = NextToSend
        BY <1>1 DEF Send, put, contents, streams, receiver, seqns, NextToSend, HandedOver
    <2> QED
        BY <2>1, StandsStill
<1>2. CASE Lose \/ UNCHANGED wireVars
    <2>1. UNCHANGED <<contents, attached, broken, wire>> /\ NextToSend' = NextToSend
        BY <1>2 DEF Lose, wireVars, vars, contents, streams, receiver, seqns, control, NextToSend, HandedOver
    <2> QED
        BY <2>1, StandsStill
<1>3. CASE Construct
    <2>1. UNCHANGED <<contents, attached>> /\ state = "Initialized"
        BY <1>3 DEF Construct, pause, start, At, contents, streams, receiver, seqns
    <2>2. ~attached
        BY <2>1 DEF Safe, Places
    <2> QED
        BY <2>1, <2>2, ContentsStay DEF Smooth, Fresh, InStep
<1>4. CASE Resume
    <2>1. UNCHANGED <<contents, attached>> /\ wire = "down" /\ wire' = "resuming"
        BY <1>4 DEF Resume, resume, At, contents, streams, receiver, seqns
    <2>2. Fresh'
        BY <2>1 DEF Smooth, Fresh, contents
    <2>3. InStep'
        BY <2>1 DEF InStep
    <2> QED
        BY <2>1, <2>2, <2>3, ContentsStay DEF Smooth
<1>5. CASE Disconnect
    <2>1. UNCHANGED contents /\ attached' = FALSE
        BY <1>5 DEF Disconnect, pause, At, contents, streams, receiver, seqns
    <2>2. Fresh' /\ InStep'
        BY <2>1 DEF Fresh, InStep
    <2> QED
        BY <2>1, <2>2, ContentsStay DEF Smooth
<1> QED
    BY <1>1, <1>2, <1>3, <1>4, <1>5

\* The next package in order is appended to the connection in use.
LEMMA AppendSmooth ==
    ASSUME Safe, Smooth, NEW x \in 1 .. MaxPuts,
           sconn \in Connection, sconn \notin broken, attached,
           wire \in {"resending", "resent", "up"}, wire' = wire,
           x = NextToSend, NextToSend' = x + 1,
           out' = [out EXCEPT ![sconn] = Append(@, x)],
           UNCHANGED <<back, broken, sconn, attached, receiver, acknowledged_seqn>>
    PROVE  Smooth'
<1> DEFINE s == out[sconn]
           t == Append(s, x)
           n == Len(s)
           f == x - n
<1>1. /\ out \in [Connection -> Seq(1 .. MaxPuts)] /\ MaxPuts \in Nat
      /\ back \in [Connection -> Seq(1 .. MaxPuts)]
      /\ acknowledged_seqn \in Nat /\ max_received_seqn \in Nat /\ sconn \in Nat /\ rconn \in Nat
    BY MaxPutsAssumption DEF Safe, WireTypeOK, IInv, TypeOK
<1>2. /\ n \in Nat /\ Len(t) = n + 1 /\ t # <<>>
      /\ \A i \in 1 .. n : t[i] = s[i]
      /\ t[n + 1] = x
    BY <1>1, Appended
<1>3. /\ out'[sconn] = t
      /\ \A c \in Connection \ {sconn} : out'[c] = out[c]
    BY <1>1
<1>4. /\ s # <<>> => s[1] = f
      /\ acknowledged_seqn < f
      /\ rconn < sconn => f =< acknowledged_seqn + 1
      /\ rconn = sconn => f =< max_received_seqn + 1
      /\ \A i \in 1 .. Len(back[sconn]) : back[sconn][i] < f
    BY DEF Smooth, InStep, First
<1>5. s = <<>> => n = 0
    BY EmptySeq
<1>6. s # <<>> => n # 0
    BY <1>1, EmptySeq
<1>7. rconn =< sconn
    BY <1>1 DEF Safe, Order
<1>8. UNCHANGED <<rconn, max_received_seqn, aligned, dispatched, read>>
    BY DEF receiver
<1>9. \A i \in 1 .. n : s[i] = s[1] + i - 1
    BY DEF Smooth, Runs
<1>e. (s = <<>> /\ n = 0) \/ (s # <<>> /\ n > 0)
    BY <1>2, <1>5, <1>6
<1> HIDE DEF s, t, n
<1>10. t[1] = f
    <2>1. CASE n = 0
        BY <1>2, <2>1
    <2>2. CASE n # 0
        BY <1>2, <1>4, <1>e, <2>2
    <2> QED
        BY <2>1, <2>2
<1>11. \A i \in 1 .. Len(t) : t[i] = t[1] + i - 1
    <2>1. SUFFICES ASSUME NEW i \in 1 .. n + 1 PROVE t[i] = f + i - 1
        BY <1>2, <1>10
    <2>2. CASE i = n + 1
        BY <1>2, <2>2
    <2>3. CASE i # n + 1
        <3>1. i \in 1 .. n /\ n # 0
            BY <1>2, <2>3
        <3> QED
            BY <1>2, <1>4, <1>e, <1>9, <3>1
    <2> QED
        BY <2>2, <2>3
<1>12. Runs'
    <2>1. \A c \in Connection \ {sconn} : \A i \in 1 .. Len(out[c]) : out[c][i] = out[c][1] + i - 1
        BY DEF Smooth, Runs
    <2>2. \A c \in Connection \ {sconn} : \A i \in 1 .. Len(out'[c]) : out'[c][i] = out'[c][1] + i - 1
        BY <1>3, <2>1
    <2> QED
        BY <1>3, <1>11, <2>2 DEF Runs
<1>13. Heads'
    <2>1. \A c \in Connection \ {sconn} : out[c] # <<>> =>
            /\ c = rconn => out[c][1] =< max_received_seqn + 1
            /\ c > rconn => out[c][1] =< acknowledged_seqn + 1
            /\ out[c][1] = 1 => acknowledged_seqn = 0
        BY DEF Smooth, Heads
    <2>2. /\ sconn = rconn => t[1] =< max_received_seqn + 1
          /\ sconn > rconn => t[1] =< acknowledged_seqn + 1
          /\ t[1] = 1 => acknowledged_seqn = 0
        BY <1>1, <1>4, <1>10
    <2> QED
        BY <1>3, <1>8, <2>1, <2>2 DEF Heads
<1>14. AcksOrdered'
    <2>1. sconn # 0
        BY DEF Connection
    <2>2. \A i \in 1 .. Len(back[sconn]) :
            /\ acknowledged_seqn < back[sconn][i] /\ back[sconn][i] =< max_received_seqn
            /\ \A j \in 1 .. i - 1 : back[sconn][j] < back[sconn][i]
        BY <2>1 DEF Smooth, AcksOrdered
    <2> QED
        BY <1>3, <1>4, <1>8, <1>10, <2>2 DEF AcksOrdered
<1>15. Received' /\ Dispatched'
    BY <1>8 DEF Smooth, Received, Dispatched
<1>16. Fresh'
    BY DEF Fresh
<1>17. InStep'
    <2>1. First' = f
        <3>1. Len(out'[sconn]) = n + 1 /\ sconn' = sconn
            BY <1>2, <1>3
        <3>2. First' = NextToSend' - Len(out'[sconn'])
            BY DEF First
        <3>3. First' = (x + 1) - (n + 1)
            BY <3>1, <3>2
        <3> QED
            BY <1>1, <1>2, <3>3
    <2> QED
        BY <1>3, <1>4, <1>8, <1>10, <2>1 DEF InStep
<1> QED
    BY <1>12, <1>13, <1>14, <1>15, <1>16, <1>17 DEF Smooth

\* On a broken connection nothing is appended, and nothing is promised.
LEMMA SendNowhere ==
    ASSUME Safe, Smooth, sconn \in broken, UNCHANGED contents, UNCHANGED <<broken, attached>>,
           wire' \in {"down", "resuming"} => wire' = wire
    PROVE  Smooth'
<1>1. Fresh'
    BY DEF Smooth, Fresh, contents
<1>2. InStep'
    BY DEF InStep, contents
<1> QED
    BY <1>1, <1>2, ContentsStay DEF Smooth

LEMMA SendSmooth ==
    ASSUME Safe, Smooth, ~rushed', NEW ok \in BOOLEAN, SendPackage(ok) \/ ResendPackage(ok)
    PROVE  Smooth'
<1>1. /\ sconn \in Connection
      /\ UNCHANGED <<back, broken, sconn, attached, receiver>>
    BY Sends DEF Safe
<1>2. IInv /\ Places /\ Order
    BY DEF Safe
<1>3. CASE SendPackage(ok)
    <2>1. /\ async = "sending" /\ queue # <<>> /\ (ok => async' = "sent")
          /\ UNCHANGED <<seqns, wire, resent>>
        BY <1>3 DEF SendPackage, SendNew, Go
    <2>2. ok => ~Overtakes
        BY <1>3 DEF SendPackage
    <2>3. CASE sconn \in broken
        <3>1. UNCHANGED contents
            BY <1>1, <1>3, <2>1, <2>3 DEF SendPackage, send0, contents, receiver, seqns
        <3> QED
            BY <1>1, <2>1, <2>3, <3>1, SendNowhere
    <2>4. CASE sconn \notin broken
        <3>1. ok /\ out' = [out EXCEPT ![sconn] = Append(@, max_sent_seqn + 1)]
            BY <1>3, <2>4 DEF SendPackage, send0
        <3>2. attached
            BY <1>1, <1>2, <2>4 DEF Places, Connection
        <3>3. wire \in {"resent", "up"}
            BY <1>2, <2>1, <2>2, <3>1, <3>2 DEF Places, Overtakes, InProcessing, IInv, TypeOK
        <3>4. max_sent_seqn + 1 = NextToSend /\ NextToSend' = max_sent_seqn + 1 + 1
            BY <1>2, <2>1, <3>1, <3>3 DEF NextToSend, HandedOver, seqns, IInv, TypeOK
        <3>5. max_sent_seqn + 1 \in 1 .. MaxPuts
            BY <1>2, <2>1, SendRange
        <3> QED
            BY <1>1, <2>1, <2>4, <3>1, <3>2, <3>3, <3>4, <3>5, AppendSmooth DEF seqns
    <2> QED
        BY <2>3, <2>4
<1>4. CASE ResendPackage(ok)
    <2>1. /\ wire = "resending" /\ resent < Len(pending_queue)
          /\ UNCHANGED seqns
          /\ wire' \in {"resending", "resent"}
          /\ ok => wire' = "resending" /\ resent' = resent + 1
        BY <1>4 DEF ResendPackage, Resend, At
    <2>3. CASE sconn \in broken
        <3>1. UNCHANGED contents
            BY <1>1, <1>4, <2>1, <2>3 DEF ResendPackage, send0, contents, receiver, seqns
        <3> QED
            BY <1>1, <2>1, <2>3, <3>1, SendNowhere
    <2>4. CASE sconn \notin broken
        <3>1. ok /\ out' = [out EXCEPT ![sconn] = Append(@, ResendSeqn)]
            BY <1>4, <2>4 DEF ResendPackage, send0
        <3>2. attached
            BY <1>2, <2>1 DEF Places
        <3>4. ResendSeqn = NextToSend /\ NextToSend' = ResendSeqn + 1
            BY <1>2, <2>1, <3>1 DEF NextToSend, ResendSeqn, seqns, IInv, TypeOK
        <3>5. ResendSeqn \in 1 .. MaxPuts
            BY <1>2, <2>1, SendRange
        <3> QED
            BY <1>1, <2>1, <2>4, <3>1, <3>2, <3>4, <3>5, AppendSmooth DEF seqns
    <2> QED
        BY <2>3, <2>4
<1> QED
    BY <1>3, <1>4

\* A connection that breaks keeps the beginning of its streams.
LEMMA BreakSmooth ==
    ASSUME Safe, Smooth, NEW c \in Connection, Break(c)
    PROVE  Smooth'
<1>1. PICK s \in Prefixes(out[c]), t \in Prefixes(back[c]) :
            out' = [out EXCEPT ![c] = s] /\ back' = [back EXCEPT ![c] = t]
    BY DEF Break
<1>2. /\ out \in [Connection -> Seq(1 .. MaxPuts)] /\ back \in [Connection -> Seq(1 .. MaxPuts)]
      /\ sconn # 0 => sconn \in Connection
    BY DEF Safe, WireTypeOK, Connection
<1>3. /\ broken' = broken \cup {c}
      /\ UNCHANGED <<vars, senderConnects, sconn, attached, receiver, rushed>>
    BY DEF Break
<1>4. /\ Len(s) \in Nat /\ Len(out[c]) \in Nat /\ Len(s) =< Len(out[c])
      /\ \A i \in 1 .. Len(s) : s[i] = out[c][i]
      /\ s # <<>> => out[c] # <<>> /\ 1 \in 1 .. Len(s)
    BY <1>2, Cut
<1>5. /\ Len(t) \in Nat /\ Len(back[c]) \in Nat /\ Len(t) =< Len(back[c])
      /\ \A i \in 1 .. Len(t) : t[i] = back[c][i]
      /\ t # <<>> => back[c] # <<>> /\ 1 \in 1 .. Len(t)
    BY <1>2, Cut
<1>6. /\ s # <<>> => out[c] # <<>> /\ s[1] = out[c][1]
      /\ \A i \in 1 .. Len(s) : s[i] = out[c][i] /\ i \in 1 .. Len(out[c]) /\ s[1] = out[c][1]
      /\ \A i \in 1 .. Len(t) : t[i] = back[c][i] /\ i \in 1 .. Len(back[c])
                                /\ \A j \in 1 .. i - 1 : t[j] = back[c][j]
    BY <1>4, <1>5
<1>7. \A d \in Connection : out'[d] = (IF d = c THEN s ELSE out[d]) /\ back'[d] = (IF d = c THEN t ELSE back[d])
    BY <1>1, <1>2
<1>8. UNCHANGED <<rconn, acknowledged_seqn, max_received_seqn, read, dispatched, aligned, wire>>
    BY <1>3 DEF vars, seqns, control, receiver
<1>9. Runs'
    BY <1>6, <1>7 DEF Smooth, Runs
<1>10. Heads'
    BY <1>6, <1>7, <1>8 DEF Smooth, Heads
<1>11. AcksOrdered'
    <2>1. SUFFICES ASSUME sconn # 0
                   PROVE  /\ \A i \in 1 .. Len(back'[sconn]) :
                            /\ acknowledged_seqn < back'[sconn][i] /\ back'[sconn][i] =< max_received_seqn
                            /\ \A j \in 1 .. i - 1 : back'[sconn][j] < back'[sconn][i]
                            /\ out'[sconn] # <<>> => back'[sconn][i] < out'[sconn][1]
                          /\ out'[sconn] # <<>> => acknowledged_seqn < out'[sconn][1]
        BY <1>3, <1>8 DEF AcksOrdered
    <2>2. sconn \in Connection
        BY <1>2, <2>1
    <2>3. /\ \A i \in 1 .. Len(back[sconn]) :
            /\ acknowledged_seqn < back[sconn][i] /\ back[sconn][i] =< max_received_seqn
            /\ \A j \in 1 .. i - 1 : back[sconn][j] < back[sconn][i]
            /\ out[sconn] # <<>> => back[sconn][i] < out[sconn][1]
          /\ out[sconn] # <<>> => acknowledged_seqn < out[sconn][1]
        BY <2>1 DEF Smooth, AcksOrdered
    <2>4. CASE sconn = c
        BY <1>6, <1>7, <2>2, <2>3, <2>4
    <2>5. CASE sconn # c
        BY <1>7, <2>2, <2>3, <2>5
    <2> QED
        BY <2>4, <2>5
<1>12. Received' /\ Dispatched'
    BY <1>8 DEF Smooth, Received, Dispatched
<1>13. Fresh'
    <2>1. attached => sconn \in Connection
        BY <1>2 DEF Safe, Places
    <2>2. (out[c] = <<>> => s = <<>>) /\ (back[c] = <<>> => t = <<>>)
        BY <1>4, <1>5
    <2> QED
        BY <1>3, <1>7, <1>8, <2>1, <2>2 DEF Smooth, Fresh
<1>14. InStep'
    <2>1. sconn # c /\ attached => out'[sconn] = out[sconn] /\ back'[sconn] = back[sconn]
        BY <1>2, <1>7 DEF Safe, Places
    <2>2. NextToSend' = NextToSend
        BY <1>3 DEF vars, seqns, control, NextToSend, HandedOver
    <2> QED
        BY <1>3, <1>8, <2>1, <2>2 DEF Smooth, InStep, First
<1> QED
    BY <1>9, <1>10, <1>11, <1>12, <1>13, <1>14 DEF Smooth

\* A new connection is empty.
LEMMA ConnectSmooth ==
    ASSUME Safe, Smooth, set_socket_provider, sconn' \in Connection
    PROVE  Smooth'
<1>1. /\ UNCHANGED <<vars, out, back, broken, receiver>>
      /\ sconn' = sconn + 1 /\ wire = "down"
    BY DEF set_socket_provider, streams
<1>2. UNCHANGED <<rconn, acknowledged_seqn, max_received_seqn, read, dispatched, aligned, wire>>
    BY <1>1 DEF vars, seqns, control, receiver
<1>3. out[sconn'] = <<>> /\ back[sconn'] = <<>>
    BY <1>1 DEF Safe, WireTypeOK, Order
<1>4. Runs' /\ Heads' /\ Received' /\ Dispatched'
    BY <1>1, <1>2 DEF Smooth, Runs, Heads, Received, Dispatched
<1>5. AcksOrdered'
    <2>1. 1 .. Len(<<>>) = {}
        BY EmptySeq
    <2> QED
        BY <1>1, <1>2, <1>3, <2>1 DEF AcksOrdered
<1>6. Fresh'
    BY <1>1, <1>3 DEF Fresh
<1>7. InStep'
    BY <1>1, <1>2 DEF InStep
<1> QED
    BY <1>4, <1>5, <1>6, <1>7 DEF Smooth

\* The receiver turns to a connection whose first package is no later than the next
\* that it expects.
LEMMA AcceptSmooth ==
    ASSUME Safe, Smooth, Accept
    PROVE  Smooth'
<1>1. /\ UNCHANGED <<vars, streams, sconn, attached, max_received_seqn, aligned, dispatched, read>>
      /\ rconn' = rconn + 1
    BY DEF Accept
<1>2. UNCHANGED <<out, back, broken, acknowledged_seqn, wire, NextToSend>>
    BY <1>1 DEF vars, seqns, control, streams, NextToSend, HandedOver
<1>3. /\ rconn \in Nat /\ sconn \in Nat /\ acknowledged_seqn \in Nat /\ max_received_seqn \in Nat
      /\ acknowledged_seqn =< max_received_seqn
    BY DEF Safe, WireTypeOK, IInv, TypeOK, Smooth, Received
<1>4. /\ out \in [Connection -> Seq(1 .. MaxPuts)]
      /\ \A c \in Connection : c \in Nat /\ (out[c] # <<>> => out[c][1] \in Nat)
    <2>1. out \in [Connection -> Seq(1 .. MaxPuts)]
        BY DEF Safe, WireTypeOK
    <2>2. ASSUME NEW c \in Connection, out[c] # <<>>
          PROVE  out[c][1] \in 1 .. MaxPuts
        <3>1. out[c] \in Seq(1 .. MaxPuts)
            BY <2>1
        <3> QED
            BY <2>2, <3>1, Taken
    <2> QED
        BY <2>1, <2>2 DEF Connection
<1>5. Heads'
    BY <1>1, <1>2, <1>3, <1>4 DEF Smooth, Heads
<1>6. Runs' /\ AcksOrdered' /\ Received' /\ Dispatched' /\ Fresh'
    BY <1>1, <1>2 DEF Smooth, Runs, AcksOrdered, Received, Dispatched, Fresh
<1>7. InStep'
    <2> DEFINE f == First
               inUse == attached /\ sconn \notin broken /\ wire \in {"resending", "resent", "up"}
    <2>1. First' = f
        BY <1>1, <1>2 DEF First
    <2>2. inUse' <=> inUse
        BY <1>1, <1>2
    <2>3. inUse => /\ sconn \in Connection
                   /\ out[sconn] # <<>> => out[sconn][1] = f
                   /\ acknowledged_seqn < f
                   /\ rconn < sconn => f =< acknowledged_seqn + 1
                   /\ rconn = sconn => f =< max_received_seqn + 1
                   /\ \A i \in 1 .. Len(back[sconn]) : back[sconn][i] < f
        BY DEF Smooth, InStep, Safe, Places, WireTypeOK, Connection
    <2>4. f \in Int
        BY <1>4, <2>3 DEF First, NextToSend, HandedOver, Safe, IInv, TypeOK
    <2> QED
        BY <1>1, <1>2, <1>3, <2>1, <2>3, <2>4 DEF InStep
<1> QED
    BY <1>5, <1>6, <1>7 DEF Smooth

\* The next acknowledgement is greater than the last, and no greater than what the
\* receiver has read.
LEMMA AckSmooth ==
    ASSUME Safe, Smooth, ReadAck
    PROVE  /\ Head(back[sconn]) > acknowledged_seqn
           /\ Smooth'
<1> DEFINE s == back[sconn]
           a == Head(s)
           t == Tail(s)
<1>1. /\ sconn \in Connection /\ s # <<>> /\ sconn # 0
      /\ back \in [Connection -> Seq(1 .. MaxPuts)] /\ s \in Seq(1 .. MaxPuts)
      /\ out \in [Connection -> Seq(1 .. MaxPuts)]
      /\ MaxPuts \in Nat
    BY MaxPutsAssumption DEF ReadAck, Safe, WireTypeOK, Places, Connection
<1>2. /\ acknowledge(a) /\ back' = [back EXCEPT ![sconn] = t]
      /\ UNCHANGED <<senderConnects, out, broken, sconn, attached, receiver, rushed>>
    BY DEF ReadAck
<1>3. /\ acknowledged_seqn \in Nat /\ max_received_seqn \in Nat /\ rconn \in Nat
    BY DEF Safe, WireTypeOK, IInv, TypeOK
<1>4. /\ a = s[1] /\ a \in 1 .. MaxPuts /\ Len(s) \in Nat \ {0} /\ 1 \in 1 .. Len(s) /\ Len(t) = Len(s) - 1
      /\ \A i \in 1 .. Len(s) - 1 : t[i] = s[i + 1]
      /\ t \in Seq(1 .. MaxPuts)
    BY <1>1, Taken
<1>5. /\ \A i \in 1 .. Len(s) :
            /\ acknowledged_seqn < s[i] /\ s[i] =< max_received_seqn
            /\ \A j \in 1 .. i - 1 : s[j] < s[i]
            /\ out[sconn] # <<>> => s[i] < out[sconn][1]
      /\ out[sconn] # <<>> => acknowledged_seqn < out[sconn][1]
    BY <1>1 DEF Smooth, AcksOrdered
<1> HIDE DEF s, a, t
<1>6. /\ acknowledged_seqn < a /\ a =< max_received_seqn
      /\ out[sconn] # <<>> => a < out[sconn][1]
    BY <1>4, <1>5
<1>7. acknowledged_seqn' = a /\ wire' = wire /\ UNCHANGED NextToSend
    <2>1. acknowledged_seqn' = a
        BY <1>2, <1>3, <1>4, <1>6 DEF acknowledge
    <2> QED
        BY <1>2, <2>1 DEF acknowledge, At, NextToSend, HandedOver
<1>8. UNCHANGED <<out, broken, sconn, attached, rconn, max_received_seqn, aligned, dispatched, read>>
    BY <1>2 DEF receiver
<1>9. back'[sconn] = t
    BY <1>1, <1>2
<1>10. sconn =< rconn
    BY <1>1, <1>3 DEF Safe, Order, Connection, s
<1>11. Runs' /\ Dispatched'
    BY <1>8 DEF Smooth, Runs, Dispatched
<1>12. Heads'
    <2>1. \A c \in Connection : c \in Nat /\ (out[c] # <<>> => out[c][1] \in Nat)
        <3>1. \A c \in Connection : out[c] # <<>> => out[c][1] \in 1 .. MaxPuts
            BY <1>1, Taken
        <3> QED
            BY <3>1 DEF Connection
    <2>2. \A c \in Connection : out[c] # <<>> =>
            /\ c = rconn => out[c][1] =< max_received_seqn + 1
            /\ c > rconn => out[c][1] =< acknowledged_seqn + 1
            /\ out[c][1] = 1 => acknowledged_seqn = 0
            /\ c > sconn => FALSE
            /\ c < rconn => FALSE
        BY DEF Smooth, Heads, Safe, Order
    <2>3. ASSUME NEW c \in Connection, out[c] # <<>>
          PROVE  c = sconn /\ c = rconn
        BY <1>1, <1>3, <1>10, <2>1, <2>2, <2>3
    <2>4. out[sconn] # <<>> => out[sconn][1] # 1
        BY <1>1, <1>4, <1>6, <2>1
    <2> QED
        BY <1>7, <1>8, <2>2, <2>3, <2>4, <1>3, <2>1 DEF Heads
<1>13. AcksOrdered'
    <2>1. ASSUME NEW i \in 1 .. Len(t)
          PROVE  /\ a < t[i] /\ t[i] =< max_received_seqn
                 /\ \A j \in 1 .. i - 1 : t[j] < t[i]
                 /\ out[sconn] # <<>> => t[i] < out[sconn][1]
        <3>1. i \in Nat /\ i + 1 \in 1 .. Len(s) /\ t[i] = s[i + 1] /\ 1 \in 1 .. (i + 1) - 1
            BY <1>4
        <3>2. a < s[i + 1]
            BY <1>4, <1>5, <3>1
        <3>3. ASSUME NEW j \in 1 .. i - 1
              PROVE  t[j] < t[i]
            <4>1. t[j] = s[j + 1] /\ j + 1 \in 1 .. (i + 1) - 1
                BY <1>4, <3>1
            <4> QED
                BY <1>5, <3>1, <4>1
        <3> QED
            BY <1>5, <3>1, <3>2, <3>3
    <2> QED
        BY <1>6, <1>7, <1>8, <1>9, <2>1 DEF AcksOrdered
<1>14. Received'
    BY <1>6, <1>7, <1>8 DEF Smooth, Received
<1>15. wire = "up"
    BY <1>2 DEF acknowledge, At
<1>16. Fresh'
    BY <1>7, <1>15 DEF Fresh
<1>17. InStep'
    <2> DEFINE f == First
    <2>1. SUFFICES ASSUME attached, sconn \notin broken
                   PROVE  /\ out[sconn] # <<>> => out[sconn][1] = f
                          /\ a < f
                          /\ rconn < sconn => FALSE
                          /\ rconn = sconn => f =< max_received_seqn + 1
                          /\ \A i \in 1 .. Len(t) : t[i] < f
        <3>1. First' = f
            BY <1>7, <1>8 DEF First
        <3> QED
            BY <1>7, <1>8, <1>9, <3>1 DEF InStep
    <2>2. /\ out[sconn] # <<>> => out[sconn][1] = f
          /\ rconn = sconn => f =< max_received_seqn + 1
          /\ \A i \in 1 .. Len(s) : s[i] < f
        BY <1>15, <2>1 DEF Smooth, InStep, s
    <2>3. a < f
        BY <1>4, <2>2
    <2>4. ~(rconn < sconn)
        BY <1>1, <1>3, <1>10 DEF Connection
    <2>5. ASSUME NEW i \in 1 .. Len(t)
          PROVE  t[i] < f
        <3>1. i + 1 \in 1 .. Len(s) /\ t[i] = s[i + 1]
            BY <1>4
        <3> QED
            BY <2>2, <3>1
    <2> QED
        BY <2>2, <2>3, <2>4, <2>5
<1>18. a > acknowledged_seqn
    BY <1>3, <1>4, <1>6
<1> QED
    BY <1>11, <1>12, <1>13, <1>14, <1>16, <1>17, <1>18 DEF Smooth, s, a

\* The receiver reads the first package of its connection: it is a duplicate, or the
\* next that it expects, or the first of all while nothing has been acknowledged.
LEMMA ReadSmooth ==
    ASSUME Safe, Smooth, read_package
    PROVE  Smooth'
<1> DEFINE s == out[rconn]
           x == Head(s)
           t == Tail(s)
           m == max_received_seqn'
<1>1. /\ rconn \in Connection /\ s # <<>> /\ s \in Seq(1 .. MaxPuts)
      /\ back \in [Connection -> Seq(1 .. MaxPuts)]
      /\ out \in [Connection -> Seq(1 .. MaxPuts)]
      /\ dispatched \in Seq(1 .. MaxPuts)
      /\ MaxPuts \in Nat
    <2>1. /\ back \in [Connection -> Seq(1 .. MaxPuts)]
          /\ out \in [Connection -> Seq(1 .. MaxPuts)]
          /\ dispatched \in Seq(1 .. MaxPuts)
        BY DEF Safe, WireTypeOK
    <2>2. rconn \in Connection /\ s # <<>>
        BY DEF read_package, Safe, WireTypeOK, Order, Connection
    <2> QED
        BY <2>1, <2>2, MaxPutsAssumption
<1>2. /\ out' = [out EXCEPT ![rconn] = t]
      /\ back' = IF rconn \in broken THEN back ELSE [back EXCEPT ![rconn] = Append(@, x)]
      /\ read' = read \cup {x}
      /\ UNCHANGED <<vars, senderConnects, broken, sconn, attached, rconn, rattached, rushed>>
    BY DEF read_package, send_ack
<1>3. /\ acknowledged_seqn \in Nat /\ max_received_seqn \in Nat /\ sconn \in Nat /\ rconn \in Nat \ {0}
      /\ sconn # 0 => sconn \in Connection
    BY <1>1 DEF Safe, WireTypeOK, IInv, TypeOK, Connection
<1>4. /\ x = s[1] /\ x \in 1 .. MaxPuts /\ Len(s) \in Nat \ {0} /\ 1 \in 1 .. Len(s) /\ Len(t) = Len(s) - 1
      /\ \A i \in 1 .. Len(s) - 1 : t[i] = s[i + 1]
      /\ t \in Seq(1 .. MaxPuts)
    BY <1>1, Taken
<1>5. IF x =< max_received_seqn /\ x # 1
      THEN /\ aligned' = FALSE
           /\ UNCHANGED <<max_received_seqn, dispatched>>
      ELSE /\ m = x
           /\ dispatched' = IF aligned THEN Append(dispatched, x) ELSE dispatched
           /\ aligned' = aligned
    BY DEF read_package, Duplicate
<1>6. /\ acknowledged_seqn =< max_received_seqn
      /\ \A k \in 1 .. max_received_seqn : k \in read
    BY DEF Smooth, Received
<1>7. x =< max_received_seqn + 1 /\ (x = 1 => acknowledged_seqn = 0)
    BY <1>1, <1>4 DEF Smooth, Heads
<1>8. UNCHANGED <<acknowledged_seqn, wire, NextToSend>>
    BY <1>2 DEF vars, seqns, control, NextToSend, HandedOver
<1>9. sconn >= rconn
    BY <1>1, <1>3 DEF Safe, Order
<1>10. \A i \in 1 .. Len(s) : s[i] = x + i - 1
    BY <1>1, <1>4 DEF Smooth, Runs
<1>11. t # <<>> => Len(t) > 0
    BY <1>4, EmptySeq
<1> HIDE DEF s, x, t, m
<1>12. \A i \in 1 .. Len(t) : t[i] = x + i
    <2>1. SUFFICES ASSUME NEW i \in 1 .. Len(s) - 1 PROVE t[i] = x + i
        BY <1>4
    <2>2. i + 1 \in 1 .. Len(s) /\ t[i] = s[i + 1] /\ s[i + 1] = x + (i + 1) - 1
        BY <1>4, <1>10
    <2> QED
        BY <1>4, <2>2
<1>13. /\ t # <<>> => t[1] = x + 1
       /\ \A i \in 1 .. Len(t) : t[i] = t[1] + i - 1
    <2>1. t # <<>> => t[1] = x + 1
        BY <1>4, <1>11, <1>12
    <2>2. ASSUME NEW i \in 1 .. Len(t) PROVE t[i] = t[1] + i - 1
        <3>1. 1 \in 1 .. Len(t)
            BY <1>4
        <3>2. t[1] = x + 1 /\ t[i] = x + i
            BY <1>12, <3>1
        <3> QED
            BY <1>4, <3>2
    <2> QED
        BY <2>1, <2>2
<1>14. /\ m \in Nat /\ x =< m /\ acknowledged_seqn =< m
       /\ \A k \in 1 .. m : k = x \/ k \in 1 .. max_received_seqn
       /\ x # 1 => max_received_seqn =< m
    <2>1. CASE x =< max_received_seqn /\ x # 1
        BY <1>3, <1>4, <1>5, <1>6, <2>1 DEF m
    <2>2. CASE x > max_received_seqn \/ x = 1
        BY <1>3, <1>4, <1>5, <1>6, <1>7, <2>2
    <2> QED
        BY <1>3, <1>4, <2>1, <2>2
<1>15. \A c \in Connection : /\ out'[c] = (IF c = rconn THEN t ELSE out[c])
                             /\ back'[c] = (IF c = rconn /\ rconn \notin broken
                                            THEN Append(back[c], x) ELSE back[c])
    BY <1>1, <1>2
<1>16. Runs'
    BY <1>13, <1>15 DEF Smooth, Runs
<1>17. Heads'
    <2>1. t # <<>> => t[1] =< m + 1 /\ t[1] # 1
        BY <1>4, <1>13, <1>14
    <2>2. \A c \in Connection \ {rconn} : out[c] # <<>> =>
            /\ c > rconn => out[c][1] =< acknowledged_seqn + 1
            /\ out[c][1] = 1 => acknowledged_seqn = 0
        BY DEF Smooth, Heads
    <2>3. ~(rconn > rconn)
        BY <1>3
    <2> QED
        BY <1>2, <1>8, <1>15, <2>1, <2>2, <2>3 DEF Heads, m
<1>18. Received'
    BY <1>2, <1>6, <1>8, <1>14 DEF Received, m
<1>19. AcksOrdered'
    <2>1. CASE sconn # rconn
        <3>1. sconn \in Connection /\ back[sconn] = <<>> /\ sconn # 0
            BY <1>3, <1>9, <2>1 DEF Safe, Order
        <3>2. out'[sconn] = out[sconn] /\ back'[sconn] = <<>>
            BY <1>15, <2>1, <3>1
        <3>3. out[sconn] # <<>> => acknowledged_seqn < out[sconn][1]
            BY <3>1 DEF Smooth, AcksOrdered
        <3>4. 1 .. Len(<<>>) = {}
            BY EmptySeq
        <3> QED
            BY <1>2, <1>8, <3>2, <3>3, <3>4 DEF AcksOrdered
    <2>2. CASE sconn = rconn
        <3> DEFINE b == back[rconn]
                   d == back'[rconn]
        <3>1. /\ \A i \in 1 .. Len(b) :
                    /\ acknowledged_seqn < b[i] /\ b[i] =< max_received_seqn
                    /\ \A j \in 1 .. i - 1 : b[j] < b[i]
                    /\ b[i] < x
              /\ acknowledged_seqn < x
            BY <1>1, <1>3, <1>4, <2>2 DEF Smooth, AcksOrdered, s
        <3>2. /\ b \in Seq(1 .. MaxPuts) /\ Len(b) \in Nat
              /\ \A i \in 1 .. Len(b) : b[i] \in 1 .. MaxPuts
            BY <1>1, ElementOfSeq
        <3>3. \/ d = b
              \/ /\ Len(d) = Len(b) + 1
                 /\ \A i \in 1 .. Len(b) : d[i] = b[i]
                 /\ d[Len(b) + 1] = x
            <4>1. d = b \/ d = Append(b, x)
                BY <1>1, <1>15
            <4>2. /\ Len(Append(b, x)) = Len(b) + 1
                  /\ \A i \in 1 .. Len(b) : Append(b, x)[i] = b[i]
                  /\ Append(b, x)[Len(b) + 1] = x
                BY <1>4, <3>2, Appended
            <4> HIDE DEF b, d
            <4> QED
                BY <4>1, <4>2
        <3>4. ASSUME NEW i \in 1 .. Len(b)
              PROVE  b[i] =< m
            <4>1. b[i] \in Nat /\ b[i] < x /\ x =< m /\ m \in Nat /\ x \in Nat
                BY <1>4, <1>14, <3>1, <3>2
            <4> HIDE DEF b
            <4> QED
                BY <4>1
        <3> HIDE DEF b, d
        <3>5. \A i \in 1 .. Len(d) :
                /\ acknowledged_seqn < d[i] /\ d[i] =< m
                /\ \A j \in 1 .. i - 1 : d[j] < d[i]
                /\ d[i] < x + 1
            <4>1. CASE d = b
                BY <1>4, <3>1, <3>2, <3>4, <4>1
            <4>2. CASE /\ Len(d) = Len(b) + 1
                       /\ \A i \in 1 .. Len(b) : d[i] = b[i]
                       /\ d[Len(b) + 1] = x
                <5>1. SUFFICES ASSUME NEW i \in 1 .. Len(b) + 1
                      PROVE  /\ acknowledged_seqn < d[i] /\ d[i] =< m
                             /\ \A j \in 1 .. i - 1 : d[j] < d[i]
                             /\ d[i] < x + 1
                    BY <4>2
                <5>2. \A j \in 1 .. i - 1 : j \in 1 .. Len(b) /\ d[j] = b[j]
                    BY <3>2, <4>2
                <5>3. CASE i \in 1 .. Len(b)
                    BY <1>4, <3>1, <3>2, <3>4, <4>2, <5>2, <5>3
                <5>4. CASE i = Len(b) + 1
                    BY <1>4, <1>14, <3>1, <4>2, <5>2, <5>4
                <5> QED
                    BY <3>2, <5>3, <5>4
            <4> QED
                BY <3>3, <4>1, <4>2
        <3>6. t # <<>> => t[1] = x + 1 /\ acknowledged_seqn < t[1]
            BY <1>3, <1>4, <1>13, <3>1
        <3> QED
            <4>1. sconn' = sconn /\ sconn = rconn /\ out'[sconn] = t /\ back'[sconn] = d
                BY <1>1, <1>2, <1>15, <2>2 DEF d
            <4>2. t # <<>> => x + 1 = t[1]
                BY <3>6
            <4> QED
                BY <1>8, <3>5, <3>6, <4>1, <4>2 DEF AcksOrdered, m
    <2> QED
        BY <2>1, <2>2
<1>20. Fresh'
    <2>1. attached /\ wire \in {"down", "resuming"} => out[sconn] = <<>> /\ back[sconn] = <<>>
        BY DEF Smooth, Fresh
    <2>2. attached /\ wire \in {"down", "resuming"} => sconn # rconn /\ sconn \in Connection
        BY <1>1, <1>3, <2>1 DEF s, Safe, Places
    <2> QED
        BY <1>2, <1>8, <1>15, <2>1, <2>2 DEF Fresh
<1>21. Dispatched'
    <2>1. CASE x =< max_received_seqn /\ x # 1
        <3>1. aligned' = FALSE /\ dispatched' = dispatched
            BY <1>5, <2>1
        <3> QED
            BY <3>1 DEF Smooth, Dispatched
    <2>2. CASE ~(x =< max_received_seqn /\ x # 1) /\ aligned # TRUE
        <3>1. dispatched' = dispatched /\ ~aligned /\ ~aligned'
            BY <1>5, <2>2 DEF Safe, WireTypeOK
        <3> QED
            BY <3>1 DEF Smooth, Dispatched
    <2>3. CASE ~(x =< max_received_seqn /\ x # 1) /\ aligned = TRUE
        <3>a. /\ Len(dispatched) \in Nat /\ Len(Append(dispatched, x)) = Len(dispatched) + 1
              /\ Append(dispatched, x) # <<>>
              /\ \A i \in 1 .. Len(dispatched) : Append(dispatched, x)[i] = dispatched[i]
              /\ Append(dispatched, x)[Len(dispatched) + 1] = x
            <4>1. ASSUME NEW S, NEW u \in Seq(S), NEW y \in S
                  PROVE  /\ Len(u) \in Nat /\ Len(Append(u, y)) = Len(u) + 1
                         /\ Append(u, y) # <<>>
                         /\ \A i \in 1 .. Len(u) : Append(u, y)[i] = u[i]
                         /\ Append(u, y)[Len(u) + 1] = y
                BY Appended
            <4>2. dispatched \in Seq(1 .. MaxPuts) /\ x \in 1 .. MaxPuts
                BY <1>1, <1>4
            <4> QED
                BY <4>1, <4>2, Zenon
        <3> DEFINE d == dispatched
                   n == Len(d)
                   e == Append(d, x)
        <3>1. dispatched' = e /\ m = x /\ aligned
            BY <1>5, <2>3
        <3>2. /\ n \in Nat /\ Len(e) = n + 1 /\ e # <<>>
              /\ \A i \in 1 .. n : e[i] = d[i]
              /\ e[n + 1] = x
            BY <3>a
        <3>3. /\ \A i \in 1 .. n : d[i] = 1 \/ (i > 1 /\ d[i] = d[i - 1] + 1)
              /\ IF d = <<>> THEN max_received_seqn = 0 ELSE max_received_seqn = d[n]
            BY <3>1 DEF Smooth, Dispatched
        <3>4. (d = <<>> /\ n = 0) \/ (d # <<>> /\ n > 0)
            BY <1>1, EmptySeq
        <3>5. x = 1 \/ x = max_received_seqn + 1
            BY <1>3, <1>4, <1>7, <2>3
        <3> HIDE DEF d, n, e
        <3>6. ASSUME NEW i \in 1 .. n + 1
              PROVE  e[i] = 1 \/ (i > 1 /\ e[i] = e[i - 1] + 1)
            <4>1. CASE i = n + 1
                <5>1. CASE x = 1
                    BY <3>2, <4>1, <5>1
                <5>2. CASE x # 1
                    <6>1. x = max_received_seqn + 1 /\ n > 0 /\ max_received_seqn = d[n]
                        BY <1>3, <3>3, <3>4, <3>5, <5>2
                    <6>2. n \in 1 .. n /\ e[n] = d[n]
                        BY <3>2, <6>1
                    <6> QED
                        BY <3>2, <4>1, <6>1, <6>2
                <5> QED
                    BY <5>1, <5>2
            <4>2. CASE i # n + 1
                <5>1. i \in 1 .. n
                    BY <3>2, <4>2
                <5>2. i > 1 => i - 1 \in 1 .. n
                    BY <3>2, <5>1
                <5> QED
                    BY <3>2, <3>3, <5>1, <5>2
            <4> QED
                BY <4>1, <4>2
        <3> QED
            BY <3>1, <3>2, <3>6 DEF Dispatched, m
    <2> QED
        BY <2>1, <2>2, <2>3
<1>22. InStep'
    <2>1. SUFFICES ASSUME attached, sconn \notin broken, wire \in {"resending", "resent", "up"}
                   PROVE  InStep'
        BY <1>2, <1>8 DEF InStep
    <2> DEFINE f == First
    <2>2. /\ out[sconn] # <<>> => out[sconn][1] = f
          /\ acknowledged_seqn < f
          /\ rconn < sconn => f =< acknowledged_seqn + 1
          /\ rconn = sconn => f =< max_received_seqn + 1
          /\ \A i \in 1 .. Len(back[sconn]) : back[sconn][i] < f
        BY <2>1 DEF Smooth, InStep
    <2>3. sconn \in Connection
        BY <1>3, <2>1 DEF Safe, Places
    <2>4. CASE sconn # rconn
        <3>1. out'[sconn] = out[sconn] /\ back'[sconn] = back[sconn] /\ First' = f
            BY <1>2, <1>8, <1>15, <2>3, <2>4 DEF First
        <3> QED
            BY <1>2, <1>8, <2>2, <2>4, <3>1 DEF InStep
    <2>5. CASE sconn = rconn
        <3>1. out'[sconn] = t /\ back'[sconn] = Append(back[rconn], x)
            BY <1>15, <2>1, <2>3, <2>5
        <3>2. f = x
            BY <1>1, <1>4, <2>2, <2>5 DEF s
        <3>3. First' = x + 1
            <4>1. First' = NextToSend' - Len(out'[sconn'])
                BY DEF First
            <4>2. First' = NextToSend - (Len(s) - 1) /\ f = NextToSend - Len(s)
                BY <1>2, <1>4, <1>8, <2>5, <3>1, <4>1 DEF First, s
            <4>3. NextToSend \in Int
                BY DEF NextToSend, HandedOver, Safe, IInv, TypeOK
            <4> QED
                BY <1>4, <3>2, <4>2, <4>3
        <3>4. ASSUME NEW i \in 1 .. Len(Append(back[rconn], x))
              PROVE  Append(back[rconn], x)[i] < x + 1
            <4> DEFINE b == back[rconn]
            <4>1. /\ Len(b) \in Nat /\ Len(Append(b, x)) = Len(b) + 1
                  /\ \A j \in 1 .. Len(b) : Append(b, x)[j] = b[j]
                  /\ Append(b, x)[Len(b) + 1] = x
                <5>1. b \in Seq(1 .. MaxPuts) /\ x \in 1 .. MaxPuts
                    BY <1>1, <1>4
                <5> HIDE DEF b
                <5> QED
                    BY <5>1, Appended
            <4>2. \A j \in 1 .. Len(b) : b[j] < x /\ b[j] \in 1 .. MaxPuts
                BY <1>1, <2>2, <2>5, <3>2, ElementOfSeq
            <4>3. i \in 1 .. Len(b) \/ i = Len(b) + 1
                BY <4>1
            <4> HIDE DEF b
            <4> QED
                BY <1>4, <4>1, <4>2, <4>3 DEF b
        <3>5. acknowledged_seqn < x + 1 /\ x + 1 =< m + 1
            BY <1>3, <1>4, <1>14, <2>2, <3>2
        <3>6. t # <<>> => t[1] = x + 1
            BY <1>13
        <3>7. ~(rconn < sconn)
            BY <1>3, <2>5
        <3> QED
            BY <1>2, <1>8, <3>1, <3>3, <3>4, <3>5, <3>6, <3>7 DEF InStep, m
    <2> QED
        BY <2>4, <2>5
<1> QED
    BY <1>16, <1>17, <1>18, <1>19, <1>20, <1>21, <1>22 DEF Smooth

-----------------------------------------------------------------------------
\* A package that has overtaken the pending ones is not forgotten.
LEMMA RushedStays ==
    ASSUME WireTypeOK, [WireNext]_wireVars, rushed
    PROVE  rushed'
<1>1. ASSUME NEW ok \in BOOLEAN, SendPackage(ok) \/ ResendPackage(ok)
      PROVE  rushed'
    BY <1>1 DEF SendPackage, ResendPackage
<1>2. ASSUME ~(\E ok \in BOOLEAN : SendPackage(ok) \/ ResendPackage(ok))
      PROVE  rushed' = rushed
    BY <1>2 DEF WireNext, Break, Construct, Send, BufferWorks, set_socket_provider, Resume, ReadAck,
                Disconnect, Accept, read_package, Lose, wireVars
<1> QED
    BY <1>1, <1>2

LEMMA SafeKept ==
    ASSUME Safe, [WireNext]_wireVars
    PROVE  Safe'
<1>1. IInv'
    BY BufferSteps, StepKeeps DEF Safe
<1>2. Places' /\ Order' /\ Handed'
    BY PlacesKept, OrderKept, HandedKept DEF Safe
<1>3. WireTypeOK'
    BY <1>1, <1>2, TypesKept DEF Safe, IInv
<1> QED
    BY <1>1, <1>2, <1>3 DEF Safe

LEMMA SmoothKept ==
    ASSUME Safe, Safe', Smooth, [WireNext]_wireVars, ~rushed'
    PROVE  Smooth'
<1>1. CASE Construct \/ Send \/ Resume \/ Disconnect \/ Lose \/ UNCHANGED wireVars
    BY <1>1, QuietSmooth
<1>2. CASE BufferWorks
    BY <1>2, BufferSmooth
<1>3. ASSUME NEW ok \in BOOLEAN, SendPackage(ok) \/ ResendPackage(ok)
      PROVE  Smooth'
    BY <1>3, SendSmooth
<1>4. ASSUME NEW c \in Connection, Break(c)
      PROVE  Smooth'
    BY <1>4, BreakSmooth
<1>5. CASE set_socket_provider
    <2>1. sconn' \in Connection
        BY <1>5, MaxConnectionsAssumption
           DEF Safe, WireTypeOK, set_socket_provider, Connection, Places
    <2> QED
        BY <1>5, <2>1, ConnectSmooth
<1>6. CASE Accept
    BY <1>6, AcceptSmooth
<1>7. CASE ReadAck
    BY <1>7, AckSmooth
<1>8. CASE read_package
    BY <1>8, ReadSmooth
<1> QED
    BY <1>1, <1>2, <1>3, <1>4, <1>5, <1>6, <1>7, <1>8 DEF WireNext

LEMMA WireInitHolds == ASSUME WireInit PROVE WInv
<1>0. /\ \A s : s = <<>> => Len(s) = 0
      /\ 1 .. 0 = {}
      /\ <<>> \in Seq(1 .. MaxPuts)
    BY EmptySeq
<1>1. IInv
    BY InitHolds DEF WireInit
<1>2. WireTypeOK
    <2>1. Flags /\ Flows /\ Ends
        <3>1. Flags
            BY DEF WireInit, Flags
        <3>2. Flows
            BY <1>0 DEF WireInit, Flows
        <3>3. Ends
            BY <1>0, MaxPutsAssumption, MaxConnectionsAssumption DEF WireInit, Ends
        <3> QED
            BY <3>1, <3>2, <3>3
    <2>2. ~InProcessing
        BY DEF WireInit, Init, InProcessing
    <2> QED
        BY <1>1, <2>1, <2>2 DEF WireTypeOK, Flags, Flows, Ends, IInv
<1>3. Places
    BY DEF WireInit, Init, Places, InProcessing
<1>4. Order
    BY DEF WireInit, Order, Connection
<1>5. Handed
    BY <1>0 DEF WireInit, Init, Handed
<1>6. Smooth
    <2>1. Runs /\ Heads /\ AcksOrdered
        BY <1>0 DEF WireInit, Runs, Heads, AcksOrdered
    <2>2. Received
        BY <1>0 DEF WireInit, Init, Received
    <2>3. Fresh /\ InStep
        BY DEF WireInit, Fresh, InStep
    <2>4. Dispatched
        BY <1>0 DEF WireInit, Dispatched
    <2> QED
        BY <2>1, <2>2, <2>3, <2>4 DEF Smooth
<1> QED
    BY <1>1, <1>2, <1>3, <1>4, <1>5, <1>6 DEF WInv, Safe

LEMMA WireStepHolds == ASSUME WInv, [WireNext]_wireVars PROVE WInv'
<1>1. Safe'
    BY SafeKept DEF WInv
<1>2. ASSUME ~rushed' PROVE Smooth'
    <2>1. ~rushed
        BY <1>2, RushedStays DEF WInv, Safe
    <2> QED
        BY <1>1, <1>2, <2>1, SmoothKept DEF WInv
<1> QED
    BY <1>1, <1>2 DEF WInv

LEMMA WireInductive == WireSpec => []WInv
BY WireInitHolds, WireStepHolds, PTL DEF WireSpec

-----------------------------------------------------------------------------
\* The wire uses its buffer as the buffer expects: it pauses and resumes in turn, and
\* acknowledges only what was handed to the socket.
THEOREM ImplementsBuffer == WireSpec => Init /\ [][Next]_vars
<1>1. WInv /\ [WireNext]_wireVars => [Next]_vars
    BY BufferSteps DEF WInv, Safe
<1>2. WireInit => Init
    BY DEF WireInit
<1> QED
    BY <1>1, <1>2, WireInductive, PTL DEF WireSpec

\* The streams, the ends and the buffer keep their types, and no package is processed
\* before there is a socket.
THEOREM WireTypeCorrect == WireSpec => []WireTypeOK
BY WireInductive, PTL DEF WInv, Safe

\* Every package keeps its seqn, whatever the connections do.
THEOREM PositionOverWire == WireSpec => []SeqnIsPosition
BY WireInductive, PTL DEF WInv, Safe, IInv

\* The sender forgets a package only when the receiver has read it.
THEOREM ForgetsOnlyRead == WireSpec => []OnlyReadIsForgotten
<1>1. WInv => OnlyReadIsForgotten
    <2> SUFFICES ASSUME WInv, ~rushed, NEW seqn \in 1 .. current_seqn - 1
                 PROVE  seqn \in read
        BY DEF OnlyReadIsForgotten
    <2>1. /\ current_seqn \in Nat /\ acknowledged_seqn \in Nat /\ max_received_seqn \in Nat
          /\ current_seqn =< acknowledged_seqn + 1
        BY DEF WInv, Safe, Handed, WireTypeOK, IInv, TypeOK
    <2>2. acknowledged_seqn =< max_received_seqn /\ 1 .. max_received_seqn \subseteq read
        BY DEF WInv, Smooth, Received
    <2> QED
        BY <2>1, <2>2
<1> QED
    BY <1>1, WireInductive, PTL

\* The receiver dispatches without a gap, or starts again with the first package.
THEOREM DispatchesInOrder == WireSpec => []NextOrFirst
<1>1. WInv => NextOrFirst
    BY DEF WInv, Smooth, Dispatched, NextOrFirst
<1> QED
    BY <1>1, WireInductive, PTL

\* Every acknowledgement that the sender reads is greater than the last.
THEOREM AcksGrow == WireSpec => AcksIncrease
<1>1. WInv /\ [WireNext]_wireVars =>
        [\A seqn \in 1 .. MaxPuts : ReadAck /\ seqn = Head(back[sconn])
            => seqn > acknowledged_seqn \/ rushed]_wireVars
    BY AckSmooth DEF WInv
<1> QED
    BY <1>1, WireInductive, PTL DEF WireSpec, AcksIncrease
=============================================================================
