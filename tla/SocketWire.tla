----------------------------- MODULE SocketWire -----------------------------
(***************************************************************************)
(* Two wires and the connections between them, in one direction: one wire  *)
(* sends packages through its ByteBufferAsyncProcessor, the other reads    *)
(* them, acknowledges them and dispatches the messages they carry.  The    *)
(* other direction is the same code with the roles exchanged.              *)
(*                                                                         *)
(* A connection is a pair of byte streams, of packages and of              *)
(* acknowledgements, one of them per message.  It breaks at any time, and  *)
(* then a suffix of each stream is lost; the wires see it only when they   *)
(* have read what is left.  The one that listens accepts the connections   *)
(* in the order in which the other has opened them.                        *)
(***************************************************************************)
EXTENDS ByteBufferAsyncProcessor

CONSTANT MaxConnections     \* bound on the connections opened

ASSUME MaxConnectionsAssumption == MaxConnections \in Nat

VARIABLES
    senderConnects,     \* the sender is the Client, and the receiver the Server
    out,                \* packages on each connection
    back,               \* acknowledgements on each connection
    broken,             \* the connections that are broken
    sconn,              \* socket_provider of the sender, 0 is null
    attached,           \* its thread is in set_socket_provider
    rconn,              \* socket_provider of the receiver
    rattached,
    max_received_seqn,
    aligned,            \* the bytes in receive_pkg begin with a message
    dispatched,         \* the packages whose messages have been dispatched
    read,               \* the packages that have been read, history
    rushed              \* history: a new package has overtaken the pending ones

streams == <<senderConnects, out, back, broken>>
receiver == <<rconn, rattached, max_received_seqn, aligned, dispatched, read>>
wireVars == <<vars, streams, sconn, attached, receiver, rushed>>

Connection == 1 .. MaxConnections

\* The connections opened so far.
Opened == 1 .. IF senderConnects THEN sconn ELSE rconn

WireInit ==
    /\ Init
    /\ senderConnects \in BOOLEAN
    /\ out = [c \in Connection |-> <<>>]
    /\ back = [c \in Connection |-> <<>>]
    /\ broken = {}
    /\ sconn = 0 /\ attached = FALSE
    /\ rconn = 0 /\ rattached = FALSE
    /\ max_received_seqn = 0
    /\ aligned = TRUE
    /\ dispatched = <<>>
    /\ read = {}
    /\ rushed = FALSE

-----------------------------------------------------------------------------
(* The connections.                                                        *)

Prefixes(s) == {SubSeq(s, 1, n) : n \in 0 .. Len(s)}

Break(c) ==
    /\ c \in Opened \ broken
    /\ broken' = broken \cup {c}
    /\ \E s \in Prefixes(out[c]) : out' = [out EXCEPT ![c] = s]
    /\ \E s \in Prefixes(back[c]) : back' = [back EXCEPT ![c] = s]
    /\ UNCHANGED <<vars, senderConnects, sconn, attached, receiver, rushed>>

\* send0.  On a broken connection Send fails, or takes what never arrives.
send0(seqn, ok) ==
    /\ UNCHANGED <<senderConnects, back, broken, sconn, attached, receiver>>
    /\ \/ /\ ok /\ sconn \notin broken
          /\ out' = [out EXCEPT ![sconn] = Append(@, seqn)]
       \/ /\ sconn \in broken
          /\ UNCHANGED out

-----------------------------------------------------------------------------
(* The sender.                                                             *)

\* Mistake: the buffer is started without a pause.
StartUnpaused == /\ state = "Initialized"
                 /\ start
                 /\ UNCHANGED <<streams, sconn, attached, receiver, rushed>>

\* What the wire does with its buffer before it has a connection.
Construct == /\ state = "Initialized"
             /\ (wire = "up" /\ pause) \/ (wire = "down" /\ start)
             /\ UNCHANGED <<streams, sconn, attached, receiver, rushed>>

Send == put /\ UNCHANGED <<streams, sconn, attached, receiver, rushed>>

\* A new package is handed to the new socket before resume has resent the pending.
Overtakes == attached /\ wire \in {"down", "resuming"}

SendPackage(ok) ==
    /\ SendNew(ok)
    /\ send0(max_sent_seqn + 1, ok)
    /\ rushed' = (rushed \/ (Overtakes /\ ok))

ResendPackage(ok) ==
    /\ Resend(ok)
    /\ send0(ResendSeqn, ok)
    /\ UNCHANGED rushed

BufferWorks ==
    /\ Loop \/ Wake \/ process \/ Sent \/ Processed \/ Paused \/ reprocess \/ Reprocessed \/ Resumed
    /\ UNCHANGED <<streams, sconn, attached, receiver, rushed>>

\* The socket is in place before the buffer is resumed.
set_socket_provider ==
    /\ state # "Initialized" /\ wire = "down" /\ ~attached
    /\ sconn + 1 \in IF senderConnects THEN Connection ELSE Opened
    /\ sconn' = sconn + 1
    /\ attached' = TRUE
    /\ UNCHANGED <<vars, streams, receiver, rushed>>

Resume == attached /\ resume
          /\ UNCHANGED <<streams, sconn, attached, receiver, rushed>>

\* read_header, when it finds an acknowledgement.
ReadAck ==
    /\ attached /\ back[sconn] # <<>>
    /\ acknowledge(Head(back[sconn]))
    /\ back' = [back EXCEPT ![sconn] = Tail(@)]
    /\ UNCHANGED <<senderConnects, out, broken, sconn, attached, receiver, rushed>>

Disconnect ==
    /\ attached /\ sconn \in broken /\ back[sconn] = <<>>
    /\ pause
    /\ attached' = FALSE
    /\ UNCHANGED <<streams, sconn, receiver, rushed>>

-----------------------------------------------------------------------------
(* The receiver.                                                           *)

Accept ==
    /\ ~rattached
    /\ rconn + 1 \in IF senderConnects THEN Opened ELSE Connection
    /\ rconn' = rconn + 1
    /\ rattached' = TRUE
    /\ UNCHANGED <<vars, streams, sconn, attached, max_received_seqn, aligned,
                   dispatched, read, rushed>>

send_ack(seqn) ==
    back' = IF rconn \in broken THEN back
            ELSE [back EXCEPT ![rconn] = Append(@, seqn)]

\* Mistake: off by one.
OlderThanLast(seqn) == seqn < max_received_seqn /\ seqn # 1

\* The first package of a sender is never a duplicate: it may have restarted.
Duplicate(seqn) == seqn =< max_received_seqn /\ seqn # 1

\* read_package and the message it completes.  A duplicate is reported as a
\* package of length `true': its first byte becomes a part of the next message,
\* and no message is found where it begins from then on.
read_package ==
    /\ rattached /\ out[rconn] # <<>>
    /\ LET seqn == Head(out[rconn])
       IN  /\ send_ack(seqn)
           /\ read' = read \cup {seqn}
           /\ IF Duplicate(seqn)
              THEN /\ aligned' = FALSE
                   /\ UNCHANGED <<max_received_seqn, dispatched>>
              ELSE /\ max_received_seqn' = seqn
                   /\ dispatched' = IF aligned THEN Append(dispatched, seqn) ELSE dispatched
                   /\ UNCHANGED aligned
    /\ out' = [out EXCEPT ![rconn] = Tail(@)]
    /\ UNCHANGED <<vars, senderConnects, broken, sconn, attached, rconn, rattached, rushed>>

Lose ==
    /\ rattached /\ rconn \in broken /\ out[rconn] = <<>>
    /\ rattached' = FALSE
    /\ UNCHANGED <<vars, streams, sconn, attached, rconn, max_received_seqn, aligned,
                   dispatched, read, rushed>>

-----------------------------------------------------------------------------
WireNext ==
    \/ \E c \in Connection : Break(c)
    \/ Construct \/ Send
    \/ \E ok \in BOOLEAN : SendPackage(ok) \/ ResendPackage(ok)
    \/ BufferWorks
    \/ set_socket_provider \/ Resume \/ ReadAck \/ Disconnect
    \/ Accept \/ read_package \/ Lose

\* The threads of both wires go on; connections need neither break nor open.
WireSpec == /\ WireInit /\ [][WireNext]_wireVars
            /\ SF_wireVars(BufferWorks)
            /\ WF_wireVars(\E ok \in BOOLEAN : SendPackage(ok) \/ ResendPackage(ok))
            /\ WF_wireVars(Accept) /\ WF_wireVars(read_package) /\ WF_wireVars(Lose)

-----------------------------------------------------------------------------
WireTypeOK ==
    /\ TypeOK
    /\ senderConnects \in BOOLEAN
    /\ out \in [Connection -> Seq(1 .. MaxPuts)]
    /\ back \in [Connection -> Seq(1 .. MaxPuts)]
    /\ broken \subseteq Connection
    /\ sconn \in 0 .. MaxConnections /\ rconn \in 0 .. MaxConnections
    /\ attached \in BOOLEAN /\ rattached \in BOOLEAN
    /\ max_received_seqn \in 0 .. MaxPuts
    /\ aligned \in BOOLEAN
    /\ dispatched \in Seq(1 .. MaxPuts)
    /\ read \subseteq 1 .. MaxPuts
    /\ rushed \in BOOLEAN
    /\ InProcessing => sconn # 0

\* A package leaves the sender only when the receiver has read it, whatever broke
\* when, unless a new package has overtaken the pending ones.
OnlyReadIsForgotten ==
    ~rushed => \A seqn \in 1 .. current_seqn - 1 : seqn \in read

\* The receiver dispatches without a gap, or starts again with the first package:
\* that is the only way to see a package twice.
NextOrFirst ==
    ~rushed => \A i \in 1 .. Len(dispatched) :
        dispatched[i] = 1 \/ (i > 1 /\ dispatched[i] = dispatched[i - 1] + 1)

\* Whatever was pending when the buffer was resumed arrives if the connection holds.
PendingArrives ==
    \A seqn \in 1 .. MaxPuts :
        wire = "up" /\ seqn \in current_seqn .. max_sent_seqn
            ~> seqn \in read \/ sconn \in broken

\* No acknowledgement comes twice, or after that of a later package.
AcksIncrease ==
    [][\A seqn \in 1 .. MaxPuts : ReadAck /\ seqn = Head(back[sconn])
            => seqn > acknowledged_seqn \/ rushed]_wireVars

-----------------------------------------------------------------------------
\* The log of acknowledge: the next seqn MUST BE greater.
AckMustBeGreater ==
    [][\A seqn \in 1 .. MaxPuts : ReadAck /\ seqn = Head(back[sconn])
            => seqn > acknowledged_seqn]_wireVars

\* The comment of read_and_dispatch_message: no broken message.
NoBrokenMessage == aligned
=============================================================================
