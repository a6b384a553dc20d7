------------------------------- MODULE ExtWire -------------------------------
(***************************************************************************)
(* An extension and its wire at the two ends of a protocol.  The ends tell *)
(* each other that they are ready; until an end knows that the other one   *)
(* is, what is sent through the extension waits in sendQ.                  *)
(*                                                                         *)
(* The state of the extension is received on the wire's thread; others     *)
(* send.  An extension that is bound again is a new object, with nothing   *)
(* in its queue and not connected, under the identity of the old one.      *)
(***************************************************************************)
EXTENDS Integers, Sequences

CONSTANTS
    MaxSends,       \* bound on the messages an end sends
    MaxBinds        \* bound on how often an end is bound

Ends == {"here", "there"}
Other(s) == IF s = "here" THEN "there" ELSE "here"

VARIABLES
    bound,          \* the extension of the end is bound
    binds,          \* how often it has been
    connected,
    flushing,       \* `connected' has been set and its handler has not run yet
    sendQ,
    sending,        \* the message send has decided to send at once, or 0
    sent,           \* how many messages the end has sent
    realWire,       \* for each end what is on its way to it
    received        \* history: the messages that came to a bound extension
vars == <<bound, binds, connected, flushing, sendQ, sending, sent, realWire, received>>

State(s) == [kind |-> s, number |-> 0]
Payload(n) == [kind |-> "payload", number |-> n]
ToOther(s, messages) == [realWire EXCEPT ![Other(s)] = @ \o messages]

Init ==
    /\ bound = [s \in Ends |-> FALSE]
    /\ binds = [s \in Ends |-> 0]
    /\ connected = [s \in Ends |-> FALSE]
    /\ flushing = [s \in Ends |-> FALSE]
    /\ sendQ = [s \in Ends |-> <<>>]
    /\ sending = [s \in Ends |-> 0]
    /\ sent = [s \in Ends |-> 0]
    /\ realWire = [s \in Ends |-> <<>>]
    /\ received = [s \in Ends |-> <<>>]

-----------------------------------------------------------------------------
\* init: a new wire, and Ready to the other end.  Nobody is in a call of the
\* old one any more.
Bind(s) ==
    /\ ~bound[s] /\ binds[s] < MaxBinds
    /\ ~flushing[s] /\ sending[s] = 0
    /\ bound' = [bound EXCEPT ![s] = TRUE]
    /\ binds' = [binds EXCEPT ![s] = @ + 1]
    /\ connected' = [connected EXCEPT ![s] = FALSE]
    /\ sendQ' = [sendQ EXCEPT ![s] = <<>>]
    /\ realWire' = ToOther(s, <<State("Ready")>>)
    /\ UNCHANGED <<flushing, sending, sent, received>>

\* The lifetime ends: Disconnected, and the extension is not found any more,
\* though another thread may be in send, or in the handler of `connected'.
Unbind(s) ==
    /\ bound[s]
    /\ bound' = [bound EXCEPT ![s] = FALSE]
    /\ realWire' = ToOther(s, <<State("Disconnected")>>)
    /\ UNCHANGED <<binds, connected, flushing, sendQ, sending, sent, received>>

-----------------------------------------------------------------------------
(* on_wire_received.                                                       *)

\* For an extension that is not bound nobody is subscribed, and the broker
\* drops the message.
Dropped(s) ==
    /\ ~bound[s] /\ realWire[s] # <<>>
    /\ realWire' = [realWire EXCEPT ![s] = Tail(@)]
    /\ UNCHANGED <<bound, binds, connected, flushing, sendQ, sending, sent, received>>

Receives(s, kind) ==
    bound[s] /\ ~flushing[s] /\ realWire[s] # <<>> /\ Head(realWire[s]).kind = kind

\* Setting `connected' to what it is fires nothing.
connected_set(s, b) ==
    /\ connected' = [connected EXCEPT ![s] = b]
    /\ flushing' = [flushing EXCEPT ![s] = b /\ ~connected[s]]

\* Mistake: Ready is not answered.
ready_unanswered(s) == [realWire EXCEPT ![s] = Tail(@)]

\* Ready is answered, for the other end may have sent its own before this
\* end was there to receive it.
ready_answered(s) ==
    [realWire EXCEPT ![s] = Tail(@), ![Other(s)] = Append(@, State("ReceivedCounterpart"))]

ReceiveReady(s) ==
    /\ Receives(s, "Ready")
    /\ realWire' = ready_answered(s)
    /\ connected_set(s, TRUE)
    /\ UNCHANGED <<bound, binds, sendQ, sending, sent, received>>

ReceiveState(s) ==
    /\ \E kind \in {"ReceivedCounterpart", "Disconnected"} :
          Receives(s, kind) /\ connected_set(s, kind = "ReceivedCounterpart")
    /\ realWire' = [realWire EXCEPT ![s] = Tail(@)]
    /\ UNCHANGED <<bound, binds, sendQ, sending, sent, received>>

\* What waits is sent under the lock.
Flush(s) ==
    /\ flushing[s]
    /\ realWire' = ToOther(s, [i \in 1 .. Len(sendQ[s]) |-> Payload(sendQ[s][i])])
    /\ sendQ' = [sendQ EXCEPT ![s] = <<>>]
    /\ flushing' = [flushing EXCEPT ![s] = FALSE]
    /\ UNCHANGED <<bound, binds, connected, sending, sent, received>>

ReceivePayload(s) ==
    /\ Receives(s, "payload")
    /\ received' = [received EXCEPT ![s] = Append(@, Head(realWire[s]).number)]
    /\ realWire' = [realWire EXCEPT ![s] = Tail(@)]
    /\ UNCHANGED <<bound, binds, connected, flushing, sendQ, sending, sent>>

-----------------------------------------------------------------------------
(* send.                                                                   *)

\* Mistake: an end that is connected overtakes what it has not flushed yet.
must_wait_only_if_disconnected(s) == ~connected[s]

\* Under the lock: what is there waits, and everything after it.
must_wait(s) == sendQ[s] # <<>> \/ ~connected[s]

Send(s) ==
    /\ bound[s] /\ sent[s] < MaxSends /\ sending[s] = 0
    /\ sent' = [sent EXCEPT ![s] = @ + 1]
    /\ IF must_wait(s)
       THEN sendQ' = [sendQ EXCEPT ![s] = Append(@, sent'[s])] /\ UNCHANGED sending
       ELSE sending' = [sending EXCEPT ![s] = sent'[s]] /\ UNCHANGED sendQ
    /\ UNCHANGED <<bound, binds, connected, flushing, realWire, received>>

\* After the lock has been released.
SendAtOnce(s) ==
    /\ sending[s] # 0
    /\ realWire' = ToOther(s, <<Payload(sending[s])>>)
    /\ sending' = [sending EXCEPT ![s] = 0]
    /\ UNCHANGED <<bound, binds, connected, flushing, sendQ, sent, received>>

Next == \E s \in Ends :
    \/ Bind(s) \/ Unbind(s) \/ Dropped(s)
    \/ ReceiveReady(s) \/ ReceiveState(s) \/ Flush(s) \/ ReceivePayload(s)
    \/ Send(s) \/ SendAtOnce(s)

Spec == Init /\ [][Next]_vars

-----------------------------------------------------------------------------
\* The payloads among the messages are those after m up to n, in this order.
Carries(messages, m, n) ==
    LET payloads == {i \in 1 .. Len(messages) : messages[i].kind = "payload"} IN
    /\ {messages[i].number : i \in payloads} = m + 1 .. n
    /\ \A i, j \in payloads : i < j => messages[i].number < messages[j].number

NoneUnbound == \A e \in Ends : binds[e] <= 1 /\ (binds[e] = 1 => bound[e])

Waiting(s) == (IF sending[s] = 0 THEN <<>> ELSE <<sending[s]>>) \o sendQ[s]

\* What an end sends is received in that order, and none of it twice; and
\* nothing is lost as long as neither extension has been unbound, whoever was
\* bound first: it has arrived, is on its way or waits, in that order.
ExtDelivers == \A s \in Ends :
    /\ \A i, j \in 1 .. Len(received[s]) : i < j => received[s][i] < received[s][j]
    /\ NoneUnbound =>
          LET arrived == Len(received[Other(s)])
              gone == sent[s] - Len(Waiting(s)) IN
          /\ received[Other(s)] = [i \in 1 .. arrived |-> i]
          /\ Carries(realWire[Other(s)], arrived, gone)
          /\ Waiting(s) = [i \in 1 .. Len(Waiting(s)) |-> gone + i]

\* When both extensions are bound and nothing is on its way, they have found
\* each other and nothing waits, in whatever order they came and went.
ExtConnects ==
    (\A s \in Ends : bound[s] /\ realWire[s] = <<>> /\ ~flushing[s]) =>
        \A s \in Ends : connected[s] /\ sendQ[s] = <<>>
=============================================================================
