---------------------------- MODULE MessageBroker ----------------------------
(***************************************************************************)
(* The broker between the wire and one entity.  The wire's thread          *)
(* dispatches messages under the lock; the entity is subscribed on the     *)
(* thread of the default scheduler, which also runs what dispatch queues   *)
(* there, and unsubscribed by any thread, without the lock.                *)
(*                                                                         *)
(* What comes before the subscription waits in the broker's Mq, one        *)
(* closure on the default scheduler for each message.  The closure takes   *)
(* its message out under the lock and does all the rest without it: a      *)
(* message that is dispatched between its last look at the queue and its   *)
(* end may be erased with the entry, or overtake what the closure still    *)
(* has to forward.                                                         *)
(***************************************************************************)
EXTENDS Integers, Sequences, SequencesExt

CONSTANT MaxMessages    \* bound on the messages for the entity

VARIABLES
    scheduler,      \* of the entity: the default one, another thread's, or the synchronous one
    subscription,   \* "none", "yes", or "over"
    mq,             \* the entry of the entity in broker, or NoMq
    tasks,          \* of the default scheduler: Closure, or the number of a message
    custom,         \* of the entity's own scheduler
    closure,        \* where the closure that runs is
    arrived,        \* how many messages have been dispatched
    delivered,      \* history: those received by the entity, in order
    dropped,        \* history: those that found no subscription
    crashed,        \* a null subscription was used
    racers,         \* history: those dispatched between a closure's last look and its end
    stale           \* a queued closure holds an entry that is gone
vars == <<scheduler, subscription, mq, tasks, custom, closure,
          arrived, delivered, dropped, crashed, racers, stale>>

Closure == 0
NoMq == [exists |-> FALSE, default |-> <<>>, custom |-> <<>>]
At(step, subscribed, rest) == [step |-> step, subscribed |-> subscribed, rest |-> rest]
NotRunning == At("none", FALSE, <<>>)
Subscribed == subscription = "yes"

Init ==
    /\ scheduler \in {"default", "own", "synchronous"}
    /\ subscription = "none"
    /\ mq = NoMq
    /\ tasks = <<>> /\ custom = <<>>
    /\ closure = NotRunning
    /\ arrived = 0 /\ delivered = <<>> /\ dropped = {}
    /\ crashed = FALSE /\ racers = {} /\ stale = FALSE

-----------------------------------------------------------------------------
(* invoke.                                                                 *)

\* Queued on a thread, a message looks again whether there is a subscription.
Execute(ms) ==
    IF Subscribed THEN delivered' = delivered \o ms /\ UNCHANGED dropped
    ELSE dropped' = dropped \cup ToSet(ms) /\ UNCHANGED delivered

\* The scheduler is not the default one; the synchronous one runs it here.
invoke(ms) ==
    IF scheduler = "own"
    THEN custom' = custom \o ms /\ UNCHANGED <<delivered, dropped>>
    ELSE Execute(ms) /\ UNCHANGED custom

\* advise_on, and the action it adds to the lifetime.  With a stale closure in
\* the queue of this thread, what follows is not defined.
advise_on ==
    /\ subscription = "none" /\ closure = NotRunning /\ ~stale
    /\ subscription' = "yes"
    /\ UNCHANGED <<scheduler, mq, tasks, custom, closure, arrived, delivered, dropped, crashed, racers, stale>>

Unsubscribe ==
    /\ Subscribed
    /\ subscription' = "over"
    /\ UNCHANGED <<scheduler, mq, tasks, custom, closure, arrived, delivered, dropped, crashed, racers, stale>>

-----------------------------------------------------------------------------
(* dispatch: the wire's thread.                                            *)

m == arrived + 1

\* The message meets a closure in one of these steps, or it does not.
Meets(steps) == racers' = IF closure.step \in steps THEN racers \cup {m} ELSE racers

\* Nobody is subscribed: the message waits.
DispatchUnknown ==
    /\ ~Subscribed
    /\ mq' = [mq EXCEPT !.exists = TRUE, !.default = Append(@, m)]
    /\ tasks' = Append(tasks, Closure)
    /\ Meets({"emptied", "moved"})
    /\ UNCHANGED <<custom, delivered, dropped>>

DispatchDefault ==
    /\ Subscribed /\ scheduler = "default"
    /\ tasks' = Append(tasks, m)
    /\ UNCHANGED <<mq, custom, delivered, dropped, racers>>

\* Mistake: what waits for the entity is overtaken.
dispatch_custom_at_once ==
    /\ Subscribed /\ scheduler # "default"
    /\ invoke(<<m>>)
    /\ UNCHANGED <<mq, tasks, racers>>

\* The message waits behind those that came before the subscription.
DispatchCustom ==
    /\ Subscribed /\ scheduler # "default"
    /\ \/ /\ mq.exists
          /\ mq' = [mq EXCEPT !.custom = Append(@, m)]
          /\ Meets({"emptied", "moved"})
          /\ UNCHANGED <<custom, delivered, dropped>>
       \/ /\ ~mq.exists
          /\ invoke(<<m>>)
          /\ Meets({"erased"})
          /\ UNCHANGED mq
    /\ UNCHANGED tasks

dispatch ==
    /\ arrived < MaxMessages /\ arrived' = arrived + 1
    /\ DispatchUnknown \/ DispatchDefault \/ DispatchCustom
    /\ UNCHANGED <<scheduler, subscription, closure, crashed, stale>>

-----------------------------------------------------------------------------
(* The thread of the default scheduler.                                    *)

RunInvoke ==
    /\ closure = NotRunning /\ tasks # <<>> /\ Head(tasks) # Closure
    /\ Execute(<<Head(tasks)>>)
    /\ tasks' = Tail(tasks)
    /\ UNCHANGED <<scheduler, subscription, mq, custom, closure, arrived, crashed, racers, stale>>

\* The closure reads the subscription, and takes a message, if there is one,
\* under the lock.  What a stale one does is not defined.
ClosureTakes ==
    /\ closure = NotRunning /\ tasks # <<>> /\ Head(tasks) = Closure /\ ~stale
    /\ tasks' = Tail(tasks)
    /\ LET n == IF mq.default = <<>> THEN 0 ELSE 1 IN
       /\ closure' = At("taken", Subscribed, SubSeq(mq.default, 1, n))
       /\ mq' = [mq EXCEPT !.default = SubSeq(@, n + 1, Len(@))]
    /\ UNCHANGED <<scheduler, subscription, custom, arrived, delivered, dropped, crashed, racers, stale>>

\* It invokes the entity: at once, when its scheduler is the default one.
ClosureInvokes ==
    /\ closure.step = "taken"
    /\ CASE ~closure.subscribed ->
              dropped' = dropped \cup ToSet(closure.rest) /\ UNCHANGED <<delivered, custom>>
         [] closure.subscribed /\ scheduler = "default" ->
              delivered' = delivered \o closure.rest /\ UNCHANGED <<dropped, custom>>
         [] OTHER -> invoke(closure.rest)
    /\ closure' = IF mq.default = <<>> THEN At("emptied", closure.subscribed, <<>>) ELSE NotRunning
    /\ UNCHANGED <<scheduler, subscription, mq, tasks, arrived, crashed, racers, stale>>

\* Nothing was left for the default scheduler: the entry is moved out, what is
\* in its default queue by now with it, ...
ClosureMoves ==
    /\ closure.step = "emptied"
    /\ closure' = At("moved", closure.subscribed, mq.custom)
    /\ mq' = [mq EXCEPT !.default = <<>>, !.custom = <<>>]
    /\ stale' = (stale \/ mq.default # <<>>)
    /\ UNCHANGED <<scheduler, subscription, tasks, custom, arrived, delivered, dropped, crashed, racers>>

\* ... and erased, with what came since, ...
ClosureErases ==
    /\ closure.step = "moved"
    /\ closure' = IF closure.rest = <<>> THEN NotRunning ELSE [closure EXCEPT !.step = "erased"]
    /\ mq' = NoMq
    /\ stale' = (stale \/ mq.default # <<>>)
    /\ crashed' = (closure.rest # <<>> /\ ~closure.subscribed)
    /\ UNCHANGED <<scheduler, subscription, tasks, custom, arrived, delivered, dropped, racers>>

\* ... and what waited for the other scheduler is invoked, one after the other.
ClosureForwards ==
    /\ closure.step = "erased" /\ ~crashed
    /\ invoke(<<Head(closure.rest)>>)
    /\ closure' = IF Len(closure.rest) = 1 THEN NotRunning ELSE [closure EXCEPT !.rest = Tail(@)]
    /\ UNCHANGED <<scheduler, subscription, mq, tasks, arrived, crashed, racers, stale>>

RunCustom ==
    /\ custom # <<>>
    /\ Execute(<<Head(custom)>>)
    /\ custom' = Tail(custom)
    /\ UNCHANGED <<scheduler, subscription, mq, tasks, closure, arrived, crashed, racers, stale>>

Next ==
    \/ advise_on \/ Unsubscribe \/ dispatch
    \/ RunInvoke \/ ClosureTakes \/ ClosureInvokes
    \/ ClosureMoves \/ ClosureErases \/ ClosureForwards
    \/ RunCustom

Spec == Init /\ [][Next]_vars

-----------------------------------------------------------------------------
Waiting == ToSet(mq.default) \cup ToSet(mq.custom) \cup ToSet(closure.rest) \cup
           ToSet(custom) \cup (ToSet(tasks) \ {Closure})

\* The entity receives each message once, and in the order in which they came,
\* except that one which was dispatched between a closure's last look at the
\* queue and its end may overtake what the closure forwards.  Each is received
\* or waits or found no subscription, unless it is one of those.  The broker
\* uses a null subscription only for an entity that is gone again.
BrokerKeepsOrder ==
    /\ \A i, j \in 1 .. Len(delivered) : i < j =>
          /\ delivered[i] # delivered[j]
          /\ delivered[i] < delivered[j] \/ delivered[i] \in racers \/ delivered[j] \in racers
    /\ (1 .. arrived) \ racers \subseteq ToSet(delivered) \cup Waiting \cup dropped
    /\ crashed => subscription = "over"
=============================================================================
