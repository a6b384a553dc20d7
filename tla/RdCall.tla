------------------------------- MODULE RdCall -------------------------------
(***************************************************************************)
(* A call and its tasks at one end, the endpoint at the other.  The caller *)
(* is the thread of the default scheduler; a response is received on the   *)
(* wire's thread, which sets the result of a synchronous call itself and   *)
(* queues the result of another to the caller's thread; the lifetime the   *)
(* call is bound in may be ended by a third thread.                        *)
(*                                                                         *)
(* The broker and the lifetime hold the task of a call by a raw pointer.   *)
(* What happens when a task that is gone is used through it is undefined,  *)
(* and not followed.                                                       *)
(***************************************************************************)
EXTENDS Integers, Sequences

CONSTANT MaxCalls       \* bound on the calls

Tasks == 1 .. MaxCalls
Nobody == 0

VARIABLES
    made,           \* how many tasks have been made
    is_sync,        \* the tasks of synchronous calls
    held,           \* the tasks somebody holds a copy of
    result,
    sync_task_id,   \* the task of the synchronous call, or Nobody
    caller,         \* the task whose result the caller's thread polls, or Nobody
    requests,       \* on their way to the endpoint
    working,        \* requests the endpoint has not answered
    responses,      \* on their way back
    queue,          \* of the default scheduler: results to be set
    setting,        \* the result each other thread is about to set
    ended,          \* the lifetime is terminated
    actions,        \* and these tasks have an action left that it is to run
    used_dead,      \* a task that is gone was used
    threw,          \* history: a synchronous call did not return its result
    refused         \* history: one was refused, and no other was in progress
vars == <<made, is_sync, held, result, sync_task_id, caller, requests, working,
          responses, queue, setting, ended, actions, used_dead, threw, refused>>

Nothing == [task |-> Nobody, result |-> "none"]
Setters == {"wire", "ender"}

Init ==
    /\ made = 0 /\ is_sync = {} /\ held = {}
    /\ result = [i \in Tasks |-> "none"]
    /\ sync_task_id = Nobody /\ caller = Nobody
    /\ requests = <<>> /\ working = {} /\ responses = <<>> /\ queue = <<>>
    /\ setting = [t \in Setters |-> Nothing]
    /\ ended = FALSE /\ actions = {}
    /\ used_dead = FALSE /\ threw = FALSE /\ refused = FALSE

Defined == ~used_dead
\* The caller's thread is not polling.
Free == caller = Nobody
task == made + 1

-----------------------------------------------------------------------------
(* The caller.                                                             *)

\* Mistake: the task does not get an action in the lifetime.
make_unattached(i) ==
    /\ made' = i /\ held' = held \cup {i}
    /\ UNCHANGED actions

\* A task is subscribed and gets an action that cancels it when the lifetime
\* ends; the lifetime refuses that once it is terminated, and start throws.
make(i) ==
    /\ made' = i /\ held' = held \cup {i}
    /\ actions' = actions \cup {i}

start ==
    /\ Free /\ Defined /\ ~ended /\ made < MaxCalls
    /\ make(task)
    /\ requests' = Append(requests, task)
    /\ UNCHANGED <<is_sync, result, sync_task_id, caller, working, responses, queue,
                   setting, ended, used_dead, threw, refused>>

sync ==
    /\ Free /\ Defined /\ ~ended /\ made < MaxCalls
    /\ sync_task_id = Nobody
    /\ make(task)
    /\ is_sync' = is_sync \cup {task}
    /\ sync_task_id' = task /\ caller' = task
    /\ requests' = Append(requests, task)
    /\ UNCHANGED <<result, working, responses, queue, setting, ended, used_dead, threw, refused>>

\* "Already exists sync task": the task just made goes again, and takes its
\* action out of the lifetime.
SyncRefused ==
    /\ Free /\ Defined /\ ~ended /\ made < MaxCalls
    /\ sync_task_id # Nobody
    /\ made' = task
    /\ refused' = TRUE
    /\ UNCHANGED <<is_sync, held, result, sync_task_id, caller, requests, working, responses,
                   queue, setting, ended, actions, used_dead, threw>>

\* What is left of the actions, when a task goes: terminate has already taken
\* them all once the lifetime has ended.
without(i) == IF ended THEN actions ELSE actions \ {i}

\* The loop ends with a result, with the lifetime, or after the timeout, which
\* is at any time.  Only a success is returned, and only then is sync_task_id
\* reset; anything else is thrown, and the task goes.
SyncReturns ==
    /\ ~Free /\ Defined /\ result[caller] = "success"
    /\ sync_task_id' = Nobody /\ caller' = Nobody
    /\ UNCHANGED <<made, is_sync, held, result, requests, working, responses, queue,
                   setting, ended, actions, used_dead, threw, refused>>

SyncThrows ==
    /\ ~Free /\ Defined /\ result[caller] # "success"
    /\ held' = held \ {caller} /\ actions' = without(caller)
    /\ caller' = Nobody
    /\ threw' = TRUE
    /\ UNCHANGED <<made, is_sync, result, sync_task_id, requests, working, responses, queue,
                   setting, ended, used_dead, refused>>

\* The last copy of a task goes.
Drop(i) ==
    /\ Free /\ Defined /\ i \in held
    /\ held' = held \ {i} /\ actions' = without(i)
    /\ UNCHANGED <<made, is_sync, result, sync_task_id, caller, requests, working, responses,
                   queue, setting, ended, used_dead, threw, refused>>

-----------------------------------------------------------------------------
(* The endpoint: external code handles the request, now or later.          *)

Receive ==
    /\ requests # <<>> /\ Defined
    /\ working' = working \cup {Head(requests)}
    /\ requests' = Tail(requests)
    /\ UNCHANGED <<made, is_sync, held, result, sync_task_id, caller, responses, queue,
                   setting, ended, actions, used_dead, threw, refused>>

\* A handler that throws answers with a fault.
Answer(i) ==
    /\ i \in working /\ Defined
    /\ working' = working \ {i}
    /\ \E r \in {"success", "fault"} : responses' = Append(responses, [task |-> i, result |-> r])
    /\ UNCHANGED <<made, is_sync, held, result, sync_task_id, caller, requests, queue,
                   setting, ended, actions, used_dead, threw, refused>>

-----------------------------------------------------------------------------
(* The result.                                                             *)

\* set_if_empty looks and sets in two steps: a thread that has looked sets,
\* though another thread may have set the result meanwhile.
Look(t, r) ==
    /\ used_dead' = (r.task \notin held)
    /\ setting' = [setting EXCEPT ![t] =
          IF r.task \in held /\ result[r.task] = "none" THEN r ELSE Nothing]

Put(t) ==
    /\ setting[t] # Nothing /\ Defined
    /\ used_dead' = (setting[t].task \notin held)
    /\ result' = [result EXCEPT ![setting[t].task] = setting[t].result]
    /\ setting' = [setting EXCEPT ![t] = Nothing]
    /\ UNCHANGED <<made, is_sync, held, sync_task_id, caller, requests, working, responses,
                   queue, ended, actions, threw, refused>>

\* on_wire_received of the task, which is subscribed until its actions have
\* run in the lifetime.
ReceiveResponse ==
    /\ responses # <<>> /\ Defined /\ setting["wire"] = Nothing
    /\ responses' = Tail(responses)
    /\ LET r == Head(responses) IN
       IF ended /\ r.task \notin actions THEN UNCHANGED <<queue, setting, used_dead>>
       ELSE IF r.task \in is_sync THEN Look("wire", r) /\ UNCHANGED queue
       ELSE /\ queue' = Append(queue, r)
            /\ used_dead' = (r.task \notin held)
            /\ UNCHANGED setting
    /\ UNCHANGED <<made, is_sync, held, result, sync_task_id, caller, requests, working,
                   ended, actions, threw, refused>>

\* The closure on the caller's thread.
SetQueued ==
    /\ Free /\ Defined /\ queue # <<>>
    /\ queue' = Tail(queue)
    /\ LET r == Head(queue) IN
       /\ used_dead' = (r.task \notin held)
       /\ result' = IF result[r.task] = "none"
                    THEN [result EXCEPT ![r.task] = r.result] ELSE result
    /\ UNCHANGED <<made, is_sync, held, sync_task_id, caller, requests, working, responses,
                   setting, ended, actions, threw, refused>>

-----------------------------------------------------------------------------
(* The end of the lifetime.                                                *)

End ==
    /\ ~ended /\ Defined
    /\ ended' = TRUE
    /\ UNCHANGED <<made, is_sync, held, result, sync_task_id, caller, requests, working,
                   responses, queue, setting, actions, used_dead, threw, refused>>

\* The actions run from the last to the first, and cancel what has no result.
Cancel ==
    /\ ended /\ Defined /\ actions # {} /\ setting["ender"] = Nothing
    /\ LET i == CHOOSE i \in actions : \A j \in actions : j <= i IN
       /\ actions' = actions \ {i}
       /\ Look("ender", [task |-> i, result |-> "cancelled"])
    /\ UNCHANGED <<made, is_sync, held, result, sync_task_id, caller, requests, working,
                   responses, queue, ended, threw, refused>>

Next ==
    \/ start \/ sync \/ SyncRefused \/ SyncReturns \/ SyncThrows
    \/ \E i \in Tasks : Drop(i) \/ Answer(i)
    \/ Receive \/ ReceiveResponse \/ SetQueued
    \/ \E t \in Setters : Put(t)
    \/ End \/ Cancel

Spec == Init /\ [][Next]_vars

-----------------------------------------------------------------------------
\* When the lifetime of a call is over no task that is still held waits for
\* ever: it has a result, whatever was on its way when the lifetime ended.
\* And a synchronous call is refused, with no other in progress, only after
\* one that did not return its result.
CallEnds == Defined =>
    /\ ended /\ actions = {} /\ setting["ender"] = Nothing => \A i \in held : result[i] # "none"
    /\ refused => threw

\* "Already exists sync task for call" (task/RdCall.h:127): a synchronous
\* call is refused only when there is another one.
RefusedOnlyInProgress == ~refused
=============================================================================
