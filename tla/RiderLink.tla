------------------------------ MODULE RiderLink ------------------------------
(***************************************************************************)
(* The plugin's end of the link: FRiderLinkModule makes an EditorModel for *)
(* each connection and tells the other modules, by RdIsModelAlive, when    *)
(* there is one.  Of those modules there are the log forwarding, which     *)
(* uses the model on a thread of its own, and the game control, which the  *)
(* events of the editor use on the game thread.                            *)
(*                                                                         *)
(* A model, the control made for it and the lifetime of its connection all *)
(* have the number of the connection.  The wire's thread connects and      *)
(* ends connections; what it queues the scheduler's thread runs in order.  *)
(* ModelLock is held by a task that connects a model, from its first step  *)
(* to its last, or shared by the log's thread while it fires.              *)
(***************************************************************************)
EXTENDS Integers, Sequences

CONSTANTS
    MaxConnections,     \* bound on the connections
    MaxEvents           \* bound on the events of the editor

Null == 0

VARIABLES
    connection,         \* how many connections there have been
    wire_at,            \* where the wire's thread is
    main_queue,         \* of the Scheduler
    connecting,         \* where the scheduler's thread is in a connect task
    EditorModel,
    bound_models,       \* the models that are bound
    with_end,           \* the connections whose lifetime is to queue the end of the model
    RdIsModelAlive,
    viewing,            \* the view that the game control has of the model
    GameControl,
    events,
    firing,             \* the model that the log's thread uses, and where it is
    used_dead           \* a control or a model was used after its end
vars == <<connection, wire_at, main_queue, connecting, EditorModel, bound_models, with_end,
          RdIsModelAlive, viewing, GameControl, events, firing, used_dead>>

Task(what, of) == [do |-> what, of |-> of]
Queue(task) == main_queue' = Append(main_queue, task)

NotFiring == [of |-> Null, at |-> "no"]

\* Mistake: the threads that fire are not waited for.
UnlockedByTask == connecting = "no"

Unlocked == connecting = "no" /\ firing = NotFiring

\* Undefined behaviour is reached, and not followed.
Defined == ~used_dead

Init ==
    /\ connection = 0 /\ wire_at = "disconnected"
    /\ main_queue = <<>> /\ connecting = "no"
    /\ EditorModel = Null /\ bound_models = {} /\ with_end = {}
    /\ RdIsModelAlive = "unset"
    /\ viewing = "no" /\ GameControl = Null /\ events = 0
    /\ firing = NotFiring /\ used_dead = FALSE

-----------------------------------------------------------------------------
(* The wire's thread sets `connected', which is viewed.                    *)

Connect ==
    /\ Defined
    /\ wire_at = "disconnected" /\ connection < MaxConnections
    /\ connection' = connection + 1
    /\ wire_at' = "connected"
    /\ Queue(Task("connect", connection + 1))
    /\ UNCHANGED <<connecting, EditorModel, bound_models, with_end, RdIsModelAlive, viewing,
                   GameControl, events, firing, used_dead>>

\* The lifetime of a connection refuses actions as soon as it is being
\* terminated, ...
Terminated(c) == c < connection \/ wire_at # "connected"

Disconnect ==
    /\ Defined
    /\ wire_at = "connected"
    /\ wire_at' = "terminating"
    /\ UNCHANGED <<connection, main_queue, connecting, EditorModel, bound_models, with_end,
                   RdIsModelAlive, viewing, GameControl, events, firing, used_dead>>

\* ... runs the one that was added last, ...
QueueEnd ==
    /\ Defined
    /\ wire_at = "terminating"
    /\ wire_at' = "unbinding"
    /\ IF connection \in with_end THEN Queue(Task("end", connection)) ELSE UNCHANGED main_queue
    /\ UNCHANGED <<connection, connecting, EditorModel, bound_models, with_end, RdIsModelAlive,
                   viewing, GameControl, events, firing, used_dead>>

\* ... and unbinds the model, whoever uses it.
Unbind ==
    /\ Defined
    /\ wire_at = "unbinding"
    /\ wire_at' = "disconnected"
    /\ bound_models' = bound_models \ {connection}
    /\ UNCHANGED <<connection, main_queue, connecting, EditorModel, with_end, RdIsModelAlive,
                   viewing, GameControl, events, firing, used_dead>>

-----------------------------------------------------------------------------
(* The scheduler's thread.                                                 *)

NextTask(what) ==
    /\ Defined /\ connecting = "no"
    /\ main_queue # <<>> /\ Head(main_queue).do = what
    /\ main_queue' = Tail(main_queue)

\* The lock, a new model in the place of the old one, and connect, which
\* throws when it is too late to bind: the scheduler logs that.
ConnectModel ==
    /\ NextTask("connect") /\ Unlocked
    /\ LET c == Head(main_queue).of IN
       /\ EditorModel' = c
       /\ IF Terminated(c) THEN UNCHANGED <<bound_models, connecting>>
          ELSE bound_models' = bound_models \cup {c} /\ connecting' = "adding"
    /\ UNCHANGED <<connection, wire_at, with_end, RdIsModelAlive, viewing, GameControl,
                   events, firing, used_dead>>

\* Mistake: the action is added without a look at whether it will ever run.
add_end_unseen ==
    /\ with_end' = with_end \cup {EditorModel}
    /\ connecting' = "setting"

\* add_action throws, and the rest of the task is not run.
add_end ==
    IF Terminated(EditorModel) THEN connecting' = "no" /\ UNCHANGED with_end
    ELSE with_end' = with_end \cup {EditorModel} /\ connecting' = "setting"

AddEnd ==
    /\ Defined /\ connecting = "adding"
    /\ add_end
    /\ UNCHANGED <<connection, wire_at, main_queue, EditorModel, bound_models, RdIsModelAlive,
                   viewing, GameControl, events, firing, used_dead>>

\* A change ends the lifetime of the view, which resets the control; a handler
\* makes one for a model.  What the control does to the model when it is made,
\* or reset by this thread, it does at once.
set(alive) ==
    /\ RdIsModelAlive' = alive
    /\ GameControl' = IF alive = RdIsModelAlive THEN GameControl
                      ELSE IF viewing = "yes" /\ alive = "true" THEN EditorModel
                      ELSE Null

SetAlive ==
    /\ Defined /\ connecting = "setting"
    /\ set("true")
    /\ connecting' = "no"
    /\ UNCHANGED <<connection, wire_at, main_queue, EditorModel, bound_models, with_end,
                   viewing, events, firing, used_dead>>

EndModel ==
    /\ NextTask("end") /\ Unlocked
    /\ set("false")
    /\ UNCHANGED <<connection, wire_at, connecting, EditorModel, bound_models, with_end,
                   viewing, events, firing, used_dead>>

\* Handler of a model that is there, and of every later one.
RunView ==
    /\ NextTask("view")
    /\ IF viewing = "queued"
       THEN viewing' = "yes" /\ GameControl' = IF RdIsModelAlive = "true" THEN EditorModel ELSE Null
       ELSE UNCHANGED <<viewing, GameControl>>
    /\ UNCHANGED <<connection, wire_at, connecting, EditorModel, bound_models, with_end,
                   RdIsModelAlive, events, firing, used_dead>>

\* The action was queued with a pointer to its control.
RunAction ==
    /\ NextTask("action")
    /\ used_dead' = (Head(main_queue).of # GameControl)
    /\ UNCHANGED <<connection, wire_at, connecting, EditorModel, bound_models, with_end,
                   RdIsModelAlive, viewing, GameControl, events, firing>>

-----------------------------------------------------------------------------
(* The game thread.                                                        *)

ViewModel ==
    /\ Defined /\ viewing = "no"
    /\ viewing' = "queued"
    /\ Queue(Task("view", Null))
    /\ UNCHANGED <<connection, wire_at, connecting, EditorModel, bound_models, with_end,
                   RdIsModelAlive, GameControl, events, firing, used_dead>>

\* A delegate that the control has subscribed to an event of the editor.
ScheduleModelAction ==
    /\ Defined /\ GameControl # Null /\ events < MaxEvents
    /\ events' = events + 1
    /\ Queue(Task("action", GameControl))
    /\ UNCHANGED <<connection, wire_at, connecting, EditorModel, bound_models, with_end,
                   RdIsModelAlive, viewing, GameControl, firing, used_dead>>

\* The shutdown of the game control ends its view on this thread: the last
\* action of the control is queued, and the control is gone when it runs.
ShutdownControl ==
    /\ Defined /\ viewing \in {"queued", "yes"}
    /\ viewing' = "over"
    /\ IF GameControl = Null THEN UNCHANGED main_queue ELSE Queue(Task("action", GameControl))
    /\ GameControl' = Null
    /\ UNCHANGED <<connection, wire_at, connecting, EditorModel, bound_models, with_end,
                   RdIsModelAlive, events, firing, used_dead>>

-----------------------------------------------------------------------------
(* The thread of the log fires the asynchronous signal of a line.          *)

FireAsyncAction ==
    /\ Defined /\ Unlocked /\ RdIsModelAlive = "true"
    /\ firing' = [of |-> EditorModel, at |-> "fire"]
    /\ UNCHANGED <<connection, wire_at, main_queue, connecting, EditorModel, bound_models,
                   with_end, RdIsModelAlive, viewing, GameControl, events, used_dead>>

\* Nothing is sent through a model that is not bound, and one that is may be
\* unbound before it has been sent.
Fire ==
    /\ Defined /\ firing.at = "fire"
    /\ firing' = IF firing.of \in bound_models THEN [firing EXCEPT !.at = "send"] ELSE NotFiring
    /\ UNCHANGED <<connection, wire_at, main_queue, connecting, EditorModel, bound_models,
                   with_end, RdIsModelAlive, viewing, GameControl, events, used_dead>>

Send ==
    /\ Defined /\ firing.at = "send"
    /\ used_dead' = (firing.of \notin bound_models)
    /\ firing' = NotFiring
    /\ UNCHANGED <<connection, wire_at, main_queue, connecting, EditorModel, bound_models,
                   with_end, RdIsModelAlive, viewing, GameControl, events>>

Next ==
    \/ Connect \/ Disconnect \/ QueueEnd \/ Unbind
    \/ ConnectModel \/ AddEnd \/ SetAlive \/ EndModel \/ RunView \/ RunAction
    \/ ViewModel \/ ScheduleModelAction \/ ShutdownControl
    \/ FireAsyncAction \/ Fire \/ Send

Spec == Init /\ [][Next]_vars

-----------------------------------------------------------------------------
\* A model is replaced when nobody uses it: the log's thread fires on the
\* current one, the control is the one of the current one, and a model is alive
\* only if the end of its connection is going to be heard of, or has been.
ReplacedUnused ==
    /\ firing.of # Null => firing.of = EditorModel
    /\ GameControl # Null => GameControl = EditorModel /\ RdIsModelAlive = "true"
    /\ RdIsModelAlive = "true" => EditorModel \in with_end

\* When the scheduler has nothing to do there is a model, and a control, exactly
\* if the wire is connected, and it is the one of this connection: whatever
\* connections have come and gone while their tasks were waiting.
AliveFollowsConnection ==
    (Defined /\ main_queue = <<>> /\ connecting = "no" /\ wire_at \in {"connected", "disconnected"}) =>
        /\ RdIsModelAlive = "true" <=> wire_at = "connected"
        /\ wire_at = "connected" => EditorModel = connection
        /\ viewing = "yes" => GameControl = IF wire_at = "connected" THEN connection ELSE Null
=============================================================================
