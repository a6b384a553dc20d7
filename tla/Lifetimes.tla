------------------------------ MODULE Lifetimes ------------------------------
(***************************************************************************)
(* Lifetimes: the lists of actions to run when something ends, shared by   *)
(* the threads that add to them, remove from them and terminate them; the  *)
(* definitions nested in a parent; and the sequential lifetimes with which *)
(* a property is viewed, one for each of its values.                       *)
(*                                                                         *)
(* A thread has a stack of frames: an action run by a termination may      *)
(* terminate another lifetime.  What happens under actions_lock is one     *)
(* step.  The map of actions is ordered by insertion, which is the order   *)
(* of their ids: a set of ids stands for it.                               *)
(*                                                                         *)
(* Lifetime 1 is the one a property is viewed in, made with its            *)
(* SequentialLifetimes; 0 stands for the eternal one.                      *)
(***************************************************************************)
EXTENDS Integers, Sequences

CONSTANTS
    Threads,
    Firer,          \* the thread that fires the property viewed
    MaxLifetimes,   \* bound on the lifetimes made
    MaxAdds         \* bound on the actions users add and the brackets they make

ASSUME LifetimesAssumption ==
    /\ Firer \in Threads
    /\ MaxLifetimes \in Nat \ {0}
    /\ MaxAdds \in Nat

VARIABLES
    made,               \* how many lifetimes have been made
    terminated,
    action_id_in_map,
    actions,            \* the ids in the map
    what,               \* the action of each id ever in the map
    left,               \* moved out of the map by terminate, and not yet run
    ran,                \* history: the ids run, in order
    removed,            \* history: the ids taken out of the map before that
    torn,               \* the lifetimes whose map two threads met in
    current_def,        \* of the sequential lifetimes
    handed,             \* history: the lifetimes given to the handler of view
    adds,
    stack

maps == <<action_id_in_map, actions, what, removed, torn>>
runs == <<terminated, left, ran>>
view == <<current_def, handed>>
vars == <<made, maps, runs, view, adds, stack>>

Lifetimes == 1 .. MaxLifetimes
Viewed == 1
Eternal == 0
Made == 1 .. made

\* What an action does: `user' is any that touches no lifetime.
Do(what_, of, id) == [do |-> what_, of |-> of, id |-> id]
User == Do("user", 0, 0)

\* Where a thread is in a call: of which lifetime, and with what.
At(where, of, with, id) == [at |-> where, of |-> of, with |-> with, id |-> id]

Idle(t) == stack[t] = <<>>
Top(t) == Head(stack[t])
Is(t, where) == ~Idle(t) /\ Top(t).at = where

Goto(t, frame) == stack' = [stack EXCEPT ![t] = <<frame>> \o Tail(@)]
Call(t, frame) == stack' = [stack EXCEPT ![t] = <<frame>> \o @]
Return(t) == stack' = [stack EXCEPT ![t] = Tail(@)]

Init ==
    /\ made = 1
    /\ terminated = [l \in Lifetimes |-> FALSE]
    /\ action_id_in_map = [l \in Lifetimes |-> IF l = Viewed THEN 1 ELSE 0]
    /\ actions = [l \in Lifetimes |-> IF l = Viewed THEN {0} ELSE {}]
    /\ what = [l \in Lifetimes |-> IF l = Viewed THEN <<Do("reset", 0, 0)>> ELSE <<>>]
    /\ left = [l \in Lifetimes |-> {}]
    /\ ran = [l \in Lifetimes |-> <<>>]
    /\ removed = [l \in Lifetimes |-> {}]
    /\ torn = {}
    /\ current_def = Eternal
    /\ handed = {}
    /\ adds = 0
    /\ stack = [t \in Threads |-> <<>>]

-----------------------------------------------------------------------------
(* The map of actions, under the lock.                                     *)

\* A thread that erases from a map without its lock is in the middle of it
\* when t touches the map: what is left of the map is undefined.
Touch(t, l) ==
    torn' = IF \E u \in Threads \ {t} : Is(u, "erasing") /\ Top(u).of = l
            THEN torn \cup {l} ELSE torn

\* Mistake: a lifetime accepts actions after its termination.
accepts_always(l) == TRUE

\* add_action throws for a lifetime that is terminated.
accepts(l) == ~terminated[l]

add_action(t, l, action) ==
    /\ actions' = [actions EXCEPT ![l] = @ \cup {action_id_in_map[l]}]
    /\ what' = [what EXCEPT ![l] = Append(@, action)]
    /\ action_id_in_map' = [action_id_in_map EXCEPT ![l] = @ + 1]
    /\ Touch(t, l)
    /\ UNCHANGED removed

AddAction(t, l) ==
    /\ Idle(t) /\ l \in Made /\ adds < MaxAdds
    /\ accepts(l)
    /\ add_action(t, l, User)
    /\ adds' = adds + 1
    /\ UNCHANGED <<made, runs, view, stack>>

\* An id that terminate has moved out is not found, and its action will run.
RemoveAction(t, l, id) ==
    /\ Idle(t) /\ l \in Made
    /\ id < action_id_in_map[l] /\ what[l][id + 1] = User
    /\ id \notin removed[l]
    /\ actions' = [actions EXCEPT ![l] = @ \ {id}]
    /\ removed' = [removed EXCEPT ![l] = @ \cup ({id} \cap actions[l])]
    /\ Touch(t, l)
    /\ UNCHANGED <<made, action_id_in_map, what, runs, view, adds, stack>>

\* bracket looks whether the lifetime is terminated, runs the opening, and
\* adds the closing, which may throw by then: that opening has no closing.
BracketOpen(t, l) ==
    /\ Idle(t) /\ l \in Made /\ adds < MaxAdds
    /\ ~terminated[l]
    /\ Call(t, At("opened", l, 0, 0))
    /\ adds' = adds + 1
    /\ UNCHANGED <<made, maps, runs, view>>

BracketClose(t) ==
    /\ Is(t, "opened")
    /\ \/ accepts(Top(t).of) /\ add_action(t, Top(t).of, User)
       \/ ~accepts(Top(t).of) /\ UNCHANGED maps
    /\ Return(t)
    /\ UNCHANGED <<made, runs, view, adds>>

-----------------------------------------------------------------------------
(* terminate.                                                              *)

\* terminated is set before the lock is taken.
Terminate(t, l) ==
    /\ Idle(t) /\ l \in Made
    /\ terminated' = [terminated EXCEPT ![l] = TRUE]
    /\ Call(t, At("terminating", l, 0, 0))
    /\ UNCHANGED <<made, maps, left, ran, view, adds>>

\* Mistake: the map is copied and stays as it is.
take_copy(t, l) ==
    /\ left' = [left EXCEPT ![l] = @ \cup actions[l]]
    /\ UNCHANGED maps

\* The map moves into the thread's copy and is empty from then on, so of two
\* threads that terminate the same lifetime one finds nothing to run.
take_actions(t, l) ==
    /\ left' = [left EXCEPT ![l] = @ \cup actions[l]]
    /\ actions' = [actions EXCEPT ![l] = {}]
    /\ Touch(t, l)
    /\ UNCHANGED <<action_id_in_map, what, removed>>

Take(t) ==
    /\ Is(t, "terminating")
    /\ take_actions(t, Top(t).of)
    /\ IF actions[Top(t).of] = {} THEN Return(t)
       ELSE Goto(t, At("running", Top(t).of, 0, 0))
    /\ UNCHANGED <<made, terminated, ran, view, adds>>

\* They run from the last added to the first.
next_to_run(l) == CHOOSE i \in left[l] : \A j \in left[l] : i >= j

\* Mistake: the termination of a nested lifetime is not called.
enter_nothing(t, action) == UNCHANGED <<terminated, stack>>

\* What the thread does in the action: terminate() of a nested lifetime sets
\* its flag, the others start with a step of their own.
enter(t, action) ==
    \/ /\ action.do = "user"
       /\ UNCHANGED <<terminated, stack>>
    \/ /\ action.do = "terminate"
       /\ terminated' = [terminated EXCEPT ![action.of] = TRUE]
       /\ Call(t, At("terminating", action.of, 0, 0))
    \/ /\ action.do = "unlink"
       /\ Call(t, At("erasing", action.of, 0, action.id))
       /\ UNCHANGED terminated
    \/ /\ action.do = "reset"
       /\ Call(t, At("setting", Eternal, 0, 0))
       /\ UNCHANGED terminated

RunAction(t) ==
    /\ Is(t, "running")
    /\ LET l == Top(t).of  i == next_to_run(l) IN
       /\ left[l] # {}
       /\ left' = [left EXCEPT ![l] = @ \ {i}]
       /\ ran' = [ran EXCEPT ![l] = Append(@, i)]
       /\ enter(t, what[l][i + 1])
    /\ UNCHANGED <<made, maps, view, adds>>

Terminated(t) ==
    /\ Is(t, "running") /\ left[Top(t).of] = {}
    /\ Return(t)
    /\ UNCHANGED <<made, maps, runs, view, adds>>

\* The action a nested lifetime has to take itself out of its parent's map
\* does so without the lock: nothing keeps another thread out meanwhile.
Erase(t) ==
    /\ Is(t, "erasing")
    /\ LET p == Top(t).of  kept == actions[p] \ {Top(t).id} IN
       /\ \E rest \in IF p \in torn THEN SUBSET kept ELSE {kept} :
             actions' = [actions EXCEPT ![p] = rest]
       /\ removed' = [removed EXCEPT ![p] = @ \cup ({Top(t).id} \cap actions[p])]
       /\ Touch(t, p)
    /\ Return(t)
    /\ UNCHANGED <<made, action_id_in_map, what, runs, view, adds>>

-----------------------------------------------------------------------------
(* Nested definitions.                                                     *)

\* LifetimeDefinition(parent) makes a lifetime and attaches it: the parent
\* gets an action that terminates it, if it accepts one.
attach(t, p) ==
    /\ made < MaxLifetimes
    /\ made' = made + 1
    /\ accepts(p)
    /\ add_action(t, p, Do("terminate", made + 1, 0))

Attaching(p) == At("attaching", made + 1, p, action_id_in_map[p])

NewNested(t, p) ==
    /\ Idle(t) /\ p \in Made
    /\ attach(t, p)
    /\ Call(t, Attaching(p))
    /\ UNCHANGED <<runs, view, adds>>

\* The nested lifetime gets one that takes the first out of the parent.  The
\* parent may have terminated it by now: then the constructor throws, and so
\* does next(), to whoever fires the property.
Link(t) ==
    /\ Is(t, "attaching")
    /\ LET l == Top(t).of IN
       \/ accepts(l) /\ add_action(t, l, Do("unlink", Top(t).with, Top(t).id)) /\ Return(t)
       \/ ~accepts(l) /\ stack' = [stack EXCEPT ![t] = <<>>] /\ UNCHANGED maps
    /\ UNCHANGED <<made, runs, view, adds>>

-----------------------------------------------------------------------------
(* The sequential lifetimes of a property that is viewed: view's handlers. *)

\* Firing `before_change' terminates the lifetime of the old value.
FireBefore(t) ==
    /\ t = Firer /\ Idle(t) /\ made < MaxLifetimes
    /\ ~terminated[Viewed]
    /\ stack' = [stack EXCEPT ![t] = <<At("setting", Eternal, 0, 0), At("firing", 0, 0, 0)>>]
    /\ UNCHANGED <<made, maps, runs, view, adds>>

\* Firing `change' makes one for the new value, nested in the one of view,
\* which may have ended meanwhile.
FireAfter(t) ==
    /\ Is(t, "firing")
    /\ \/ /\ attach(t, Viewed)
          /\ stack' = [stack EXCEPT ![t] = <<Attaching(Viewed), At("making", made + 1, 0, 0)>>]
       \/ /\ ~accepts(Viewed) \/ made = MaxLifetimes
          /\ Return(t)
          /\ UNCHANGED <<made, maps>>
    /\ UNCHANGED <<runs, view, adds>>

next(t) ==
    /\ Is(t, "making")
    /\ stack' = [stack EXCEPT ![t] = <<At("setting", Top(t).of, 0, 0),
                                       At("handing", Top(t).of, 0, 0)>>]
    /\ UNCHANGED <<made, maps, runs, view, adds>>

\* set_current_lifetime reads the current definition, ...
ReadCurrent(t) ==
    /\ Is(t, "setting")
    /\ Goto(t, At("assigning", Top(t).of, current_def, 0))
    /\ UNCHANGED <<made, maps, runs, view, adds>>

\* Mistake: the previous lifetime is not terminated.
leave(t, prev) == Return(t) /\ UNCHANGED terminated

\* Nothing happens to the eternal one.
terminate(t, l) ==
    IF l = Eternal THEN Return(t) /\ UNCHANGED terminated
    ELSE /\ terminated' = [terminated EXCEPT ![l] = TRUE]
         /\ Goto(t, At("terminating", l, 0, 0))

\* ... replaces it and terminates it: the wire's thread and the one that
\* ends the view may both be here.
SetCurrent(t) ==
    /\ Is(t, "assigning")
    /\ current_def' = Top(t).of
    /\ terminate(t, Top(t).with)
    /\ UNCHANGED <<made, maps, left, ran, handed, adds>>

\* The handler is given the lifetime of what is current by now: the eternal
\* one, when the view has just been ended.  A definition that is neither
\* current nor in the hands of another thread dies here, and its destructor
\* terminates it.
Hand(t) ==
    /\ Is(t, "handing")
    /\ handed' = handed \cup {current_def}
    /\ IF \/ current_def = Top(t).of \/ terminated[Top(t).of]
          \/ \E u \in Threads : Is(u, "assigning") /\ Top(u).with = Top(t).of
       THEN Return(t) /\ UNCHANGED terminated
       ELSE terminate(t, Top(t).of)
    /\ UNCHANGED <<made, maps, left, ran, current_def, adds>>

Begin(t) ==
    \/ \E l \in Lifetimes : AddAction(t, l) \/ BracketOpen(t, l) \/ Terminate(t, l) \/ NewNested(t, l)
    \/ \E l \in Lifetimes, id \in 0 .. MaxAdds + MaxLifetimes : RemoveAction(t, l, id)
    \/ FireBefore(t)

Step(t) ==
    \/ BracketClose(t) \/ Take(t) \/ RunAction(t) \/ Terminated(t) \/ Erase(t) \/ Link(t)
    \/ FireAfter(t) \/ next(t) \/ ReadCurrent(t) \/ SetCurrent(t) \/ Hand(t)

Next == \E t \in Threads : Begin(t) \/ Step(t)

Spec == Init /\ [][Next]_vars

-----------------------------------------------------------------------------
(* Properties.  Nothing is said of a map in which two threads have met.    *)

Ids(l) == 0 .. action_id_in_map[l] - 1
RanIds(l) == {ran[l][k] : k \in 1 .. Len(ran[l])}

InTermination(l) ==
    \E t \in Threads : \E k \in 1 .. Len(stack[t]) :
        stack[t][k].at \in {"terminating", "running"} /\ stack[t][k].of = l

Ended(l) == terminated[l] /\ ~InTermination(l)

TypeOK ==
    /\ made \in 1 .. MaxLifetimes
    /\ terminated \in [Lifetimes -> BOOLEAN]
    /\ action_id_in_map \in [Lifetimes -> Nat]
    /\ \A l \in Lifetimes :
        /\ Len(what[l]) = action_id_in_map[l]
        /\ actions[l] \subseteq Ids(l) /\ left[l] \subseteq Ids(l)
        /\ RanIds(l) \subseteq Ids(l) /\ removed[l] \subseteq Ids(l)
    /\ torn \subseteq Lifetimes
    /\ current_def \in {Eternal} \cup Lifetimes /\ handed \subseteq {Eternal} \cup Lifetimes
    /\ adds \in 0 .. MaxAdds

\* Every action that was accepted either runs or is removed, and not both,
\* once no thread is in the termination any more: one added while another
\* thread terminates is either refused or run.
EachRunsOrIsRemoved ==
    \A l \in Made \ torn :
        /\ RanIds(l) \cap removed[l] = {}
        /\ Ended(l) => RanIds(l) \cup removed[l] = Ids(l)

\* No action runs twice or before one that was added later, however many
\* threads terminate the lifetime.
RunInReverse ==
    \A l \in Made \ torn : \A i, j \in 1 .. Len(ran[l]) :
        i < j => ran[l][i] > ran[l][j]

\* When a parent's termination is over, every lifetime that was attached to
\* it has been terminated, whoever was making or terminating it meanwhile.
NestedEndWithParent ==
    \A p \in Made \ torn : Ended(p) =>
        \A i \in Ids(p) : what[p][i + 1].do = "terminate" => terminated[what[p][i + 1].of]

\* Of the lifetimes given to the handler of view, one for each value of the
\* property, at most one is alive; and the eternal one, in which a
\* subscription is never taken back, is given only when the view has ended.
OneValueAlive ==
    /\ \A l, k \in handed \ {Eternal} : terminated[l] \/ terminated[k] \/ l = k
    /\ Eternal \in handed => terminated[Viewed]
=============================================================================
