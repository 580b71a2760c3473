---------------------------- MODULE BoundedBuffer ----------------------------
(***************************************************************************)
(* What a queue between threads promises its callers: a closable first-in  *)
(* first-out buffer of at most Slots items.  A caller that cannot be       *)
(* served is pending; a pending caller is served when the buffer allows    *)
(* it, or fails because its time is over or the buffer was closed.         *)
(***************************************************************************)
EXTENDS Integers, Sequences

CONSTANTS Threads, Items, Slots, Timed

VARIABLES items,    \* what is buffered
          open,     \* the buffer serves its callers
          pending   \* what each thread is waiting to do

vars == <<items, open, pending>>

Init ==
    /\ items = <<>>
    /\ open = TRUE
    /\ pending = [t \in Threads |-> "none"]

Served(t) == pending' = [pending EXCEPT ![t] = "none"]

\* A put is served when there is room, also when the caller had to wait for it.
Put(t) ==
    /\ open
    /\ pending[t] \in {"none", "Insert"}
    /\ Len(items) < Slots
    /\ \E e \in Items : items' = Append(items, e)
    /\ Served(t)
    /\ UNCHANGED open

\* A take is served when there is an item.
Take(t) ==
    /\ open
    /\ pending[t] \in {"none", "Extract"}
    /\ items # <<>>
    /\ items' = Tail(items)
    /\ Served(t)
    /\ UNCHANGED open

\* Only who cannot be served has to wait.
Block(t) ==
    /\ open
    /\ pending[t] = "none"
    /\ \/ Len(items) = Slots /\ pending' = [pending EXCEPT ![t] = "Insert"]
       \/ items = <<>> /\ pending' = [pending EXCEPT ![t] = "Extract"]
    /\ UNCHANGED <<items, open>>

Fail(t) ==
    /\ pending[t] # "none"
    /\ t \in Timed \/ ~open
    /\ Served(t)
    /\ UNCHANGED <<items, open>>

Close == open /\ open' = FALSE /\ UNCHANGED <<items, pending>>

Clear == ~open /\ items' = <<>> /\ UNCHANGED <<open, pending>>

Next ==
    \/ \E t \in Threads : Put(t) \/ Take(t) \/ Block(t) \/ Fail(t)
    \/ Close
    \/ Clear

Spec == Init /\ [][Next]_vars
=============================================================================
