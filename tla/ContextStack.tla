---------------------------- MODULE ContextStack ----------------------------
(***************************************************************************)
(* What the pool of cgo contexts promises to the Go runtime, seen from one *)
(* thread: contexts are handed out and given back in stack order, a call   *)
(* gets a slot no other call holds, and the only call that goes without a  *)
(* slot is one nested deeper than the pool is long.                        *)
(***************************************************************************)
EXTENDS Naturals, Sequences

CONSTANT PoolSize            \* cgo_contexts_length

VARIABLE held                \* the slots of the nested calls, oldest first;
                             \* 0 is a call that got no context (NULL)

Init == held = << >>

\* A C -> Go call asks for a context.
Acquire == held' = Append(held, IF Len(held) < PoolSize THEN Len(held) + 1 ELSE 0)

\* The newest call returns and its context, if it has one, is free again.
Release == /\ held # << >>
           /\ held' = SubSeq(held, 1, Len(held) - 1)

Next == Acquire \/ Release

Spec == Init /\ [][Next]_held
=============================================================================
