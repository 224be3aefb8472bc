------------------------------ MODULE KeyQueue ------------------------------
(***************************************************************************)
(* What the keyboard driver promises its callers, without its ring buffer: *)
(* a bounded first-in first-out queue of keys.  A key that arrives while   *)
(* the queue is full is refused and no other key ever is; kb_getkey takes  *)
(* the oldest key; kb_getchar takes the oldest key that carries a          *)
(* character and throws away the older ones that carry none; both answer   *)
(* NoKey exactly when the queue is empty at some moment of the call.       *)
(***************************************************************************)
EXTENDS Naturals, Sequences

CONSTANTS
    Keys,       \* the keys that can be queued
    CharKeys,   \* those of them that carry a character
    Capacity,   \* how many keys the queue holds
    NoKey       \* the answer of a call that found the queue empty

VARIABLES
    queue,      \* the unconsumed keys, oldest first
    outcome,    \* what happened to the last key since a key was last taken
    request,    \* the call in progress: "none", "key" or "char"
    answer      \* what the last completed call returned

vars == <<queue, outcome, request, answer>>

Init ==
    /\ queue = <<>>
    /\ outcome = "none"
    /\ request = "none"
    /\ answer = NoKey

\* Some key arrives and there is room: it is the last one queued.
Offer ==
    /\ Len(queue) < Capacity
    /\ Len(queue') = Len(queue) + 1
    /\ queue'[Len(queue) + 1] \in Keys
    /\ queue' = Append(queue, queue'[Len(queue) + 1])
    /\ outcome' = "stored"
    /\ UNCHANGED <<request, answer>>

\* A key arrives and there is none: the new key is lost, not an old one.
Refuse ==
    /\ Len(queue) = Capacity
    /\ outcome' = "refused"
    /\ UNCHANGED <<queue, request, answer>>

Call(op) ==
    /\ request = "none"
    /\ request' = op
    /\ UNCHANGED <<queue, outcome, answer>>

\* The oldest key leaves the queue and is the answer.
Take ==
    /\ queue # <<>>
    /\ \/ request = "key"
       \/ request = "char" /\ Head(queue) \in CharKeys
    /\ queue' = Tail(queue)
    /\ outcome' = "none"
    /\ request' = "none"
    /\ answer' = Head(queue)

\* kb_getchar passes over a key without a character.
Skip ==
    /\ request = "char"
    /\ queue # <<>>
    /\ Head(queue) \notin CharKeys
    /\ queue' = Tail(queue)
    /\ outcome' = "none"
    /\ UNCHANGED <<request, answer>>

ReportEmpty ==
    /\ request # "none"
    /\ queue = <<>>
    /\ request' = "none"
    /\ answer' = NoKey
    /\ UNCHANGED <<queue, outcome>>

Next ==
    \/ Offer
    \/ Refuse
    \/ \E op \in {"key", "char"} : Call(op)
    \/ Take
    \/ Skip
    \/ ReportEmpty

Spec == Init /\ [][Next]_vars
=============================================================================
