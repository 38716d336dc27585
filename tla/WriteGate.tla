----------------------------- MODULE WriteGate ------------------------------
(***************************************************************************)
(* What the edit session promises, whatever its review protocol: a file is *)
(* only replaced by what the open review granted, once nothing the review  *)
(* must answer is left open.  Items are whatever the implementation        *)
(* identifies a proposed change by.                                        *)
(***************************************************************************)
EXTENDS Naturals

CONSTANTS
    File,       \* the files the gate guards
    NoFile      \* no review is open

VARIABLES
    drawn,      \* how many reviews were ever begun
    target,     \* the file the open review writes, or NoFile
    waiting,    \* items of the open review still to be answered
    granted,    \* items of the open review that may be written
    published   \* file -> the review it was written by and what that granted

gateVars == <<drawn, target, waiting, granted, published>>

Unpublished == [review |-> 0, granted |-> {}]

Init ==
    /\ drawn = 0
    /\ target = NoFile
    /\ waiting = {}
    /\ granted = {}
    /\ published = [f \in File |-> Unpublished]

\* The open review, if any, is put away and a new one is drawn.
Retire ==
    /\ drawn' = drawn + 1
    /\ target' = NoFile
    /\ waiting' = {}
    /\ granted' = {}
    /\ UNCHANGED published

\* The review drawn last becomes the open one.
Begin ==
    /\ target = NoFile
    /\ target' \in File
    /\ UNCHANGED <<drawn, published>>

AtMostOne(S) == \A x, y \in S : x = y

\* One answer settles at most one item and grants at most one; a grant stays.
Answer ==
    /\ target # NoFile
    /\ waiting' \subseteq waiting
    /\ AtMostOne(waiting \ waiting')
    /\ granted \subseteq granted'
    /\ AtMostOne(granted' \ granted)
    /\ UNCHANGED <<drawn, target, published>>

Publish ==
    /\ target # NoFile
    /\ waiting = {}
    /\ granted # {}
    /\ published' = [published EXCEPT ![target] = [review |-> drawn, granted |-> granted]]
    /\ UNCHANGED <<drawn, target, waiting, granted>>

Next == Retire \/ Begin \/ Answer \/ Publish

Spec == Init /\ [][Next]_gateVars
=============================================================================
