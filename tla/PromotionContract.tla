-------------------------- MODULE PromotionContract --------------------------
(***************************************************************************)
(* What promotion promises of a hit, stated without the channels, senders  *)
(* and tasks that make it so.  A client takes chunks.  Only when it has    *)
(* taken all of them, or none, is the hit closed; else it is abandoned.    *)
(* Nothing is copied before that, and nothing after the closing of the hit *)
(* has succeeded; after a closing that failed, or none, the tiers filled   *)
(* by a task may still get theirs.  Each tier gets at most one copy: what  *)
(* was taken, in order, of which a tier filled by a task may lack only     *)
(* what does not fit its channel.  A copy of an abandoned hit is the       *)
(* beginning that was taken.                                               *)
(***************************************************************************)
EXTENDS Naturals

CONSTANTS
    Length,    \* number of chunks of the body
    Capacity,  \* of a channel
    None,
    Tiers,
    Slots      \* the tiers filled by a task

VARIABLES
    promote,  \* tiers the hit is promoted to
    phase,    \* of the hit
    taken,    \* number of chunks the client's handler has taken
    copy      \* tier -> what it got, or None

vars == <<promote, phase, taken, copy>>

(* Some of the first n chunks, in order.                                   *)
Parts(n) ==
    {b \in UNION {[1 .. m -> 1 .. n] : m \in 0 .. n} :
       \A i, j \in DOMAIN b : i < j => b[i] < b[j]}

(* The chunk in hand when a hit is abandoned may not have been sent.       *)
Fits == {i \in 1 .. taken : i <= Capacity /\ (phase = "dropped" => i # taken)}

Init ==
    /\ promote \in SUBSET Tiers
    /\ phase = "reading"
    /\ taken = 0
    /\ copy = [t \in Tiers |-> None]

Take ==
    /\ phase = "reading"
    /\ taken < Length
    /\ taken' = taken + 1
    /\ UNCHANGED <<promote, phase, copy>>

Close ==
    /\ phase = "reading"
    /\ taken \in {0, Length}
    /\ phase' = "finishing"
    /\ UNCHANGED <<promote, taken, copy>>

CloseFails ==
    /\ phase = "reading"
    /\ taken \in {0, Length}
    /\ phase' = "failed"
    /\ UNCHANGED <<promote, taken, copy>>

Abandon ==
    /\ phase \in {"reading", "finishing"}
    /\ phase' = "dropped"
    /\ UNCHANGED <<promote, taken, copy>>

Gets(t, b) ==
    /\ t \in promote
    /\ copy[t] = None
    /\ copy' = [copy EXCEPT ![t] = b]

(* A task ends while the hit is being closed, or some time after nobody    *)
(* waits for it any more.                                                  *)
Settle(s) ==
    /\ phase \in {"finishing", "failed", "dropped"}
    /\ \E b \in Parts(taken) :
         /\ \A i \in Fits : \E j \in DOMAIN b : b[j] = i
         /\ Gets(s, b)
    /\ UNCHANGED <<promote, phase, taken>>

(* The closing ends with the tier the handler has filled itself.           *)
Return ==
    /\ phase = "finishing"
    /\ phase' = "returned"
    /\ \/ \E t \in Tiers \ Slots, b \in Parts(taken) : Gets(t, b)
       \/ UNCHANGED copy
    /\ UNCHANGED <<promote, taken>>

Next == \/ Take \/ Close \/ CloseFails \/ Abandon \/ Return
        \/ \E s \in Slots : Settle(s)

Spec == Init /\ [][Next]_vars
=============================================================================
