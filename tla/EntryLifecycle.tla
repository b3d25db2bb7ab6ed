--------------------------- MODULE EntryLifecycle ---------------------------
(***************************************************************************)
(* What the durable tier promises about the life of a cache entry, stated  *)
(* without the calls that make it so.  A key has one life after another.   *)
(* A life starts at version 0, its metadata never changes except together  *)
(* with its version, the version goes up by one at a time, and only the    *)
(* removal of the entry ends the life.                                     *)
(***************************************************************************)
EXTENDS Naturals

CONSTANTS Keys, Metas, None

VARIABLES
    entry,  \* key -> [version, meta] or None
    lives   \* key -> how many lives have ended

vars == <<entry, lives>>

Init ==
    /\ entry = [k \in Keys |-> None]
    /\ lives = [k \in Keys |-> 0]

Create(k) ==
    /\ entry[k] = None
    /\ \E m \in Metas :
         entry' = [entry EXCEPT ![k] = [version |-> 0, meta |-> m]]
    /\ UNCHANGED lives

Revise(k) ==
    /\ entry[k] # None
    /\ \E m \in Metas :
         entry' = [entry EXCEPT ![k] = [version |-> entry[k].version + 1,
                                        meta |-> m]]
    /\ UNCHANGED lives

Remove(k) ==
    /\ entry[k] # None
    /\ entry' = [entry EXCEPT ![k] = None]
    /\ lives' = [lives EXCEPT ![k] = @ + 1]

Next == \E k \in Keys : Create(k) \/ Revise(k) \/ Remove(k)

Spec == Init /\ [][Next]_vars
=============================================================================
