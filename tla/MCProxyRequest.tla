--------------------------- MODULE MCProxyRequest ---------------------------
(* Responses and requests for the runs of ProxyRequest.                    *)
EXTENDS ProxyRequest, TLC

CONSTANTS q1, q2, r1, r2

Two   == {q1, q2}
Alike == Permutations(Two)

Both    == {r1, r2}
Lengths == [r \in Both |-> IF r = r1 THEN 2 ELSE 1]
Tags    == [r \in Both |-> r]

(* r2 is the newer content with the older date: a rolled-back deployment.  *)
Dates == [r \in Both |-> IF r = r1 THEN 1 ELSE 0]

Kind(method, no_cache, inm, ims) ==
    [method |-> method, no_cache |-> no_cache, if_none_match |-> inm,
     if_modified_since |-> ims]

Plain == Kind("GET", FALSE, None, None)

(* By its date r2 matches HEAD and r1 does not; the last GET is matched by *)
(* r1 with its tag, and by r2 with its date only.                          *)
AllKinds ==
    {Plain, Kind("POST", FALSE, None, None),
     Kind("HEAD", FALSE, None, Dates[r2]), Kind("GET", TRUE, None, None),
     Kind("GET", FALSE, {Tags[r1]}, Dates[r2])}

(* The default policy.                                                     *)
PromoteAll == {p \in Tiers \X Caches : p[1] > p[2]}

(* r1 is too large for L0.                                                 *)
Limits == [i \in Caches |-> IF i = 0 THEN 1 ELSE 2]
=============================================================================
