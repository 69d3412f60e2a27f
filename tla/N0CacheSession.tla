--------------------------- MODULE N0CacheSession ---------------------------
(***************************************************************************)
(* What the N0 commit protocol promises its caller, without messages: a    *)
(* cache of `applied` entries of which the client knows `known`.  Inside a *)
(* session the two agree.  The client leaves the session to commit, and    *)
(* comes back by learning of the new entry or by opening an empty cache.   *)
(***************************************************************************)
EXTENDS Naturals

VARIABLES inside, known, applied

vars == <<inside, known, applied>>

Init == inside = FALSE /\ known = 0 /\ applied = 0

Leave   == inside /\ inside' = FALSE /\ UNCHANGED <<known, applied>>

Apply   == /\ ~inside /\ applied = known
           /\ applied' = known + 1
           /\ UNCHANGED <<inside, known>>

Confirm == /\ ~inside /\ applied = known + 1
           /\ known' = applied
           /\ inside' = TRUE
           /\ UNCHANGED applied

\* A new, empty cache: entered at once (reset) or not (abort).
Renew   == known' = 0 /\ applied' = 0 /\ inside' \in BOOLEAN

Next == Leave \/ Apply \/ Confirm \/ Renew

Spec == Init /\ [][Next]_vars
=============================================================================
