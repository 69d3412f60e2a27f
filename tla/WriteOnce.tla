----------------------------- MODULE WriteOnce -----------------------------
(***************************************************************************)
(* What every exporter of the repository promises of its output path: the  *)
(* first content published there stays, equal content is reused, and other *)
(* content is refused.                                                     *)
(***************************************************************************)
CONSTANTS Writers, Contents, Missing

VARIABLES
  stored,   \* the content at the path, or Missing
  asked,    \* what each writer was last asked to publish
  told      \* what it was told: "nothing", "created", "reused" or "refused"

vars == <<stored, asked, told>>

Init ==
  /\ stored \in Contents \cup {Missing}
  /\ asked \in [Writers -> Contents]
  /\ told = [w \in Writers |-> "nothing"]

Ask(w, c) ==
  /\ asked' = [asked EXCEPT ![w] = c]
  /\ told' = [told EXCEPT ![w] = "nothing"]
  /\ UNCHANGED stored

\* Whole content appears at once, and only where there was none.
Store(w) ==
  /\ stored = Missing /\ told[w] = "nothing"
  /\ stored' = asked[w]
  /\ UNCHANGED <<asked, told>>

Succeed(w) ==
  /\ told[w] = "nothing" /\ stored = asked[w]
  /\ told' \in {[told EXCEPT ![w] = answer] : answer \in {"created", "reused"}}
  /\ UNCHANGED <<stored, asked>>

Refuse(w) ==
  /\ told[w] = "nothing"
  /\ told' = [told EXCEPT ![w] = "refused"]
  /\ UNCHANGED <<stored, asked>>

Next ==
  \E w \in Writers : \/ \E c \in Contents : Ask(w, c)
                     \/ Store(w) \/ Succeed(w) \/ Refuse(w)

Spec == Init /\ [][Next]_vars
=============================================================================
