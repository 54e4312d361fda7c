----------------------------- MODULE AtomicFile -----------------------------
(***************************************************************************)
(* What the repository's "atomic" text writers promise: a file holds       *)
(* nothing, or the whole text of one finished write, and a write replaces  *)
(* it in a single step.                                                    *)
(***************************************************************************)
CONSTANTS File,     \* the names that are written
          Text,     \* the texts a write can install
          Absent    \* the content of a file that does not exist

VARIABLE content    \* content[f]: what a reader of f sees

Init == content = [f \in File |-> Absent]

Write(f, t) == content' = [content EXCEPT ![f] = t]

Next == \E f \in File, t \in Text : Write(f, t)

Spec == Init /\ [][Next]_content
=============================================================================
