--------------------------- MODULE MCChangePlanner ---------------------------
(* Up to three candidates over a directory with one file in it and a file    *)
(* beside it.                                                                *)
EXTENDS ChangePlanner, TLC

CONSTANTS folder, inside, beside, unnamed

Paths == {folder, inside, beside}
Folders == (folder :> {}) @@ (inside :> {folder}) @@ (beside :> {})

Proposal(t, d, e, r, j) ==
  [targetPath |-> t, decision |-> d, evidence |-> e, read |-> r, justified |-> j]

\* Decisions that share their rules differ in one path only; every decision
\* meets every rule that looks at it.
Proposals ==
  {Proposal(t, d, e, TRUE, TRUE) :
     t \in {inside, beside, unnamed}, d \in {"create"}, e \in BOOLEAN}
  \cup
  {Proposal(beside, "keep", e, FALSE, TRUE) : e \in BOOLEAN}
  \cup
  {Proposal(inside, d, TRUE, r, j) :
     d \in {"modify", "delete"}, r \in BOOLEAN, j \in BOOLEAN}
  \cup
  {Proposal(inside, d, e, FALSE, TRUE) :
     d \in {"extend", "deprecate", "block"}, e \in BOOLEAN}

Figures == {Unset, 0, 1}

=============================================================================
