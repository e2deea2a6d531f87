-------------------------- MODULE MCReviewPipeline --------------------------
(* Three experts, and diffs of three chunks, with a file in each or with   *)
(* the hunks of one file spread over two.                                  *)
EXTENDS ReviewPipeline

CONSTANTS f1, f2, f3

MCTeam == 3

Layouts == {<<{f1}, {f2}, {f3}>>, <<{f1}, {f1}, {f2}>>}

\* An expert with a file-pattern trigger wants f1 only.
Wanted == {{f1, f2, f3}, {f1}}

\* The content patterns of the last expert occur in the first chunk, or in
\* none.
Matched == {[e \in 1..MCTeam |-> {}], [e \in 1..MCTeam |-> IF e = MCTeam THEN {1} ELSE {}]}

MCPlans ==
  [chunks : Layouts, large : BOOLEAN, reviewers : 0..MCTeam,
   wants : [1..MCTeam -> Wanted], matches : Matched, quota : 0..2]

\* With two tokens per task: requests limited to one and to two, tokens to
\* one task and to less than one task, and no limit at all.
MCLimits == {[rpm |-> 1, tpm |-> 9], [rpm |-> 2, tpm |-> 9], [rpm |-> 2, tpm |-> 3],
             [rpm |-> 2, tpm |-> 1], [rpm |-> 0, tpm |-> 9]}
=============================================================================
