----------------------------- MODULE MCFeedback -----------------------------
EXTENDS Feedback, TLC

Plain(s, pr, commit) == [status |-> s, pr |-> pr, commit |-> commit]

\* What the skills ask for: the steps of a patch, in any order.
Updates ==
  {Plain("patch_created", FALSE, ""), Plain("patch_created", TRUE, "branch"),
   Plain("", TRUE, "hash"), Plain("monitoring", FALSE, ""), Plain("resolved", FALSE, ""),
   Plain("open", FALSE, "")}

Symmetry == Permutations(Agents) \cup Permutations(Findings)
=============================================================================
