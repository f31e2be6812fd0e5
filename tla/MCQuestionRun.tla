---------------------------- MODULE MCQuestionRun ----------------------------
(***************************************************************************)
(* Small instances of QuestionRun for TLC.                                 *)
(***************************************************************************)
EXTENDS QuestionRun

CONSTANTS r0, r1, r2, k1, k2, f1, q1

\* The first request begins a conversation or continues r0's. The second is the
\* same request again, another one under its key, or another turn of r0's.
MCAsks ==
    {<<r1, k1, "Q", None>>, <<r1, k1, "AT", r0>>,
     <<r2, k1, "Q", None>>, <<r2, k1, "AT", r0>>, <<r2, k2, "Q", r0>>}
=============================================================================
