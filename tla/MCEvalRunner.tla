---------------------------- MODULE MCEvalRunner ----------------------------
\* Three cases in two slots.
EXTENDS EvalRunner
=============================================================================
