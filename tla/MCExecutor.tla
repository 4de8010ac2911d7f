----------------------------- MODULE MCExecutor -----------------------------
(* Instances of Executor for TLC. *)
EXTENDS Executor

\* The cents, up to 120, that come back from disk one short: c such that
\* (c / 100.0 * 100.0) as u64 # c in IEEE double arithmetic.
MCLossyCents == {29, 57, 58, 113, 114, 115, 116}
=============================================================================
