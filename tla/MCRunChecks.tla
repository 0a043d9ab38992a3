----------------------------- MODULE MCRunChecks -----------------------------
(***************************************************************************)
(* RunChecks on one period with two checks whose findings combine          *)
(* (run_checks, partial_commit) and on two periods with one (risk_max).    *)
(***************************************************************************)
EXTENDS RunChecks

=============================================================================
