----------------------------- MODULE MCOverview -----------------------------
(***************************************************************************)
(* Overview by itself, on one check: with two requests that press at once  *)
(* (one_live_job), and with one press and a restart (endless_spinner).     *)
(***************************************************************************)
EXTENDS Overview

=============================================================================
