---------------------------- MODULE MCDataVersion ----------------------------
(***************************************************************************)
(* DataVersion on one period with a narrow and a wide window (data_version *)
(* and lost_bump), and on two neighbouring periods whose windows hold one  *)
(* date each, or both when one of them is stretched (cross_period).        *)
(***************************************************************************)
EXTENDS DataVersion

MCFiscal == [y \in Year |-> {y}]
MCWindow == {{1}, {1, 2}}
MCWindow2 == {{1}, {2}, {1, 2}}
MCLoad == {{1}, {1, 2}}

=============================================================================
