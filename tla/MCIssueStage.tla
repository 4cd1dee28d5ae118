---------------------------- MODULE MCIssueStage ----------------------------
(***************************************************************************)
(* IssueStage with four scoreboard entries, registers x0, x1 and x2, and   *)
(* instructions of every functional unit whose sources and destinations    *)
(* overlap in every way.                                                   *)
(***************************************************************************)
EXTENDS IssueStage

Op(fu, rd, rs1, rs2) == [fu |-> fu, rd |-> rd, rs1 |-> rs1, rs2 |-> rs2, ex |-> FALSE]

Units == {
  Op("ALU", 1, 1, 2), Op("LOAD", 1, 2, 0), Op("MULT", 1, 1, 1),
  Op("STORE", 0, 2, 1), Op("CSR", 1, 1, 0), Op("FENCE", 0, 0, 0),
  Op("CTRL_FLOW", 0, 1, 0), [Op("ALU", 1, 2, 0) EXCEPT !.ex = TRUE] }

Renamed == { Op("LOAD", 1, 2, 0), Op("DIV", 2, 1, 1), Op("CSR", 1, 2, 0) }

Amo == { Op("AMO", 1, 0, 0), Op("ALU", 2, 1, 0) }
=============================================================================
