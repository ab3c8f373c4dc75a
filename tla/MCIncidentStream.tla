-------------------------- MODULE MCIncidentStream --------------------------
(* Every combination of two numbers, two levels and the two flags, and     *)
(* enough corrections of the payload alone to fill the list of updates.    *)
EXTENDS IncidentStream

MCReports ==
  [num : {1, 2}, level : {1, 2}, final : BOOLEAN, cancel : BOOLEAN, content : {"a"}]
    \cup [num : {2}, level : {1}, final : {FALSE}, cancel : {FALSE}, content : {"b", "c"}]
    \cup [num : {1}, level : {1}, final : {TRUE}, cancel : {TRUE}, content : {"b"}]
=============================================================================
