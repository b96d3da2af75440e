---- MODULE MCSubagent ----
(* The run of one subagent with every actor that writes its record. *)
EXTENDS SubagentRun
====
