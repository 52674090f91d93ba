----------------------------- MODULE MCExports ------------------------------
(* A small instance of Exports, and of ScriptReview in it, for TLC.         *)
EXTENDS Exports, TLC

Symmetry == Permutations(Requests) \cup Permutations(Users) \cup Permutations(ExportRequests)

AStep(action, input) == [action |-> action, input_data |-> input]

\* The first content can be rendered; a step of the second has no input, and one
\* waits for a time that is no number.
MCTestCases ==
  << << <<AStep("NAVIGATE", ""), AStep("FILL", "text")>>, <<AStep("free text", "")>> >>,
     << <<AStep("SELECT", "null")>>, <<AStep("WAIT", "text")>> >> >>

MCPregenerated == <<{"gherkin", "robot_framework"}, {"playwright_ts"}>>

R1 == CHOOSE row \in Rows : row[2] = 1
MCExportRows == {R1}
MCBulkLists == {<<R1, R1>>}
=============================================================================
