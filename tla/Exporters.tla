----------------------------- MODULE Exporters ------------------------------
(***************************************************************************)
(* The export engine of the KAATS backend (exporters/): in which formats a *)
(* stored document can be rendered at all.                                 *)
(*                                                                         *)
(* An export makes the exporter of its format before it looks for a text   *)
(* that was generated; each exporter compiles its template when it is made,*)
(* and goes through every step of the test cases when it renders them.     *)
(* What the file says is left out, and so are locators: the documents the  *)
(* worker stores have neither "target" nor "locator".                      *)
(***************************************************************************)
EXTENDS Sequences

Formats ==
  {"playwright_ts", "playwright_js", "selenium_python", "pytest", "robot_framework", "gherkin"}

\* Jinja has no filter "ljust" (gherkin) and does not parse {{expected!r}} (pytest):
\* their exporters raise while they are made.
Compiling == Formats \ {"gherkin", "pytest"}

\* A step keeps its action, which makes it a WAIT or not, and its input: null,
\* "" or some text.  int() and float() of a text raise, and so does None.replace().
NoNumber(step) == step.action = "WAIT" /\ step.input_data = "text"

PlaywrightRaises(step) == step.input_data = "null"

SeleniumRaises(step) == step.input_data = "null" \/ NoNumber(step)

RobotRaises(step) == NoNumber(step)

StepRaises(fmt, step) ==
  \/ fmt \in {"playwright_ts", "playwright_js"} /\ PlaywrightRaises(step)
  \/ fmt = "selenium_python" /\ SeleniumRaises(step)
  \/ fmt = "robot_framework" /\ RobotRaises(step)

\* A document without test cases is rendered as one case without steps.
Raises(fmt, test_cases) ==
  \E i \in DOMAIN test_cases : \E k \in DOMAIN test_cases[i] : StepRaises(fmt, test_cases[i][k])
=============================================================================
