---------------------------- MODULE MCTaskGraph ----------------------------
(* The graphs of build_task_graph, for TLC.                                *)
EXTENDS TaskGraph

CONSTANT w1

StepOf(deps, slot) == [deps |-> deps, slot |-> slot]

\* financial_search, sec_filings, web_search, query_internal_db, write_report, send_email
ResearchGraph ==
    <<StepOf({}, "none"), StepOf({1}, "none"), StepOf({1}, "none"), StepOf({1}, "none"),
      StepOf({1, 2, 3, 4}, "content"), StepOf({5}, "body")>>

\* web_search, write_report with content "[from step-1]"
DocumentGraph == <<StepOf({}, "none"), StepOf({1}, "literal")>>

\* llm_answer, or web_search for a query that looks like a threat
SingleGraph == <<StepOf({}, "none")>>

MCGraphs == {ResearchGraph, DocumentGraph, SingleGraph}
=============================================================================
