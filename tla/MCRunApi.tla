------------------------------ MODULE MCRunApi ------------------------------
EXTENDS RunLookups, TLC

\* Registrations of the kinds the documentation names; any two of them differ
\* in two columns or more.
Documented ==
    {[run_type |-> "AUTOMATION", engine_type |-> "AIRFLOW",
      automation_id |-> "n1", ticket_template_id |-> "n1"],
     [run_type |-> "RESOURCE", engine_type |-> "AIRFLOW",
      automation_id |-> "n1", ticket_template_id |-> "n2"],
     [run_type |-> "RESOURCE", engine_type |-> "AIRFLOW",
      automation_id |-> "n2", ticket_template_id |-> "n1"]}

Symmetry == Permutations(Clients) \cup Permutations(Records)
=============================================================================
