-------------------------------- MODULE MCFigures --------------------------------
(* Instances of AuditFigures for TLC: two policies, three files.           *)
EXTENDS AuditFigures

Sheet == [format |-> "sheet", columns |-> {"policy_number"}, policies |-> {1}, dated |-> TRUE,
          effective |-> [year |-> 2023, month |-> 1, day |-> 15],
          freq |-> "none", owner |-> "none", submitted |-> 0, premium |-> 0, earned |-> 0,
          payroll |-> 0, idle |-> 0]

(* Ninety days of monthly payrolls: three are expected.                    *)
Report(n)  == [Sheet EXCEPT !.format = "audit_report", !.freq = "Monthly", !.owner = "Included",
                            !.submitted = n, !.premium = 1200, !.payroll = 1200000, !.idle = 1]
Small(n)   == [Report(n) EXCEPT !.payroll = 12000]
Undated1   == [Report(2) EXCEPT !.dated = FALSE]
NoFreq1    == [Report(2) EXCEPT !.freq = "none"]
(* From January the 31st on there is no such day in the next month.        *)
Late1      == [Report(3) EXCEPT !.effective.day = 31]
Detail(e)  == [Sheet EXCEPT !.columns = {"policy_number", "wages", "class_code"}, !.earned = e, !.idle = 1]
Csv        == [Detail(300) EXCEPT !.format = "csv"]
Summary1   == [Sheet EXCEPT !.columns = {"policy_number", "est_payroll"}, !.payroll = 24000, !.earned = 30000]
Premium1   == [Sheet EXCEPT !.columns = {"policy_number", "est_premium_end"}, !.premium = 100, !.earned = 150]
Premium2   == [Premium1 EXCEPT !.earned = 90, !.policies = {1, 2}]
Zeros      == [Sheet EXCEPT !.columns = {"policy_number", "reason_code"}, !.policies = {2}]
Gaps       == [Sheet EXCEPT !.columns = {"policy_number", "days_overdue"}]
Other1     == [Sheet EXCEPT !.columns = {}]
Xml        == [Sheet EXCEPT !.format = "xml", !.premium = 400, !.idle = 1, !.policies = {2}]

FileSets ==
    { <<Detail(300), Report(3), Premium1>>,
      <<Report(2), Detail(300), Small(3)>>,
      <<Report(3), Report(2), Summary1>>,
      <<Small(2), Premium2, Xml>>,
      <<Xml, Premium2, Gaps>>,
      <<Premium1, Csv, Other1>>,
      <<Sheet, Undated1, Premium2>>,
      <<Report(3), Undated1, Premium2>>,
      <<Report(3), NoFreq1, Premium1>>,
      <<Report(3), Xml, Zeros>>,
      <<Late1, Detail(300), Report(2)>> }

EventSets == {{}, {"audit"}, {"rollback", "audit"}, {"rollback", "failures"},
              {"audit", "failures"}, {"late_audit"}, {"late_audit", "rollback", "failures"}}

(* Two files side by side, and a rollback beside them.                     *)
Beside == { <<Report(2), Detail(300)>>, <<Report(2), Premium1>>, <<Xml, Premium2>> }

FigureScenarios ==
    {[files |-> f, events |-> e, threshold |-> 30] : f \in FileSets, e \in EventSets}
    \cup {[files |-> f, events |-> {"audit"}, threshold |-> 3000] : f \in FileSets}
    \cup {[files |-> f, events |-> {"overlap", "rollback", "audit"}, threshold |-> 30] : f \in Beside}
==================================================================================
