----------------------------- MODULE GateAggregate -----------------------------
(***************************************************************************)
(* gate_control: the aggregation of the verdicts that the gates of a       *)
(* change report.  A report grows as gates finish; the command reads what  *)
(* has been reported so far, once or several times, and answers with an    *)
(* exit code, with a check run published on the commit, or both.           *)
(***************************************************************************)
EXTENDS Naturals, Sequences

CONSTANTS
    Gate,         \* gate identifiers
    MaxReported   \* bound: results in a report

Verdict == {"executed_passed", "executed_failed", "not_applicable", "incomplete"}

(* A result with or without a stated reason.                               *)
Result == [gate : Gate, verdict : Verdict, detail : BOOLEAN]

VARIABLES
    report,    \* the results reported so far, in order
    read,      \* how many of them the last command read
    exit,      \* its exit code, 9 before the first command
    check,     \* the conclusion published on the commit, or "none"
    summary    \* does its summary say NO TESTS EXECUTED?

gateVars == <<report, read, exit, check, summary>>

Has(r, v) == \E k \in DOMAIN r : r[k].verdict = v

(* A bug of the parser: a gate may report twice.                           *)
BelievesRepeated(r) ==
    /\ r # <<>>
    /\ \A k \in DOMAIN r : r[k].verdict # "executed_passed" => r[k].detail

Believes(r) ==
    /\ r # <<>>
    /\ \A k \in DOMAIN r : r[k].verdict # "executed_passed" => r[k].detail
    /\ \A j, k \in DOMAIN r : j # k => r[j].gate # r[k].gate

(* A bug of the decision: only when every gate blocks is the change        *)
(* blocked.                                                                *)
BlockedUnanimously(r) ==
    \A k \in DOMAIN r : r[k].verdict \in {"executed_failed", "incomplete"}

Blocked(r) == Has(r, "executed_failed") \/ Has(r, "incomplete")

(* A bug of the exit code: what is blocked has failed.                     *)
ExitCodeCollapsed(r) == IF Blocked(r) THEN 1 ELSE 0

ExitCode(r) ==
    IF Has(r, "executed_failed") THEN 1 ELSE IF Blocked(r) THEN 2 ELSE 0

(* A bug of the conclusion: a skip is looked at before a gate that did not *)
(* finish.                                                                 *)
ConclusionSkipped(r) ==
    IF Has(r, "executed_failed") THEN "failure"
    ELSE IF Has(r, "not_applicable") THEN "neutral"
    ELSE IF Has(r, "incomplete") THEN "action_required" ELSE "success"

Conclusion(r) ==
    IF Has(r, "executed_failed") THEN "failure"
    ELSE IF Has(r, "incomplete") THEN "action_required"
    ELSE IF Has(r, "not_applicable") THEN "neutral" ELSE "success"

SaysUntested(r) == Has(r, "not_applicable") /\ ~Blocked(r)

GateInit ==
    /\ report = <<>> /\ read = 0
    /\ exit = 9 /\ check = "none" /\ summary = FALSE

(* A gate finishes, or reports again.                                      *)
Reports(result) ==
    /\ Len(report) < MaxReported
    /\ report' = Append(report, result)
    /\ UNCHANGED <<read, exit, check, summary>>

(* The command; a report that cannot be believed publishes nothing.        *)
AggregateReport(publish) ==
    /\ read' = Len(report)
    /\ IF Believes(report)
       THEN /\ exit' = ExitCode(report)
            /\ IF publish
               THEN check' = Conclusion(report) /\ summary' = SaysUntested(report)
               ELSE UNCHANGED <<check, summary>>
       ELSE exit' = 2 /\ UNCHANGED <<check, summary>>

(* With --format text or admission, and with --format check-run.           *)
PrintVerdict == AggregateReport(FALSE) /\ UNCHANGED report

PublishCheck == AggregateReport(TRUE) /\ UNCHANGED report

GateNext == (\E result \in Result : Reports(result)) \/ PrintVerdict \/ PublishCheck

GateSpec == GateInit /\ [][GateNext]_gateVars

-----------------------------------------------------------------------------
(* Properties                                                              *)

Believed == SubSeq(report, 1, read)

(* The code separates what is broken from what is unknown: 1 is returned   *)
(* for a gate that ran and failed only, and 0 when each gate that reported *)
(* passed or has said why it does not apply, once.                         *)
CodeTellsWhy ==
    /\ exit = 1 => \E k \in 1 .. read : report[k].verdict = "executed_failed"
    /\ exit = 0 =>
         /\ read > 0
         /\ \A g \in Gate : \A j, k \in 1 .. read :
                report[j].gate = g /\ report[k].gate = g => j = k
         /\ \A k \in 1 .. read :
                \/ report[k].verdict = "executed_passed"
                \/ report[k].verdict = "not_applicable" /\ report[k].detail

(* A change that is blocked is not unblocked by more gates reporting: once *)
(* anything was reported, a run of the command that blocks is never        *)
(* followed by one that allows.                                            *)
NothingReportedUnblocks == [][read > 0 /\ exit \in {1, 2} => exit' # 0]_gateVars

(* The two channels never disagree to the reader's cost: when the command  *)
(* publishes, the check satisfies a required check exactly when the code   *)
(* is 0, it is a failure exactly when the code is 1, and a gate that did   *)
(* not run is said in its summary.                                         *)
ChannelsAgree ==
    [][PublishCheck /\ Believes(report) =>
         /\ (check' \in {"success", "neutral"}) <=> exit' = 0
         /\ check' = "failure" <=> exit' = 1
         /\ (exit' = 0 /\ \E k \in DOMAIN report : report[k].verdict = "not_applicable")
                => summary']_gateVars

=============================================================================
