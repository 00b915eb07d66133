------------------------------- MODULE GateProofs -------------------------------
(***************************************************************************)
(* Proofs about GateAggregate, for any gates and reports of any length:    *)
(* what an exit code tells of the gates, that a report that grows does not *)
(* unblock a change, and that the exit code and the check agree.           *)
(***************************************************************************)
EXTENDS GateAggregate, TLAPS

-----------------------------------------------------------------------------
(* What a prefix of a report says                                          *)

HasIn(r, n, v) == \E k \in 1 .. n : r[k].verdict = v

(* The first n results of r cannot be believed, or block.                  *)
Objected(r, n) ==
    \/ HasIn(r, n, "executed_failed") \/ HasIn(r, n, "incomplete")
    \/ \E k \in 1 .. n : r[k].verdict # "executed_passed" /\ ~r[k].detail
    \/ \E j, k \in 1 .. n : j # k /\ r[j].gate = r[k].gate

Told(r, n, code) ==
    /\ code = 1 => HasIn(r, n, "executed_failed")
    /\ code = 0 => n > 0 /\ ~Objected(r, n)
    /\ code = 2 /\ n > 0 => Objected(r, n)

GateInv ==
    /\ report \in Seq(Result)
    /\ read \in 0 .. Len(report)
    /\ exit \in {0, 1, 2, 9}
    /\ exit = 9 => read = 0
    /\ Told(report, read, exit)

(* What has been said of a prefix is true of a report that has grown.      *)
LEMMA ToldStays ==
    ASSUME NEW r \in Seq(Result), NEW n \in 0 .. Len(r), NEW x \in Result, NEW code,
           Told(r, n, code)
    PROVE  Told(Append(r, x), n, code)
<1>1. \A k \in 1 .. n : Append(r, x)[k] = r[k]
  OBVIOUS
<1> QED BY <1>1 DEF Told, HasIn, Objected

(* An exit code says of the whole report what the code is for.             *)
LEMMA AggregateTells ==
    ASSUME NEW r \in Seq(Result)
    PROVE  Told(r, Len(r), IF Believes(r) THEN ExitCode(r) ELSE 2)
<1>1. DOMAIN r = 1 .. Len(r) /\ Len(r) \in Nat
  OBVIOUS
<1>3. r # <<>> <=> Len(r) > 0
  OBVIOUS
<1>4. \A v : Has(r, v) <=> HasIn(r, Len(r), v)
  BY <1>1 DEF Has, HasIn
<1>5. CASE Believes(r)
  BY <1>1, <1>3, <1>4, <1>5 DEF Believes, ExitCode, Blocked, Told, Objected
<1>6. CASE ~Believes(r)
  BY <1>1, <1>3, <1>6 DEF Believes, Told, Objected
<1> QED BY <1>5, <1>6

LEMMA GateInvAtFirst == GateInit => GateInv
BY DEF GateInit, GateInv, Told

LEMMA GateInvIsKept == GateInv /\ [GateNext]_gateVars => GateInv'
<1> SUFFICES ASSUME GateInv, [GateNext]_gateVars PROVE GateInv'
  OBVIOUS
<1>1. ASSUME NEW x \in Result, Reports(x) PROVE GateInv'
  <2>1. report' = Append(report, x) /\ read' = read /\ exit' = exit
    BY <1>1 DEF Reports
  <2>2. report' \in Seq(Result) /\ Len(report') = Len(report) + 1
    BY <2>1 DEF GateInv
  <2>3. Told(report', read', exit')
    BY <2>1, ToldStays DEF GateInv
  <2> QED BY <2>1, <2>2, <2>3 DEF GateInv
<1>2. ASSUME NEW p \in BOOLEAN, AggregateReport(p), report' = report PROVE GateInv'
  <2>1. exit' = IF Believes(report) THEN ExitCode(report) ELSE 2
    BY <1>2 DEF AggregateReport
  <2>2. read' = Len(report)
    BY <1>2 DEF AggregateReport
  <2>3. exit' \in {0, 1, 2}
    BY <2>1 DEF ExitCode
  <2>4. Told(report', read', exit')
    BY <1>2, <2>1, <2>2, AggregateTells DEF GateInv
  <2> QED BY <1>2, <2>2, <2>3, <2>4 DEF GateInv
<1>3. CASE PrintVerdict
  BY <1>2, <1>3 DEF PrintVerdict
<1>4. CASE PublishCheck
  BY <1>2, <1>4 DEF PublishCheck
<1>5. CASE UNCHANGED gateVars
  BY <1>5 DEF gateVars, GateInv
<1> QED BY <1>1, <1>3, <1>4, <1>5 DEF GateNext

LEMMA GateInvHolds == GateSpec => []GateInv
BY GateInvAtFirst, GateInvIsKept, PTL DEF GateSpec

-----------------------------------------------------------------------------
(* Theorems                                                                *)

(* 1 is returned for a gate that ran and failed only, 0 for gates that     *)
(* passed or said why they do not apply, each once.                        *)
THEOREM ExitCodesTell == GateSpec => []CodeTellsWhy
<1>1. GateInv => CodeTellsWhy
  <2> SUFFICES ASSUME GateInv PROVE CodeTellsWhy
    OBVIOUS
  <2>1. \A k \in 1 .. read : report[k].verdict \in Verdict /\ report[k].detail \in BOOLEAN
    <3>1. \A k \in 1 .. read : report[k] \in Result
      BY DEF GateInv
    <3> QED BY <3>1 DEF Result
  <2> QED BY <2>1 DEF GateInv, Told, HasIn, Objected, CodeTellsWhy, Verdict
<1> QED BY <1>1, GateInvHolds, PTL

(* Whatever else is reported, a change that was blocked stays blocked.     *)
THEOREM BlockedStaysBlocked == GateSpec => NothingReportedUnblocks
<1> DEFINE Blocks == read > 0 /\ exit \in {1, 2} => exit' # 0
<1>1. GateInv /\ GateInv' /\ [GateNext]_gateVars => [Blocks]_gateVars
  <2> SUFFICES ASSUME GateInv, GateInv', GateNext, read > 0, exit \in {1, 2}
               PROVE  exit' # 0
    OBVIOUS
  <2>1. Objected(report, read)
    BY DEF GateInv, Told, Objected
  <2>2. CASE \E x \in Result : Reports(x)
    BY <2>2 DEF Reports
  <2>3. CASE PrintVerdict \/ PublishCheck
    <3>1. report' = report /\ read' = Len(report)
      BY <2>3 DEF PrintVerdict, PublishCheck, AggregateReport
    <3>2. 1 .. read \subseteq 1 .. Len(report)
      BY DEF GateInv
    <3>3. Objected(report', read')
      BY <2>1, <3>1, <3>2 DEF Objected, HasIn
    <3> QED BY <3>3 DEF GateInv, Told
  <2> QED BY <2>2, <2>3 DEF GateNext
<1> QED BY <1>1, GateInvHolds, PTL DEF GateSpec, NothingReportedUnblocks

(* The check that is published satisfies a required check exactly when the *)
(* exit code is 0, and fails exactly when it is 1.                         *)
THEOREM BothChannelsAgree == GateSpec => ChannelsAgree
<1> DEFINE Agrees ==
      PublishCheck /\ Believes(report) =>
         /\ (check' \in {"success", "neutral"}) <=> exit' = 0
         /\ check' = "failure" <=> exit' = 1
         /\ (exit' = 0 /\ \E k \in DOMAIN report : report[k].verdict = "not_applicable")
                => summary'
<1>1. [GateNext]_gateVars => [Agrees]_gateVars
  <2> SUFFICES ASSUME PublishCheck, Believes(report)
               PROVE  /\ (check' \in {"success", "neutral"}) <=> exit' = 0
                      /\ check' = "failure" <=> exit' = 1
                      /\ (exit' = 0 /\ Has(report, "not_applicable")) => summary'
    BY DEF Has
  <2>1. /\ exit' = ExitCode(report)
        /\ check' = Conclusion(report)
        /\ summary' = SaysUntested(report)
    BY DEF PublishCheck, AggregateReport
  <2>2. CASE Has(report, "executed_failed") \/ Has(report, "incomplete")
    <3>1. exit' # 0
      BY <2>1, <2>2 DEF ExitCode, Blocked
    <3> QED BY <2>1, <2>2, <3>1 DEF ExitCode, Conclusion, Blocked
  <2>3. CASE ~Has(report, "executed_failed") /\ ~Has(report, "incomplete")
    <3>1. exit' = 0 /\ check' \in {"neutral", "success"}
      BY <2>1, <2>3 DEF ExitCode, Conclusion, Blocked
    <3>2. Has(report, "not_applicable") => summary'
      BY <2>1, <2>3, Zenon DEF SaysUntested, Blocked
    <3> QED BY <3>1, <3>2
  <2> QED BY <2>2, <2>3
<1> QED BY <1>1, PTL DEF GateSpec, ChannelsAgree

-----------------------------------------------------------------------------
(* The order in which gates report                                         *)

Reordered(r, s) ==
    \E f \in [DOMAIN r -> DOMAIN s] :
        /\ \A k \in DOMAIN r : s[f[k]] = r[k]
        /\ \A j, k \in DOMAIN r : f[j] = f[k] => j = k
        /\ \A m \in DOMAIN s : \E k \in DOMAIN r : f[k] = m

(* Which of several gates finishes first decides nothing: two reports of   *)
(* the same results in different orders are both believed or both not, and *)
(* then have one exit code, one conclusion and one summary.                *)
THEOREM OrderIsNoise ==
    ASSUME NEW r \in Seq(Result), NEW s \in Seq(Result), Reordered(r, s)
    PROVE  /\ Believes(r) <=> Believes(s)
           /\ ExitCode(r) = ExitCode(s)
           /\ Conclusion(r) = Conclusion(s)
           /\ SaysUntested(r) = SaysUntested(s)
<1>1. PICK f \in [DOMAIN r -> DOMAIN s] :
          /\ \A k \in DOMAIN r : s[f[k]] = r[k]
          /\ \A j, k \in DOMAIN r : f[j] = f[k] => j = k
          /\ \A m \in DOMAIN s : \E k \in DOMAIN r : f[k] = m
  BY DEF Reordered
<1>2. \A v : Has(r, v) <=> Has(s, v)
  BY <1>1 DEF Has
<1>3. /\ r = <<>> <=> DOMAIN r = {}
      /\ s = <<>> <=> DOMAIN s = {}
  OBVIOUS
<1>4. r = <<>> <=> s = <<>>
  BY <1>1, <1>3
<1>5. (\A k \in DOMAIN r : r[k].verdict # "executed_passed" => r[k].detail)
        <=> (\A m \in DOMAIN s : s[m].verdict # "executed_passed" => s[m].detail)
  BY <1>1
<1>6. (\A j, k \in DOMAIN r : j # k => r[j].gate # r[k].gate)
        <=> (\A l, m \in DOMAIN s : l # m => s[l].gate # s[m].gate)
  BY <1>1
<1>7. Believes(r) <=> Believes(s)
  BY <1>4, <1>5, <1>6 DEF Believes
<1>8. Blocked(r) <=> Blocked(s)
  BY <1>2 DEF Blocked
<1>9. ExitCode(r) = ExitCode(s) /\ Conclusion(r) = Conclusion(s)
  BY <1>2, <1>8 DEF ExitCode, Conclusion
<1>10. SaysUntested(r) = SaysUntested(s)
  BY <1>2, <1>8, Zenon DEF SaysUntested
<1> QED BY <1>7, <1>9, <1>10

=============================================================================
