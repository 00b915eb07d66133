------------------------------- MODULE MC_Kernel -------------------------------
(* kernel_adoption_control: the run that collects evidence, of which the   *)
(* evaluation is one step (Passing), and the evaluation itself.  One run   *)
(* checks them side by side; the initial state picks the one that moves.   *)
EXTENDS MC_KernelRun, MC_KernelEvaluation

VARIABLE subject   \* the component that moves

KernelInit ==
    /\ subject \in {"run", "evaluation"}
    /\ Init
    /\ subject # "run" => head = c1 /\ work = Tree[c1] /\ govHead = g1 /\ ~shallow
    /\ EvaluationInit
    /\ subject # "evaluation" => checkout.catalogue = NoCatalogue

Runs == subject = "run" /\ Next /\ UNCHANGED <<evaluationVars, subject>>

Evaluates == subject = "evaluation" /\ EvaluationNext /\ UNCHANGED <<vars, subject>>

KernelNext == Runs \/ Evaluates

KernelSpec == KernelInit /\ [][KernelNext]_<<vars, evaluationVars, subject>>

=============================================================================
