------------------------------- MODULE MC_Agent -------------------------------
(* The commands of agent_control that change files: staging an endpoint,   *)
(* and bootstrapping a repository.  They share no state; one run checks    *)
(* them side by side, and the initial state picks the one that moves.      *)
EXTENDS MC_EndpointStaging, MC_RepositoryBootstrap

VARIABLE subject   \* the component that moves

(* The other one waits where its command would begin.                      *)
AgentInit ==
    /\ subject \in {"staging", "bootstrap"}
    /\ Init
    /\ subject # "staging" => head = r1 /\ output = [a \in Kind |-> Absent]
    /\ BootstrapInit
    /\ subject # "bootstrap" =>
           body = [f \in Role |-> NoFile] /\ profile = Managed /\ repo = Good

Stages == subject = "staging" /\ Next /\ UNCHANGED <<bootstrapVars, subject>>

Bootstraps == subject = "bootstrap" /\ BootstrapNext /\ UNCHANGED <<vars, subject>>

AgentNext == Stages \/ Bootstraps

AgentSpec == AgentInit /\ [][AgentNext]_<<vars, bootstrapVars, subject>>

=============================================================================
