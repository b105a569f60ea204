------------------------------ MODULE MCPanel -------------------------------
(***************************************************************************)
(* What must end, one part at a time: the actions that run builds and      *)
(* other jobs, the breaker that every call to a model passes, and the      *)
(* provisioning of a base.  `part` is chosen at the start; the variables   *)
(* of the other parts rest in their initial states, where none of the      *)
(* actions that are fair is enabled.  There are always calls to make.      *)
(***************************************************************************)
EXTENDS Actions, Breaker, Provisioning

VARIABLE part

Parts == {"actions", "breaker", "provisioning"}

PanelInit ==
    /\ part \in Parts
    /\ ActionsInit /\ BreakerInit /\ ProvisioningInit
    /\ part # "provisioning" => wanted = CHOOSE m \in Models : TRUE

PanelNext ==
    /\ UNCHANGED part
    /\ \/ /\ part = "actions" /\ ActionsNext
          /\ UNCHANGED <<breakerVars, provisioningVars>>
       \/ /\ part = "breaker" /\ BreakerNext
          /\ UNCHANGED <<actionVars, provisioningVars>>
       \/ /\ part = "provisioning" /\ ProvisioningNext
          /\ UNCHANGED <<actionVars, breakerVars>>

PanelSpec ==
    /\ PanelInit /\ [][PanelNext]_<<part, actionVars, breakerVars, provisioningVars>>
    /\ ActionsFairness /\ BreakerFairness /\ ProvisioningFairness
    /\ SF_breakerVars(part = "breaker" /\ \E c \in Callers : Admit(c))

(***************************************************************************)
(* The types of the parts, within the inductive invariants that the proofs *)
(* of the actions table and of the breaker rest on.                        *)
(***************************************************************************)
PanelInv == ActionInv /\ BreakerInv /\ ProvisioningTypeOK

=============================================================================
