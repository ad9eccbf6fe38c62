--------------------------- MODULE MCAgentEvidence ---------------------------
(***************************************************************************)
(* The evidence of agents at work: ten components that share no state.     *)
(* As in MCSupplyEvidence a behaviour is one of its focus.                 *)
(***************************************************************************)
EXTENDS SideEffects, FleetEvidence, RogueContainment, CommandBroker, NetworkBoundary,
        RuntimeEvidence, ResourceBudget, AgentDelegation, HookBoundary,
        ApprovalCommands

VARIABLE focus

Init ==
    /\ focus \in {"effect", "fleet", "rogue", "broker", "egress", "runtime", "budget",
                  "delegation", "boundary", "commands"}
    /\ EffectInit /\ FleetInit /\ RogueInit /\ BrokerInit
    /\ EgressInit /\ RuntimeInit /\ BudgetInit /\ DelegationInit /\ BoundaryInit
    /\ CommandsInit
    /\ focus # "effect" => idempotent
    /\ focus # "boundary" =>
         /\ gateway = [checks |-> {"permit"}, mandatory |-> TRUE, audits |-> TRUE]
         /\ aroundIt = {}

Effect ==
    /\ focus = "effect" /\ EffectNext
    /\ UNCHANGED <<focus, fleetVars, rogueVars, brokerVars, egressVars, runtimeVars,
                   budgetVars, delegationVars, boundaryVars,
                   commandVars>>
Fleet ==
    /\ focus = "fleet" /\ FleetNext
    /\ UNCHANGED <<focus, effectVars, rogueVars, brokerVars, egressVars, runtimeVars,
                   budgetVars, delegationVars, boundaryVars,
                   commandVars>>
Rogue ==
    /\ focus = "rogue" /\ RogueNext
    /\ UNCHANGED <<focus, effectVars, fleetVars, brokerVars, egressVars, runtimeVars,
                   budgetVars, delegationVars, boundaryVars,
                   commandVars>>
Broker ==
    /\ focus = "broker" /\ BrokerNext
    /\ UNCHANGED <<focus, effectVars, fleetVars, rogueVars, egressVars, runtimeVars,
                   budgetVars, delegationVars, boundaryVars,
                   commandVars>>
Egress ==
    /\ focus = "egress" /\ EgressNext
    /\ UNCHANGED <<focus, effectVars, fleetVars, rogueVars, brokerVars, runtimeVars,
                   budgetVars, delegationVars, boundaryVars,
                   commandVars>>
Runtime ==
    /\ focus = "runtime" /\ RuntimeNext
    /\ UNCHANGED <<focus, effectVars, fleetVars, rogueVars, brokerVars, egressVars,
                   budgetVars, delegationVars, boundaryVars,
                   commandVars>>
ResourceMeter ==
    /\ focus = "budget" /\ BudgetNext
    /\ UNCHANGED <<focus, effectVars, fleetVars, rogueVars, brokerVars, egressVars,
                   runtimeVars, delegationVars, boundaryVars,
                   commandVars>>
Delegation ==
    /\ focus = "delegation" /\ DelegationNext
    /\ UNCHANGED <<focus, effectVars, fleetVars, rogueVars, brokerVars, egressVars,
                   runtimeVars, budgetVars, boundaryVars,
                   commandVars>>
Boundary ==
    /\ focus = "boundary" /\ BoundaryNext
    /\ UNCHANGED <<focus, effectVars, fleetVars, rogueVars, brokerVars, egressVars,
                   runtimeVars, budgetVars, delegationVars,
                   commandVars>>
Commands ==
    /\ focus = "commands" /\ CommandsNext
    /\ UNCHANGED <<focus, effectVars, fleetVars, rogueVars, brokerVars, egressVars,
                   runtimeVars, budgetVars, delegationVars, boundaryVars>>

Next ==
    \/ Effect \/ Fleet \/ Rogue \/ Broker
    \/ Egress \/ Runtime \/ ResourceMeter \/ Delegation
    \/ Boundary \/ Commands

vars == <<focus, effectVars, fleetVars, rogueVars, brokerVars, egressVars, runtimeVars,
          budgetVars, delegationVars, boundaryVars, commandVars>>
Spec == Init /\ [][Next]_vars
=============================================================================
