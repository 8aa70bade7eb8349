-------------------------------- MODULE MCAI --------------------------------
(***************************************************************************)
(* The three parts of the AI module side by side: the run explores each on *)
(* its own, so its states are the sum of theirs.                           *)
(***************************************************************************)
EXTENDS AIController, WorkerPool, AIStrategy

CONSTANTS ann, ai1, ai2

OneHumanTwoAI == {ann, ai1, ai2}
TwoAI == {ai1, ai2}

VARIABLE part           \* the part explored; never changes

mcVars == <<aiVars, poolVars, strategyVars, part>>

MCInit ==
    /\ part \in {"controller", "pool", "strategy"}
    /\ AIInit /\ (part # "controller" => turn = ann /\ registered = {})
    /\ PoolInit /\ (part # "pool" => size = 1)
    /\ IF part = "strategy" THEN StrategyInit
                            ELSE strategy = None /\ situation = None /\ moves = {} /\ chosen = None

MCNext ==
    /\ UNCHANGED part
    /\ \/ part = "controller" /\ AINext /\ UNCHANGED <<poolVars, strategyVars>>
       \/ part = "pool" /\ PoolNext /\ UNCHANGED <<aiVars, strategyVars>>
       \/ part = "strategy" /\ computeMoveDirectly /\ UNCHANGED <<aiVars, poolVars>>

MCSpec == MCInit /\ [][MCNext]_mcVars

MCFairSpec ==
    /\ MCSpec
    /\ WF_mcVars(part = "controller" /\ DelayEnds /\ UNCHANGED <<poolVars, strategyVars, part>>)
    /\ WF_mcVars(part = "pool" /\ Timeouts /\ UNCHANGED <<aiVars, strategyVars, part>>)
=============================================================================
