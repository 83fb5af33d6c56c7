-------------------------- MODULE SyntheticChecks_MC --------------------------
(* Configurations to check: each kind of object once where it is alone, and *)
(* claims with pods, so that claims wait for pods to go.                    *)
EXTENDS SyntheticChecks

PodStartupConfig(max, csis, nodepools) ==
    [checker |-> "PodStartup", max |-> max, csis |-> csis, nodepools |-> nodepools]

MC_Configs == {
    PodStartupConfig(1, <<"azuredisk", "azurefile">>, FALSE),
    PodStartupConfig(1, <<>>, TRUE),
    [checker |-> "APIServer", max |-> 1, csis |-> <<>>, nodepools |-> FALSE]}
=============================================================================
