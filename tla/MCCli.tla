-------------------------------- MODULE MCCli -------------------------------
(* Constants of the model-checking run of Cli: the scenarios as main calls them. *)
EXTENDS Cli

MainScenarios ==
    << "resetNodes", "beginSoftwareUpdate", "pushRoot", "popRoot", "listRoots",
       "regsOfNodes", "regsOfSingleNode", "subscriber", "publisher", "rpcClient" >>
=============================================================================
