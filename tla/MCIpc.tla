-------------------------------- MODULE MCIpc -------------------------------
(* Constants of the model-checking runs of IpcSystem. *)
EXTENDS IpcInductive

\* The first gateway of a client is for a service the daemon has.
MCServiceOf == [ t \in 0 .. MaxTags - 1 |-> IF t = 0 THEN "known" ELSE "other" ]
=============================================================================
