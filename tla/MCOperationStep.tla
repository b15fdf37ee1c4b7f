-------------------------- MODULE MCOperationStep --------------------------
(* Four steps share the ledger: one asks for more actions than there are   *)
(* lanes, one fits its lanes, one reads a remote source, one yields.       *)
EXTENDS OperationStep

CONSTANTS many, few, remote, yield

MCSteps == {many, few, remote, yield}
MCCount == [s \in MCSteps |-> IF s = many THEN 4 ELSE IF s = yield THEN 0 ELSE 2]
MCRemote == {remote}
=============================================================================
