---------------------------- MODULE MCAudioLocks ----------------------------
(* Values of the constants of AudioLocks for TLC.                          *)
EXTENDS AudioLocks

CONSTANTS transfers, opens, reroutes, o1, o2, i1

MCThreads == {transfers, opens, reroutes}
MCOutputs == {o1, o2}
OneInput == {i1}
CallOrNot == {"NORMAL", "IN_CALL"}

\* a thread that transfers, one that opens and closes streams, and one that
\* reroutes them (with a standby or without) and stands for the RIL client's
\* reader too; two of them set the mode.  The calls for effects, which take both
\* locks and change nothing here, are left to the proofs.
MCMayCall ==
  [t \in MCThreads |->
     IF t = transfers THEN {"write"}
     ELSE IF t = opens THEN {"open", "close", "set_mode"}
     ELSE {"set_parameters", "set_mode", "set_wb_amr"}]

=============================================================================
