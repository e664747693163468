--------------------------- MODULE MCAgentSession ---------------------------
(***************************************************************************)
(* Small values for the session: one report, no lists of indices.          *)
(***************************************************************************)
EXTENDS AgentSession

Report == [worker |-> "attack", confidence |-> 90, contract |-> "Vault", severity |-> "HIGH",
           verdict |-> "CONFIRMED", posts |-> <<>>, missing |-> <<>>]

Reports == {Report}

NoIndices == {<<>>}
=============================================================================
