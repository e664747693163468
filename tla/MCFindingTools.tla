--------------------------- MODULE MCFindingTools ---------------------------
(***************************************************************************)
(* Small values for the session: three reports, of which one creates what  *)
(* the second lacks and the third is a weak one that was refuted.          *)
(***************************************************************************)
EXTENDS FindingTools, TLC

TakesRole == [words |-> {"minterrole"}, text |-> {"minterrole", "minter"}, kind |-> "ACCESS"]
NeedsRole == [words |-> {"minter"}, text |-> {"minter"}, kind |-> "ACCESS"]

Opener == [worker |-> "attack", confidence |-> 90, contract |-> "Vault", severity |-> "HIGH",
           verdict |-> "CONFIRMED", posts |-> <<TakesRole>>, missing |-> <<>>]

Blocked == [worker |-> "assumption", confidence |-> 20, contract |-> "Vault", severity |-> "LOW",
            verdict |-> "REFUTED", posts |-> <<TakesRole>>, missing |-> <<NeedsRole>>]

Reports == {Opener, Blocked}

Indices == {<<>>, <<1, -1>>}

Permuted == Permutations(Agents)
=============================================================================
