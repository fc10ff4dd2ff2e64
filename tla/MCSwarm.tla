--------------------------------- MODULE MCSwarm ---------------------------------
(* Swarm for TLC: two agents, and ledgers of up to two claims.             *)
EXTENDS Swarm

MCClaim(a, l, f, s, o) ==
  [agent |-> a, lease |-> l, file |-> f, spelling |-> s, owned |-> o, sound |-> TRUE]

(* One good ledger and its successor of new leases; shared ownership, the  *)
(* same path twice, and one file under two spellings.                      *)
MCGood ==
  <<MCClaim("a", "a1", "fa", "plain", {<<"runner", "fsm">>}),
    MCClaim("b", "b1", "fb", "plain", {<<"runner", "gates">>})>>
MCSecond ==
  <<MCClaim("a", "a2", "fa", "plain", {<<"runner", "fsm">>}),
    MCClaim("b", "b2", "fb", "plain", {<<"runner", "gates">>})>>
MCNested ==
  <<MCClaim("a", "a1", "fa", "plain", {<<"runner">>}),
    MCClaim("b", "b1", "fb", "plain", {<<"runner", "gates">>})>>
MCSamePath ==
  <<MCClaim("a", "a1", "fa", "plain", {<<"runner", "fsm">>}),
    MCClaim("b", "b1", "fa", "plain", {<<"runner", "gates">>})>>
MCAlias ==
  <<MCClaim("a", "a1", "fa", "plain", {<<"runner", "fsm">>}),
    MCClaim("b", "b1", "fa", "doubled", {<<"runner", "gates">>})>>

MCLedgers == {MCGood, MCSecond, MCNested}
MCAliasLedgers == {MCAlias}
MCAgents == {"a", "b"}
MCLeases == {"a1", "b1", "a2", "b2"}
=============================================================================
