------------------------------ MODULE MCEnvelope ------------------------------
(* Units of 20 kW: the site of the repository's closed-loop tests. *)
EXTENDS Envelope

MCPowerMin == -200
MCRequests == {0, 60}

\* What LimitsAreHeld asks for: 139 ticks are enough for any site of this size,
\* whatever the state it starts from (the states of this run need 40).
MCTicks == 139
MCDamp[s \in 0..MCTicks] == IF s <= 1 THEN 10 * Far ELSE (3 * MCDamp[Greater(0, s - 3)]) \div 5
MCExcess[s \in 0..MCTicks] ==
    IF s <= 5 \/ MCDamp[Greater(0, s - 3)] > 0 THEN Far ELSE (9 * MCExcess[s - 1] + 9) \div 10

ASSUME SettlesInTime == SettlesBy(MCTicks, Far, MCDamp, MCExcess)

=============================================================================
