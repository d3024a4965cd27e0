---------------------------- MODULE MCCircuitGo ----------------------------
EXTENDS CircuitGo, TLC

CONSTANTS k1, k2

(* Two concurrent calls on a circuit with one ticket, so that one of them *)
(* can be rejected for max concurrency while the other runs.  The routine *)
(* returns nil, a redis server error (safe under shouldCountAsCBError), a *)
(* transport error (a threat) or panics.                                  *)
MCCalls == {k1, k2}
MCOutcomes == {"nil", "redisErr", "ioErr", "panic"}
MCNonThreat == {"redisErr"}
=============================================================================
