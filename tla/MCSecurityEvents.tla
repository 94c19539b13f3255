-------------------------- MODULE MCSecurityEvents --------------------------
(* An instance of SecurityEvents for TLC: ticks of 0.2 seconds.             *)
EXTENDS SecurityEvents, TLC

Sym == Permutations(Callers)

Plain == [status |-> 200, at |-> 1, ip |-> 1, site |-> "a", path |-> "/", management |-> FALSE,
          antibot |-> FALSE, threat |-> FALSE]
MCLine == [plain |-> Plain, blocked |-> [Plain EXCEPT !.status = 403, !.at = 2, !.threat = TRUE]]
=============================================================================
