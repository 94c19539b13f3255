----------------------------- MODULE MCL4Guard -----------------------------
EXTENDS L4Guard
\* The namespace has no IPv6 address.
MCFamily == [ip \in Ips |-> IF ip > 2 THEN 6 ELSE 4]
MCConfigs == {[mode |-> "docker-user"], [enabled |-> FALSE]}
MCDecisions == [Ips -> {None, "drop"}]
MCEnvs == {<<>>, [enabled |-> FALSE]}
MCPrimary == [f \in {4, 6} |-> IF f = 4 THEN 4 ELSE None]
MCDockerUser == [f \in {4, 6} |-> TRUE]
=============================================================================
