SPECIFICATION Spec
CONSTANT Agents = {"k8s", "middleware", "network", "application"}
INVARIANT EvidenceWithinReach
CHECK_DEADLOCK FALSE
