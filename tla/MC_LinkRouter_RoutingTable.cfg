SPECIFICATION Spec
INVARIANT RoutingTableHonoured
