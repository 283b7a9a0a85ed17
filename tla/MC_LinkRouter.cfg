SPECIFICATION Spec
INVARIANT RequiredParamsEnforced
