SPECIFICATION Spec
INVARIANT ResultReportsEffect
