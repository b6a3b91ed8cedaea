SPECIFICATION Spec
INVARIANT HashFixesOutput
INVARIANT HashFixesFeature
CHECK_DEADLOCK FALSE
