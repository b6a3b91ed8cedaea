SPECIFICATION TypedSpec
CONSTANT Vector = 8
CONSTANT Statements <- MCStatements
CONSTANT Plans <- MCPlans
INVARIANT UsersFirst
INVARIANT OncePerNode
INVARIANT NothingMissing
INVARIANT KernelComputesStatement
INVARIANT NoFatal
INVARIANT EveryUseDominated
INVARIANT NoTypeFails
INVARIANT OperandsAgree
CHECK_DEADLOCK FALSE
