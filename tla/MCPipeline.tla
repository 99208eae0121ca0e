----------------------------- MODULE MCPipeline -----------------------------
\* Instances of Pipeline for model checking.
EXTENDS Pipeline

\* The volume's tick in the coordinator, and an operator's snapshot beside it.
MCAsks == [tick |-> {"wal", "checkpoint", "handoffs", "reclaim"},
           snapshot |-> {"wal", "segment", "sign"}]
=============================================================================
