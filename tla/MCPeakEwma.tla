------------------------------ MODULE MCPeakEwma -------------------------------
EXTENDS PeakEwma

\* One unit of time halves a value.
Halved(v, t) == v \div 2^t
================================================================================
