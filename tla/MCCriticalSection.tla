-------------------------- MODULE MCCriticalSection --------------------------
EXTENDS CriticalSection

CONSTANTS t1, t2, t3, t4

MCThreads == {t1, t2, t3, t4}
MCPair == {t1, t2}
=============================================================================
