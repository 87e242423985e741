---------------------------- MODULE MCHeapSegment ----------------------------
EXTENDS HeapSegment
=============================================================================
