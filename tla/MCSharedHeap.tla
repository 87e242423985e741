---------------------------- MODULE MCSharedHeap ----------------------------
EXTENDS SharedHeap
=============================================================================
