--------------------------- MODULE MCStompFrames ----------------------------
EXTENDS StompFrames
=============================================================================
