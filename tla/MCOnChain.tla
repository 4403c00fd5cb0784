------------------------------ MODULE MCOnChain ------------------------------
EXTENDS OnChain, TLC
CONSTANTS daemon, once, h1, h2, none
=============================================================================
