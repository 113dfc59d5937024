---------------------------- MODULE MCMemoryCap ----------------------------
(* TLC instance of MemoryCap.                                           *)
EXTENDS MemoryCap

MCWaves == {<<1, 2>>}

=============================================================================
