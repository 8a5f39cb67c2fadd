------------------------- MODULE MCKinesisProducer -------------------------
(* Five events of two users, one of them too large, in chunks of three.    *)
EXTENDS KinesisProducer

CONSTANTS u1, u2

MCUserOf == <<u1, u2, u1, u2, u1>>
============================================================================
