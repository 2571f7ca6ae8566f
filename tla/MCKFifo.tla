-------------------------------- MODULE MCKFifo --------------------------------
(* A small instance of KFifo for TLC: 3-bit indices and a buffer of 4, so  *)
(* that the indices wrap and a copy is split at the buffer's end.          *)
EXTENDS KFifo, TLC

===============================================================================
