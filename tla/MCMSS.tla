-------------------------------- MODULE MCMSS --------------------------------
(* Three slots and a listening socket with descriptor 1: as in mss-server.cpp, *)
(* which has 5 and 3, the first client's descriptor is the last slot's number. *)
EXTENDS MSS
=============================================================================
