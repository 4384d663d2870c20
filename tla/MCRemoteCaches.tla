--------------------------- MODULE MCRemoteCaches ---------------------------
(***************************************************************************)
(* Two goroutines, one token key and one the provider lists that is not    *)
(* RSA, both times to live of one tick.                                    *)
(***************************************************************************)
EXTENDS RemoteCaches

=============================================================================
