-------------------------------- MODULE MCProxy --------------------------------
(* The inference path for one request: requests share nothing it models. *)
EXTENDS Proxy
=============================================================================
