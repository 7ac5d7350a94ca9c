---------------------------- MODULE MCProxyFlow ----------------------------
(***************************************************************************)
(* The instance of ProxyFlow for TLC; the configuration has its bounds.    *)
(***************************************************************************)
EXTENDS ProxyFlow
=============================================================================
