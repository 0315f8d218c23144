-------------------------------- MODULE MCProxy --------------------------------
(* Client behaviours for TLC. *)
EXTENDS Proxy

CancelScript   == <<"cancel", "key">>
SslScript      == <<"ssl", "startup", "query">>
GssScript      == <<"gss", "startup", "query">>
StartupScript  == <<"startup", "rest", "query">>

EveryStart == {CancelScript, SslScript, GssScript, StartupScript}
===============================================================================
