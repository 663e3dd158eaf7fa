------------------------------ MODULE MCWrapper ------------------------------
(* Wrapper with three ports; config.port is one port, or a list with a bad  *)
(* second entry.                                                            *)
EXTENDS Wrapper

MCPorts == 1..3
MCConfigs == {<<1>>, <<2, 9>>}
=============================================================================
