--------------------------- MODULE MCConnections ---------------------------
(* Connections where every connection but one belongs to one device.       *)
EXTENDS Connections

Other == CHOOSE c \in Conn : TRUE
MCDeviceOf ==
  [c \in Conn |-> IF c = Other THEN None ELSE CHOOSE d \in Device : TRUE]
=============================================================================
