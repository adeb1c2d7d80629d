------------------------------- MODULE MCPci -------------------------------
(* Two drivers register, for different classes.                              *)
EXTENDS PciConfig

MCRegistrations == <<"vga", "pit">>
=============================================================================
