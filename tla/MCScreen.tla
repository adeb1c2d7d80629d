------------------------------ MODULE MCScreen ------------------------------
(* What the terminal does: its prompt comes in a colour of its own, all else *)
(* in vga_color.                                                            *)
EXTENDS Screen

MCPuts == {<<7, "a">>} \cup {15} \X (Chars \cup Controls)
=============================================================================
