--------------------------- MODULE MCStyleWriter ---------------------------
(* One host prints while another looks at the printer or cleans its cartridge. *)
EXTENDS StyleWriter
CONSTANTS h, i
MCKinds(c) == IF c = h THEN {"print"} ELSE {"info"}
=============================================================================
