---------------------------- MODULE MCPicoClient ----------------------------
(* PicoClient with two modules and the cells around the split of the chips. *)
EXTENDS PicoClient

\* Keys of temporarily(), sent as they are: module and cell 9 or sensor 9 for
\* places in the chain.  Cell 9 of the upper chip is read by nobody, that of
\* the lower one is the module's cell 18; sensor 9 is wired to the upper chip.
Keys == {"cell", "temp"} \X Modules \X {9}
=============================================================================
