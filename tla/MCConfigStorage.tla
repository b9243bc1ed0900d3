-------------------------- MODULE MCConfigStorage --------------------------
(* Three programs share the sector: the bootloader, which knows the IP     *)
(* address only, and two versions of the application, the second of which  *)
(* stores the node identifier in another size and knows an entry more.     *)
EXTENDS ConfigStorage

CONSTANTS ip, id, poe, d, v, ldr, app, app2

MCTable ==
  [p \in Prog |->
     CASE p = ldr  -> <<[key |-> ip, size |-> 4]>>
       [] p = app  -> <<[key |-> id, size |-> 1], [key |-> ip, size |-> 4]>>
       [] p = app2 -> <<[key |-> id, size |-> 2], [key |-> ip, size |-> 4],
                        [key |-> poe, size |-> 1]>>]
=============================================================================
