------------------------------ MODULE MCViews ------------------------------
(***************************************************************************)
(* Instances of Views for TLC: two VMs, and what happens to them.          *)
(***************************************************************************)
EXTENDS Views

CONSTANTS a, b

\* b is a client of a; only a's agent probes.
MCConversations == {<<b, a>>}

\* The inventory without an entry for b, and with one that names its service port.
Without == (a :> 0) @@ (b :> 0)
With    == (a :> 0) @@ (b :> 8443)

\* The probed service is declared, and its configuration denied.
Denied == [src |-> a, dst |-> b, port |-> 8443, intent |-> "validated", config |-> "denied"]

\* The target stops; the prober stops; the backend gets an inventory and a declaration.
MCWorkloads == {
  [mortal |-> {b}, inventories |-> {Without}, declarations |-> {}, work |-> 4, kinds |-> {"request", "error"}],
  [mortal |-> {a}, inventories |-> {With}, declarations |-> {}, work |-> 3, kinds |-> {"plain"}],
  [mortal |-> {}, inventories |-> {Without, With}, declarations |-> {Denied}, work |-> 3, kinds |-> {"request"}]}

\* The target stops, comes back and stops again.
MCReturns == {[mortal |-> {b}, inventories |-> {Without}, declarations |-> {}, work |-> 4, kinds |-> {"plain"}]}
=============================================================================
