------------------------------ MODULE MCLinkage -------------------------------
(***************************************************************************)
(* Translation units of objects alone, of functions alone, and of both in  *)
(* scopes.                                                                 *)
(***************************************************************************)
EXTENDS LinkageC

Storages == {"", "extern", "static"}

Objects ==
  [identifiers |-> {"x"}, functions |-> {"f"}, kinds |-> {"object"}, storages |-> Storages,
   params |-> {}, max |-> 5]

Calls ==
  [identifiers |-> {"f"}, functions |-> {"f"}, kinds |-> {"function"}, storages |-> Storages,
   params |-> {}, max |-> 5]

Blocks ==
  [identifiers |-> {"x"}, functions |-> {"f"}, kinds |-> {"object", "function"}, storages |-> {""},
   params |-> {"x", "f"}, max |-> 6]

MCInputs == {Objects, Calls, Blocks}
=============================================================================
