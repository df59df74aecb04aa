------------------------------ MODULE MCPdoMapper ------------------------------
(* A received PDO, a sent one, or both; the bounds are in the .cfg file. *)
EXTENDS PdoMapper, TLC

Nothing(objects) == [o \in objects |-> None]

\* Two objects sent: one with a default and another initial value, one with neither;
\* two without, one of which cannot be read; two received, one to be initialised; one of each.
Mappings ==
  { [rx |-> << >>, tx |-> <<"a", "b">>, inits |-> 2, readable |-> {"a", "b"},
     def |-> ("a" :> 0) @@ ("b" :> None), init |-> ("a" :> 1) @@ ("b" :> None)],
    [rx |-> << >>, tx |-> <<"a", "b">>, inits |-> 2, readable |-> {"a"},
     def |-> Nothing({"a", "b"}), init |-> Nothing({"a", "b"})],
    [rx |-> <<"a", "b">>, tx |-> << >>, inits |-> 2, readable |-> {"a", "b"},
     def |-> ("a" :> 1) @@ ("b" :> None), init |-> ("a" :> None) @@ ("b" :> 0)],
    [rx |-> <<"b">>, tx |-> <<"a">>, inits |-> 1, readable |-> {"b"},
     def |-> Nothing({"a", "b"}), init |-> Nothing({"a", "b"})] }
===============================================================================
