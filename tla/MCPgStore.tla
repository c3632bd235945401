------------------------------- MODULE MCPgStore -------------------------------
(***************************************************************************)
(* Processes, documents and the file store for the runs of PgStore.tla.    *)
(***************************************************************************)
EXTENDS PgStore, TLC

CONSTANTS hub, mcp, script, ingest, h1, h2, m1, i1, d1, d2, a, b, c

Layout == h1 :> hub @@ h2 :> hub @@ m1 :> mcp @@ i1 :> script

(* b and c refer to each other's documents; c is of another type. *)
Types == a :> "note" @@ b :> "note" @@ c :> "decision"
References == a :> {} @@ b :> {d2} @@ c :> {d1}

(* The history of d2 was never written. *)
Files ==
    d1 :> [doc |-> b, history |-> <<[old |-> None, new |-> a], [old |-> a, new |-> b]>>]
 @@ d2 :> [doc |-> c, history |-> <<>>]

Calls == {[key |-> None, doc |-> d1, new |-> a], [key |-> ingest, doc |-> d1, new |-> b],
          [key |-> None, doc |-> d2, new |-> a]}

Symmetry == Permutations({h1, h2})
=================================================================================
