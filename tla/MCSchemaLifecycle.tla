------------------------- MODULE MCSchemaLifecycle -------------------------
(* An instance of SchemaLifecycle for TLC: one table with a column, of the *)
(* expected or of another type, an index that is expected and one that is  *)
(* not.                                                                    *)
EXTENDS SchemaLifecycle, TLC

CONSTANTS table, column, text, index, extra

MCFacts == {table, column, text, index, extra}
MCKind == (table :> "table" @@ column :> "column" @@ text :> "column"
           @@ index :> "index" @@ extra :> "index")
MCBaseline == {table, column, index}
MCSchemas == {{}, {table, column}, {table, text, index},
              {table, column, index, extra}}
MCSymmetry == Permutations(Migrations) \union Permutations(Backups)
              \union Permutations(Restores)
=============================================================================
