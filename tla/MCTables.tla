------------------------------ MODULE MCTables ------------------------------
(* Two tables, an index and a view.  Schema rows sort as indexes, tables,  *)
(* views (i:, t:, v:).                                                     *)
EXTENDS Tables

Column(name, type, notNull, pk, def) ==
    [name |-> name, type |-> type, notNull |-> notNull, pk |-> pk, def |-> def]

MCDesigns ==
    {<<Column("id", "INTEGER", FALSE, TRUE, NoDefault), Column("a", "INTEGER", TRUE, FALSE, NoDefault)>>,
     <<Column("a", "TEXT", FALSE, FALSE, 7), Column("id", "TEXT", TRUE, TRUE, NoDefault)>>,
     <<Column("a", "INTEGER", FALSE, FALSE, NoDefault)>>}
MCNewColumns == {Column("b", "TEXT", TRUE, FALSE, 5), Column("b", "INTEGER", FALSE, FALSE, NoDefault),
                 Column("b", "INTEGER", FALSE, TRUE, NoDefault)}

Given(id, a) == [c \in {"id", "a"} |-> IF c = "id" THEN id ELSE a]
MCInserts == {Given(NullV, IntV(1)), Given(IntV(9), IntV(1)), Given(IntV(99), TextV(1)),
              Given(TextV(1), NullV), [a |-> IntV(2)]}
MCUpdates == {[a |-> IntV(2)], [a |-> NullV], [id |-> IntV(3)], [b |-> NullV]}
=============================================================================
