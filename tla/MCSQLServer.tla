---------------------------- MODULE MCSQLServer ----------------------------
(* SQLServer with two connections, small tables and a few statements. *)
EXTENDS SQLServer

CONSTANTS c1, c2, t1, t2, id, val

MCClients == {c1, c2}
MCTables == {t1, t2}
MCOneTable == {t1}
MCColumns == {id, val}
MCData == {0, 1}

Row(i, v) == [c \in {id, val} |-> IF c = id THEN i ELSE v]
All == {Row(i, v) : i \in MCData, v \in MCData}
WithVal(v) == {Row(i, v) : i \in MCData}

Create(t) == [kind |-> "create", table |-> t]
Drop(t) == [kind |-> "drop", table |-> t]
Insert(t, r) == [kind |-> "insert", table |-> t, row |-> r]
Update(t, w, c, v) ==
    [kind |-> "update", table |-> t, where |-> w, column |-> c, value |-> v]
DeleteFrom(t, w) == [kind |-> "delete", table |-> t, where |-> w]
SelectFrom(t, w) == [kind |-> "select", table |-> t, where |-> w]

MCStatements ==
    {Create(t1), Drop(t1), Insert(t1, Row(0, 0)), Insert(t1, Row(1, 0)),
     Update(t1, WithVal(0), val, 1), DeleteFrom(t1, All), SelectFrom(t1, All)}
MCUpdates ==
    {Create(t1), Insert(t1, Row(0, 0)), Update(t1, WithVal(0), val, 1),
     DeleteFrom(t1, All)}
=============================================================================
