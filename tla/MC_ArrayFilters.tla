--------------------------- MODULE MC_ArrayFilters ---------------------------
EXTENDS ArrayFilters

MCNum == {1, 4, 7, 11}

\* Comparisons on the element (path "") or its field "a".
Cmp(path, op, v) == [path |-> path, op |-> op, val |-> v]

\* The statements of the arrayDoc tests, and a $set whose filter selects
\* small numbers.
MCStmt ==
  { \* $set meta.$[i] = 100 where i >= 7, every bucket
    [q |-> {}, op |-> "set", field |-> "", val |-> 100,
     filter |-> [conj |-> "and", terms |-> {Cmp("", "gte", 7)}]],
    \* $inc meta.$[i] by 2000 where 6 < i < 15, buckets with an element < 3
    [q |-> {Cmp("", "lt", 3)}, op |-> "inc", field |-> "", val |-> 2000,
     filter |-> [conj |-> "and", terms |-> {Cmp("", "gt", 6), Cmp("", "lt", 15)}]],
    \* $unset meta.$[i] where i < 5 or i > 10, buckets with an element < 2
    [q |-> {Cmp("", "lt", 2)}, op |-> "unset", field |-> "", val |-> 0,
     filter |-> [conj |-> "or", terms |-> {Cmp("", "lt", 5), Cmp("", "gt", 10)}]],
    \* $set meta.$[i].c = 0 where i.a > 5, every bucket
    [q |-> {}, op |-> "set", field |-> "c", val |-> 0,
     filter |-> [conj |-> "and", terms |-> {Cmp("a", "gt", 5)}]],
    \* $set meta.$[i] = 0 where i < 5, every bucket
    [q |-> {}, op |-> "set", field |-> "", val |-> 0,
     filter |-> [conj |-> "and", terms |-> {Cmp("", "lt", 5)}]] }

==============================================================================
