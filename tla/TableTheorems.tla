--------------------------- MODULE TableTheorems ---------------------------
(* Facts about the statements of Tables, for every table and every key, and *)
(* the one about numbers that stands for induction over the depth of a tree.*)
EXTENDS Tables, Integers, TLAPS, FiniteSetTheorems

\* The rows after a delete: none under the key, the others untouched
\* (mapper.deleteByPrimaryKey).
LEMMA DeleteRows ==
    ASSUME NEW table, NEW id
    PROVE  /\ DOMAIN Delete(table, id) = DOMAIN table \ {id}
           /\ \A k \in DOMAIN table \ {id} : Delete(table, id)[k] = table[k]
  BY DEF Delete

\* The rows after an update: the same keys, only the row of the key written,
\* and nothing at all without such a row (mapper.updateByPrimaryKey).
LEMMA UpdateRows ==
    ASSUME NEW table, NEW id, NEW row
    PROVE  /\ DOMAIN Update(table, id, row) = DOMAIN table
           /\ id \in DOMAIN table => Update(table, id, row)[id] = row
           /\ \A k \in DOMAIN table \ {id} : Update(table, id, row)[k] = table[k]
  BY DEF Update

\* A statement that writes a row of rows under a key of ids keeps a table of
\* them one (the column types of ebsystem.sql).
LEMMA InsertIsTable ==
    ASSUME NEW table, NEW ids, NEW rows, IsTable(table, ids, rows),
           NEW id, NEW row \in rows, NEW more, ids \subseteq more, id \in more
    PROVE  IsTable(Insert(table, id, row), more, rows)
  BY DEF Insert, IsTable

LEMMA DeleteIsTable ==
    ASSUME NEW table, NEW ids, NEW rows, IsTable(table, ids, rows), NEW id
    PROVE  IsTable(Delete(table, id), ids, rows)
  BY DEF Delete, IsTable

LEMMA UpdateIsTable ==
    ASSUME NEW table, NEW ids, NEW rows, IsTable(table, ids, rows),
           NEW id, NEW row, id \in DOMAIN table => row \in rows
    PROVE  IsTable(Update(table, id, row), ids, rows)
  BY DEF Update, IsTable

\* The empty table is a table of anything.
LEMMA EmptyIsTable ==
    ASSUME NEW ids, NEW rows
    PROVE  IsTable(EmptyTable, ids, rows)
  BY DEF EmptyTable, IsTable

-----------------------------------------------------------------------------
\* A set of numbers that is not empty has a least one: otherwise the numbers
\* below all of its members would be finitely many and yet hold the next of
\* each of theirs.
LEMMA LeastNumber ==
    ASSUME NEW numbers \in SUBSET Nat, numbers # {}
    PROVE  \E n \in numbers : \A m \in numbers : n <= m
  <1> SUFFICES ASSUME \A n \in numbers : \E m \in numbers : m < n
               PROVE  FALSE
    OBVIOUS
  <1> DEFINE below == {k \in Nat : \A m \in numbers : k < m}
             next == [k \in below |-> k + 1]
  <1>1. PICK n \in numbers : TRUE
    OBVIOUS
  <1>2. below \in SUBSET (0..n)
    BY <1>1
  <1>3. 0 \in below
    OBVIOUS
  <1>4. \A k \in below : k + 1 \in below
    OBVIOUS
  <1>5. IsFiniteSet(below)
    <2>1. IsFiniteSet(0..n)
      BY FS_Interval
    <2>. QED
      BY <1>2, <2>1, FS_Subset
  <1>. HIDE DEF below
  <1>6. next \in Injection(below, below \ {0})
    BY <1>2, <1>4 DEF Injection, IsInjective
  <1>7. /\ IsFiniteSet(below \ {0})
        /\ Cardinality(below \ {0}) = Cardinality(below) - 1
    BY <1>3, <1>5, FS_RemoveElement
  <1>8. Cardinality(below) <= Cardinality(below \ {0})
    BY <1>6, <1>7, FS_Injection
  <1>. QED
    BY <1>5, <1>7, <1>8, FS_CardinalityType
=============================================================================
