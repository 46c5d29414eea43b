------------------------------- MODULE Schema -------------------------------
(***************************************************************************)
(* What a MariaDB server does with the DDL that migrations hold, as far as *)
(* src/adapters/mariadb-adapter.js reasons about it: tables, the foreign   *)
(* keys between them and one column that a migration may add.  External:   *)
(* this is the server's behaviour, not code of the repository.             *)
(*                                                                         *)
(* A statement is a record of the table it is about and, for RENAME and    *)
(* for a foreign key, the other table.                                     *)
(***************************************************************************)
EXTENDS Naturals, Sequences

CONSTANT Tables

Operations ==
  {"create",   \* CREATE TABLE t
   "child",    \* CREATE TABLE t (..., FOREIGN KEY (...) REFERENCES other)
   "drop",     \* DROP TABLE t
   "rename",   \* RENAME TABLE t TO other
   "widen",    \* ALTER TABLE t ADD COLUMN
   "empty",    \* TRUNCATE TABLE t
   "global"}   \* SET GLOBAL ...

Statements == [op : Operations, table : Tables, other : Tables]

Schemas == [tables : SUBSET Tables,
            keys : SUBSET (Tables \X Tables),   \* <<child, parent>>
            wide : SUBSET Tables]               \* have the added column

Creates(s) == s.op \in {"create", "child"}

(* The server refuses what is there already, what is not there, and to     *)
(* take away a table that another one references.                          *)
Refuses(db, s) ==
  \/ Creates(s) /\ s.table \in db.tables
  \/ s.op \in {"drop", "rename", "widen", "empty"} /\ s.table \notin db.tables
  \/ s.op = "child" /\ s.other \notin db.tables \cup {s.table}
  \/ s.op = "rename" /\ s.other \in db.tables
  \/ s.op = "widen" /\ s.table \in db.wide
  \/ /\ s.op \in {"drop", "empty"}
     /\ \E child \in db.tables \ {s.table} : <<child, s.table>> \in db.keys

Renamed(s, t) == IF t = s.table THEN s.other ELSE t

Effect(db, s) ==
  CASE s.op = "create" -> [db EXCEPT !.tables = @ \cup {s.table}]
    [] s.op = "child"  -> [db EXCEPT !.tables = @ \cup {s.table},
                                     !.keys = @ \cup {<<s.table, s.other>>}]
    [] s.op = "drop"   -> [tables |-> db.tables \ {s.table},
                           keys |-> {k \in db.keys : k[1] # s.table},
                           wide |-> db.wide \ {s.table}]
    [] s.op = "rename" -> [tables |-> {Renamed(s, t) : t \in db.tables},
                           keys |-> {<<Renamed(s, k[1]), Renamed(s, k[2])>> :
                                       k \in db.keys},
                           wide |-> {Renamed(s, t) : t \in db.wide}]
    [] s.op = "widen"  -> [db EXCEPT !.wide = @ \cup {s.table}]
    [] s.op \in {"empty", "global"} -> db

(* The schema after the first n statements of a script, each taking effect. *)
After(db, script, n) ==
  LET after[k \in 0..n] ==
        IF k = 0 THEN db ELSE Effect(after[k - 1], script[k])
  IN  after[n]

(* Statements take effect one by one until the server refuses one: how     *)
(* many do.                                                                *)
Reach(db, script) ==
  LET ok == {n \in 0..Len(script) :
               \A k \in 1..n : ~Refuses(After(db, script, k - 1), script[k])}
  IN  CHOOSE n \in ok : \A k \in ok : k <= n

Completes(db, script) == Reach(db, script) = Len(script)
=============================================================================
