------------------------------ MODULE D1Tables ------------------------------
(***************************************************************************)
(* The tables of core/d1_schema.sql and what the statements of             *)
(* core/memory.py and core/event_store.py do to them.                      *)
(*                                                                         *)
(* A database is the current version of each session's row (0: none) and   *)
(* the rows of its child tables: turns, agentic_events and commands, which *)
(* all reference sessions(id) ON DELETE CASCADE.  A statement is           *)
(*   save   INSERT OR REPLACE INTO sessions                                *)
(*   add    INSERT INTO turns, agentic_events or commands                  *)
(*   clear  DELETE FROM them WHERE session_id = ?                          *)
(*   drop   DELETE FROM sessions WHERE id = ?                              *)
(* for one session; its number is its place in the order of writes, and    *)
(* stands for the version it saves or for the unique id of the row it adds.*)
(*                                                                         *)
(* `fk` says whether the database enforces the schema's foreign keys.  A   *)
(* SQLite connection does so only after PRAGMA foreign_keys = ON, which    *)
(* _execute_local never issues; Cloudflare D1 does so always.              *)
(***************************************************************************)
EXTENDS Naturals

CONSTANT Sessions

Statements == [op: {"save", "add", "clear", "drop"}, of: Sessions]
Tables     == [sess: [Sessions -> Nat], rows: SUBSET (Sessions \X Nat)]

NoRows == [sess |-> [s \in Sessions |-> 0], rows |-> {}]

Children(t, s) == {r \in t.rows : r[1] = s}

\* Does the database take the statement?  A child needs its session's row.
Accepts(t, w, fk) == fk /\ w.op = "add" => t.sess[w.of] # 0

\* REPLACE deletes the old row first, and that deletion cascades.
Cascades(t, w, fk) == /\ fk
                      /\ w.op \in {"save", "drop"}
                      /\ t.sess[w.of] # 0

\* The database after the statement with number i.
Effect(t, w, i, fk) ==
  [sess |-> CASE w.op = "save" -> [t.sess EXCEPT ![w.of] = i]
              [] w.op = "drop" -> [t.sess EXCEPT ![w.of] = 0]
              [] OTHER -> t.sess,
   rows |-> CASE w.op = "add" -> t.rows \cup {<<w.of, i>>}
              [] w.op = "clear" \/ Cascades(t, w, fk) -> t.rows \ Children(t, w.of)
              [] OTHER -> t.rows]
=============================================================================
