------------------------------- MODULE Tables -------------------------------
(***************************************************************************)
(* A database table as a function from the ids in use to rows.             *)
(***************************************************************************)
EXTENDS Naturals

\* The row v under id k, inserted or replaced; the rows whose ids are in K deleted.
Put(f, k, v) == [i \in DOMAIN f \cup {k} |-> IF i = k THEN v ELSE f[i]]
Drop(f, K)   == [i \in DOMAIN f \ K |-> f[i]]

Greatest(D) == CHOOSE m \in D : \A i \in D : i <= m

\* SQLite's INTEGER PRIMARY KEY without AUTOINCREMENT takes the largest id in
\* use plus one, so deleting the newest row gives its id to the next one.
MaxPlusOne(D) == IF D = {} THEN 1 ELSE Greatest(D) + 1
=============================================================================
