------------------------------ MODULE Counting ------------------------------
(***************************************************************************)
(* How often a value occurs in a sequence (or in any function), and in a   *)
(* family of sequences.  Properties that say that jobs and tasks are       *)
(* neither lost nor run twice count the places that hold them.             *)
(***************************************************************************)
EXTENDS Integers, Sequences, FiniteSets

Times(f, x) == Cardinality({i \in DOMAIN f : f[i] = x})

\* g is a function whose values are sequences.
Positions(g) == UNION {{p} \X DOMAIN g[p] : p \in DOMAIN g}
TimesIn(g, x) == Cardinality({s \in Positions(g) : g[s[1]][s[2]] = x})

\* The jobs in a queue of entries [job, by, ready].
JobsOf(entries) == [i \in DOMAIN entries |-> entries[i].job]
=============================================================================
