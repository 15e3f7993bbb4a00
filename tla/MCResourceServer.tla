-------------------------- MODULE MCResourceServer --------------------------
(***************************************************************************)
(* A small instance of ResourceServer for TLC.                             *)
(***************************************************************************)
EXTENDS ResourceServer, TLC

CONSTANTS n1, n2

Interchangeable == Permutations(Calls)

\* A GET that fails; a 404 comes from the lookups too.
SomeFaults == {"upstream_timeout"}

\* All names are spellings of one.
InLowerCase == [n \in Names \cup {Blank} |-> IF n = Blank THEN Blank ELSE n1]

\* A place, a company whose name is not spelt as the cache has it, and one whose
\* name is missing.
SomeQueries == {[route |-> "weather", name |-> n1], [route |-> "enrich", name |-> n2],
                [route |-> "enrich", name |-> Blank]}
=============================================================================
