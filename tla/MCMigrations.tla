----------------------------- MODULE MCMigrations -----------------------------
(* Instances of Migrations for TLC.                                          *)
EXTENDS Migrations, TLC

CONSTANTS r1, r2, r3   \* replicas and operators

ThreeRunners == {r1, r2, r3}

Job(act, to) == [act |-> act, to |-> to]

Start == Job("start", 0)

\* Replicas alone, and beside operators who migrate, go back to the first
\* version, or roll back, twice in one load.
Mixed == {<<Start, Start, Start>>, <<Start, Start, Job("down", 0)>>,
          <<Start, Start, Job("to", 1)>>, <<Start, Job("up", 0), Job("down", 0)>>,
          <<Job("up", 0), Job("down", 0), Job("down", 0)>>}
Loading(loads) == {(r1 :> l[1] @@ r2 :> l[2] @@ r3 :> l[3]) : l \in loads}
MixedLoads == Loading(Mixed)
StartsOnly == Loading({<<Start, Start, Start>>})

\* 001_create_tables.sql and 002_create_procedures.sql, as they would be found
\* under the names 001_create_tables.up.sql and 002_create_procedures.up.sql,
\* and as they are.
BothFiles == {1, 2}
NoneFound == {}
=============================================================================
