------------------------------ MODULE Migrations ------------------------------
(***************************************************************************)
(* Database migrations, internal/infrastructure/database/migrations.go:    *)
(* RunMigrations, which every replica runs when it starts (postgres.go),   *)
(* and the actions of cmd/migrate, over golang-migrate v4.18.3 and         *)
(* PostgreSQL, which are not in the repository and are marked external.    *)
(*                                                                         *)
(* golang-migrate keeps one row, the version and whether a migration to it *)
(* is under way (dirty), and writes it only under an advisory lock of the  *)
(* session.  migrations.go reads that row with no lock, and decides by it  *)
(* whether to Force a version.  What a runner does inside the lock is cut  *)
(* where a crash leaves a different row or schema behind; its session ends *)
(* with it, which frees the lock.  Version 0 stands for no version at all. *)
(***************************************************************************)
EXTENDS Integers

CONSTANTS
    Runners,  \* replicas that start and runs of cmd/migrate; each runs once
    Loads,    \* who of them may be asked to do what
    Files,    \* the versions of the files in the directory migrations
    Found,    \* those whose name golang-migrate takes for a migration
    None      \* nobody

ASSUME FilesAssumption == Files \subseteq Nat \ {0} /\ Found \subseteq Files
ASSUME LoadsAssumption ==
    Loads \subseteq [Runners -> [act : {"start", "up", "down", "to"}, to : Nat]]
ASSUME NoneAssumption == None \notin Runners

VARIABLES
    job,         \* what each runner does
    pc,          \* where it is
    seen,        \* the version it read before it took the lock
    lock,        \* who holds the advisory lock
    version,     \* the row of schema_migrations ...
    dirty,       \* ... and its flag
    applied,     \* the migrations whose statements have been committed
    interrupted  \* history: those whose runner failed or died on the way

record == <<version, dirty>>
vars == <<job, pc, seen, lock, version, dirty, applied, interrupted>>

Init ==
    /\ job \in Loads
    /\ pc = [p \in Runners |-> "idle"]
    /\ seen = [p \in Runners |-> 0]
    /\ lock = None
    /\ version = 0 /\ dirty = FALSE
    /\ applied = {} /\ interrupted = {}

Goto(p, stage) == pc' = [pc EXCEPT ![p] = stage]

\* RunMigrations, of a replica or of the tool.
RunsUp(p) == job[p].act \in {"start", "up"}

-----------------------------------------------------------------------------
\* WithInstance creates the table under the lock, and waits for it for ever.
Connect(p) ==
    /\ pc[p] = "idle"
    /\ lock = None
    /\ Goto(p, "read")
    /\ UNCHANGED <<job, seen, lock, record, applied, interrupted>>

\* Slip: what is forced is the latest version, not the dirty one.
ReadVersionLatest(p) ==
    /\ pc[p] = "read"
    /\ \E v \in Found :
          /\ \A u \in Found : u <= v
          /\ seen' = [seen EXCEPT ![p] = v]
    /\ Goto(p, IF RunsUp(p) /\ dirty /\ version # 0 THEN "force" ELSE "lock")
    /\ UNCHANGED <<job, lock, record, applied, interrupted>>

\* m.Version(), with no lock.  Without a version it returns ErrNilVersion and
\* no flag, and lines 44, 93 and 137 pass over that error.
ReadVersion(p) ==
    /\ pc[p] = "read"
    /\ seen' = [seen EXCEPT ![p] = version]
    /\ Goto(p, IF RunsUp(p) /\ dirty /\ version # 0 THEN "force" ELSE "lock")
    /\ UNCHANGED <<job, lock, record, applied, interrupted>>

\* Slip: without the lock.
ForceVersionUnlocked(p) ==
    /\ pc[p] = "force"
    /\ version' = seen[p] /\ dirty' = FALSE
    /\ Goto(p, "lock")
    /\ UNCHANGED <<job, seen, lock, applied, interrupted>>

\* m.Force: takes the lock, writes the version that was dirty when it was read
\* and clears the flag, whatever the row says by now.
ForceVersion(p) ==
    /\ pc[p] = "force"
    /\ lock = None
    /\ version' = seen[p] /\ dirty' = FALSE
    /\ Goto(p, "lock")
    /\ UNCHANGED <<job, seen, lock, applied, interrupted>>

\* Fifteen seconds without the lock are an error.  The tool exits with it;
\* NewPostgresDB returns it without closing the session that asked.
GiveUp(p) ==
    /\ pc[p] \in {"force", "lock"}
    /\ lock # None
    /\ Goto(p, IF job[p].act = "start" THEN "abandoned" ELSE "gaveup")
    /\ UNCHANGED <<job, seen, lock, record, applied, interrupted>>

\* That session is granted the lock after all, and nobody will release it.
Leak(p) ==
    /\ pc[p] = "abandoned"
    /\ lock = None
    /\ lock' = p
    /\ UNCHANGED <<job, pc, seen, record, applied, interrupted>>

\* Slip: that nothing is left to do is an error, ErrNoChange not excepted.
FeasibleWithChange(p) ==
    /\ version # 0 => version \in Found
    /\ RunsUp(p) => \E v \in Found : v > version
    /\ job[p].act = "down" => version # 0
    /\ job[p].act = "to" => job[p].to \in Found

\* What golang-migrate asks before the first step: that the versions it goes
\* from and to are among the files; that up finds a first one; and that down
\* has one to leave.
Feasible(p) ==
    /\ version # 0 => version \in Found
    /\ RunsUp(p) => Found # {}
    /\ job[p].act = "down" => version # 0
    /\ job[p].act = "to" => job[p].to \in Found

\* Up, Steps and Migrate take the lock, and refuse a dirty row (ErrDirty).
Acquire(p) ==
    /\ pc[p] = "lock"
    /\ lock = None
    /\ IF ~dirty /\ Feasible(p)
       THEN lock' = p /\ Goto(p, "step")
       ELSE lock' = lock /\ Goto(p, "failed")
    /\ UNCHANGED <<job, seen, record, applied, interrupted>>

Rising(p) == \/ RunsUp(p) /\ \E v \in Found : v > version
             \/ job[p].act = "to" /\ job[p].to > version
Falling(p) == job[p].act = "down" \/ (job[p].act = "to" /\ job[p].to < version)

\* SetVersion(next, dirty) before the statements of the next migration are run.
StepUp(p) ==
    /\ pc[p] = "step"
    /\ Rising(p)
    /\ version' \in {v \in Found : v > version /\ \A u \in Found : u > version => v <= u}
    /\ dirty' = TRUE
    /\ Goto(p, "body")
    /\ UNCHANGED <<job, seen, lock, applied, interrupted>>

\* The same on the way down.  There is no file to run: none is named "down".
StepDown(p) ==
    /\ pc[p] = "step"
    /\ Falling(p)
    /\ version' \in {v \in Found \cup {0} : v < version
                                            /\ \A u \in Found : u < version => u <= v}
    /\ dirty' = TRUE
    /\ Goto(p, "clean")
    /\ UNCHANGED <<job, seen, lock, applied, interrupted>>

\* The file is sent as one query, and so as one transaction.  Both files can
\* be run again (IF NOT EXISTS, OR REPLACE).
Body(p) ==
    /\ pc[p] = "body"
    /\ applied' = applied \cup {version}
    /\ Goto(p, "clean")
    /\ UNCHANGED <<job, seen, lock, record, interrupted>>

\* An error of PostgreSQL: the flag stays.
BodyFail(p) ==
    /\ pc[p] = "body"
    /\ interrupted' = interrupted \cup {version}
    /\ lock' = None
    /\ Goto(p, "failed")
    /\ UNCHANGED <<job, seen, record, applied>>

\* Slip: one migration is the whole run.
CleanOnce(p) ==
    /\ pc[p] = "clean"
    /\ dirty' = FALSE
    /\ Goto(p, "unlock")
    /\ UNCHANGED <<job, seen, lock, version, applied, interrupted>>

\* SetVersion(next, clean).  Steps(-1) is over, Up and Migrate look again.
Clean(p) ==
    /\ pc[p] = "clean"
    /\ dirty' = FALSE
    /\ Goto(p, IF job[p].act = "down" THEN "unlock" ELSE "step")
    /\ UNCHANGED <<job, seen, lock, version, applied, interrupted>>

\* Slip: a run that had nothing to do keeps the lock.
UnlockKeeps(p) ==
    /\ pc[p] = "unlock" \/ (pc[p] = "step" /\ ~Rising(p) /\ ~Falling(p))
    /\ lock' = IF version = seen[p] THEN p ELSE None
    /\ Goto(p, IF RunsUp(p) THEN "verify" ELSE "done")
    /\ UNCHANGED <<job, seen, record, applied, interrupted>>

Unlock(p) ==
    /\ pc[p] = "unlock" \/ (pc[p] = "step" /\ ~Rising(p) /\ ~Falling(p))
    /\ lock' = None
    /\ Goto(p, IF RunsUp(p) THEN "verify" ELSE "done")
    /\ UNCHANGED <<job, seen, record, applied, interrupted>>

\* The version RunMigrations logs at its end, read with no lock: if there is
\* none, because somebody has rolled back, the run fails after all.
Verify(p) ==
    /\ pc[p] = "verify"
    /\ Goto(p, IF version = 0 THEN "failed" ELSE "done")
    /\ UNCHANGED <<job, seen, lock, record, applied, interrupted>>

Active == {"read", "force", "lock", "step", "body", "clean", "unlock", "verify"}

\* The process is killed, or its session lost.
Crash(p) ==
    /\ pc[p] \in Active \cup {"abandoned"}
    /\ interrupted' = IF pc[p] = "body" THEN interrupted \cup {version} ELSE interrupted
    /\ lock' = IF lock = p THEN None ELSE lock
    /\ Goto(p, "crashed")
    /\ UNCHANGED <<job, seen, record, applied>>

Run(p) ==
    \/ Connect(p) \/ ReadVersion(p) \/ ForceVersion(p) \/ Acquire(p) \/ StepUp(p)
    \/ StepDown(p) \/ Body(p) \/ BodyFail(p) \/ Clean(p) \/ Unlock(p) \/ Verify(p)

Next == \E p \in Runners : Run(p) \/ GiveUp(p) \/ Leak(p) \/ Crash(p)

Spec == Init /\ [][Next]_vars

\* A process that can go on does.  Only the lock makes one wait, and PostgreSQL
\* grants it in the order in which it was asked for: whoever waits while it is
\* freed again and again has it in the end, hence the strong fairness.  Nobody
\* has to crash or to run out of time.
Fairness == \A p \in Runners : SF_vars(Run(p))

FairSpec == Spec /\ Fairness

-----------------------------------------------------------------------------
Over == {"done", "failed", "gaveup", "abandoned", "crashed"}
Locked == {"step", "body", "clean", "unlock"}

\* Every variable has its type, and only those inside a run hold the lock, or a
\* session nobody uses any more.
TypeOK ==
    /\ job \in Loads
    /\ pc \in [Runners -> {"idle"} \cup Active \cup Over]
    /\ seen \in [Runners -> Found \cup {0}]
    /\ lock \in Runners \cup {None}
    /\ version \in Found \cup {0}
    /\ dirty \in BOOLEAN
    /\ applied \subseteq Found /\ interrupted \subseteq Found
    /\ \A p \in Runners : /\ pc[p] \in Locked => lock = p
                          /\ pc[p] = "body" => version # 0
    /\ lock # None => pc[lock] \in Locked \cup {"abandoned"}

\* Every migration up to v was run, but for those that were interrupted.
Covered(v) == \A u \in Found : u <= v => u \in applied \cup interrupted

\* A row that is not dirty never claims a migration that was not run, save one
\* that failed or died on the way and whose flag a later start has cleared
\* (lines 48-55): whatever version was seen, and however late it is forced.
RecordNeverAhead == ~dirty => Covered(version)

\* While a runner is between the two SetVersion of a migration, nobody else
\* writes the row: a start that saw its flag and takes it for a failure of the
\* past forces the version only after the live run has let go of the lock.
LiveRunKeepsRecord ==
    [][\A p \in Runners :
          (pc[p] \in {"body", "clean"} /\ pc'[p] = pc[p]) => UNCHANGED record]_vars

\* Nobody failed, died, ran out of time or rolled back.
Undisturbed ==
    /\ \A p \in Runners : pc[p] \notin {"crashed", "abandoned", "gaveup"} /\ RunsUp(p)
    /\ interrupted = {}

\* A RunMigrations that has migrated has found every migration run, by itself or
\* by others, save those that were interrupted and whose flag a start has
\* cleared: whatever was rolled back, forced or killed in the meantime.
SuccessMeansSchema ==
    \A p \in Runners :
        (RunsUp(p) /\ pc[p] \in {"verify", "done"}) => Found \subseteq applied \cup interrupted

\* Replicas that start together do not disturb each other: unless a process
\* dies, a statement fails, the lock is held too long or an operator rolls
\* back, every start that is over has succeeded, and the tables and procedures
\* of ALL files are there ("Migrations run on service startup",
\* features/database_operations.feature:106-124).
StartsCreateSchema ==
    Undisturbed => \A p \in Runners : pc[p] \in Over => pc[p] = "done" /\ Files \subseteq applied

\* While a run is inside the lock, between two of its migrations too, the row
\* moves only towards where the run is going, and never past it: a version that
\* a start read without the lock (line 43) and forces late (line 52) neither
\* sets a live run back nor makes it skip a migration.
RunsHeadForTarget ==
    [][\A p \in Runners : pc[p] \in {"step", "body", "clean"} =>
          /\ RunsUp(p) => version' >= version
          /\ job[p].act = "to" =>
                \/ version <= version' /\ version' <= job[p].to
                \/ job[p].to <= version' /\ version' <= version
                \/ version' = version]_vars

\* Every run comes to an end, failures and crashes of others included, unless
\* a replica that gave up waiting keeps the lock its session was granted late.
EveryRunEnds ==
    \A p \in Runners :
        pc[p] \in Active ~> (pc[p] \in Over \/ \E q \in Runners : pc[q] = "abandoned")
=============================================================================
