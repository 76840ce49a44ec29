--------------------------- MODULE MigrationsProofs ---------------------------
(***************************************************************************)
(* Proofs about Migrations for any runners, whatever they do and whenever  *)
(* they die, and for any set of migrations.                                *)
(***************************************************************************)
EXTENDS Migrations, FiniteSetTheorems, TLAPS

\* Version v and those below it were run, or were interrupted, or v is the one
\* whose statements a live runner is about to run.
Claimed(v) ==
    /\ \A u \in Found : u < v => u \in applied \cup interrupted
    /\ v \in Found => \/ v \in applied \cup interrupted
                      \/ version = v /\ \E q \in Runners : pc[q] = "body"

\* The flag is up exactly where a runner is between its two SetVersion.
Flagged ==
    \A p \in Runners : /\ pc[p] \in {"body", "clean"} => dirty
                       /\ pc[p] \in {"step", "unlock"} => ~dirty

\* Only a rollback stops before the last of its migrations.
StopsAtEnd == \A p \in Runners : pc[p] = "unlock" => ~RunsUp(p)

\* What is in the row, and what a start has seen in it and is about to force.
RowClaimed == Claimed(version)
SeenClaimed == \A p \in Runners : pc[p] = "force" => Claimed(seen[p])

IInv == TypeOK /\ Flagged /\ StopsAtEnd /\ RowClaimed /\ SeenClaimed /\ SuccessMeansSchema

LEMMA InvariantInit == Init => IInv
<1>. SUFFICES ASSUME Init PROVE IInv
  OBVIOUS
<1>1. TypeOK
  BY NoneAssumption DEF Init, TypeOK, Active, Over, Locked
<1>2. Flagged /\ StopsAtEnd /\ SeenClaimed /\ SuccessMeansSchema
  BY DEF Init, Flagged, StopsAtEnd, SeenClaimed, SuccessMeansSchema
<1>3. RowClaimed
  BY FilesAssumption DEF Init, RowClaimed, Claimed
<1>. QED  BY <1>1, <1>2, <1>3 DEF IInv

-----------------------------------------------------------------------------
LEMMA TypeStep == ASSUME TypeOK, [Next]_vars PROVE TypeOK'
<1>. USE FilesAssumption, NoneAssumption DEF TypeOK, Active, Over, Locked, Goto, record
<1>1. ASSUME NEW p \in Runners, Connect(p) PROVE TypeOK'
  BY <1>1 DEF Connect
<1>2. ASSUME NEW p \in Runners, ReadVersion(p) PROVE TypeOK'
  BY <1>2 DEF ReadVersion
<1>3. ASSUME NEW p \in Runners, ForceVersion(p) PROVE TypeOK'
  <2>1. \A q \in Runners : pc[q] \notin Locked
    BY <1>3 DEF ForceVersion
  <2>2. \A q \in Runners : pc'[q] \notin Locked
    BY <1>3, <2>1 DEF ForceVersion
  <2>. QED  BY <1>3, <2>2 DEF ForceVersion
<1>4. ASSUME NEW p \in Runners, Verify(p) PROVE TypeOK'
  BY <1>4 DEF Verify
<1>5. ASSUME NEW p \in Runners, Acquire(p) PROVE TypeOK'
  BY <1>5 DEF Acquire
<1>6. ASSUME NEW p \in Runners, GiveUp(p) PROVE TypeOK'
  BY <1>6 DEF GiveUp
<1>7. ASSUME NEW p \in Runners, Leak(p) PROVE TypeOK'
  BY <1>7 DEF Leak
<1>8. ASSUME NEW p \in Runners, StepUp(p) PROVE TypeOK'
  BY <1>8 DEF StepUp
<1>9. ASSUME NEW p \in Runners, StepDown(p) PROVE TypeOK'
  BY <1>9 DEF StepDown
<1>10. ASSUME NEW p \in Runners, Body(p) PROVE TypeOK'
  BY <1>10 DEF Body
<1>11. ASSUME NEW p \in Runners, BodyFail(p) PROVE TypeOK'
  BY <1>11 DEF BodyFail
<1>12. ASSUME NEW p \in Runners, Clean(p) PROVE TypeOK'
  BY <1>12 DEF Clean
<1>13. ASSUME NEW p \in Runners, Unlock(p) PROVE TypeOK'
  BY <1>13 DEF Unlock
<1>14. ASSUME NEW p \in Runners, Crash(p) PROVE TypeOK'
  BY <1>14 DEF Crash
<1>15. CASE UNCHANGED vars
  BY <1>15 DEF vars
<1>. HIDE DEF TypeOK, Active, Over, Locked, Goto
<1>. QED
  BY <1>1, <1>2, <1>3, <1>4, <1>5, <1>6, <1>7, <1>8, <1>9, <1>10, <1>11, <1>12, <1>13, <1>14, <1>15
  DEF Next, Run

\* The lock excludes: one runner at most is inside it.
LEMMA Exclusive ==
    ASSUME TypeOK, NEW p \in Runners, NEW q \in Runners, pc[p] \in Locked, pc[q] \in Locked
    PROVE  p = q
BY DEF TypeOK

LEMMA Unheld == ASSUME TypeOK, lock = None, NEW p \in Runners PROVE pc[p] \notin Locked
BY NoneAssumption DEF TypeOK

\* The flag is put up and taken down by the runner that is inside.
LEMMA FlaggedStep == ASSUME TypeOK, TypeOK', Flagged, [Next]_vars PROVE Flagged'
<1>. USE DEF Flagged, Goto, record
<1>1. ASSUME NEW p \in Runners,
             Connect(p) \/ ReadVersion(p) \/ GiveUp(p) \/ Leak(p) \/ Verify(p)
      PROVE  Flagged'
  BY <1>1 DEF Connect, ReadVersion, GiveUp, Leak, Verify, TypeOK
<1>2. ASSUME NEW p \in Runners, ForceVersion(p) PROVE Flagged'
  <2>1. \A q \in Runners : pc[q] \notin Locked
    BY <1>2, Unheld DEF ForceVersion
  <2>. QED  BY <1>2, <2>1 DEF ForceVersion, TypeOK, Locked
<1>3. ASSUME NEW p \in Runners, Acquire(p) PROVE Flagged'
  BY <1>3 DEF Acquire, TypeOK
<1>4. ASSUME NEW p \in Runners, StepUp(p) \/ StepDown(p) \/ Clean(p) PROVE Flagged'
  <2>1. pc[p] \in Locked /\ \A q \in Runners : q # p => pc[q] \notin Locked
    BY <1>4, Exclusive DEF StepUp, StepDown, Clean, Locked
  <2>. QED  BY <1>4, <2>1 DEF StepUp, StepDown, Clean, TypeOK, Locked
<1>5. ASSUME NEW p \in Runners, Body(p) \/ BodyFail(p) \/ Unlock(p) \/ Crash(p)
      PROVE  Flagged'
  BY <1>5 DEF Body, BodyFail, Unlock, Crash, TypeOK
<1>6. CASE UNCHANGED vars
  BY <1>6 DEF vars
<1>. HIDE DEF Flagged, Goto
<1>. QED  BY <1>1, <1>2, <1>3, <1>4, <1>5, <1>6 DEF Next, Run

-----------------------------------------------------------------------------
\* What has been run or interrupted stays so; a claim that rests on a live
\* runner lasts as long as that runner is about to run the statements.
LEMMA ClaimKept ==
    ASSUME applied \subseteq applied', interrupted \subseteq interrupted',
           NEW v, Claimed(v),
           \A q \in Runners : (pc[q] = "body" /\ version = v) =>
               \/ pc'[q] = "body" /\ version' = v
               \/ v \in applied' \cup interrupted'
    PROVE  Claimed(v)'
BY DEF Claimed

\* A claim that rests on nobody is that the version is covered.
LEMMA ClaimCovers ==
    ASSUME TypeOK, NEW v \in Found \cup {0}, Claimed(v),
           \A q \in Runners : pc[q] # "body"
    PROVE  Covered(v)
BY FilesAssumption DEF Claimed, Covered

LEMMA CoveredClaimed ==
    ASSUME NEW v \in Found \cup {0}, NEW w \in Found \cup {0}, w <= v,
           Covered(v), applied \subseteq applied', interrupted \subseteq interrupted'
    PROVE  Claimed(w)'
BY FilesAssumption DEF Claimed, Covered

LEMMA ClaimsStep ==
    ASSUME TypeOK, TypeOK', Flagged, RowClaimed, SeenClaimed, [Next]_vars
    PROVE  RowClaimed' /\ SeenClaimed'
<1>. USE DEF RowClaimed, SeenClaimed, Goto, record
<1>1. ASSUME NEW p \in Runners,
             Connect(p) \/ GiveUp(p) \/ Leak(p) \/ Verify(p) \/ Acquire(p) \/ Clean(p)
                \/ Unlock(p)
      PROVE  RowClaimed' /\ SeenClaimed'
  <2>1. /\ UNCHANGED <<applied, interrupted, version, seen>>
        /\ \A q \in Runners : pc[q] = "body" => pc'[q] = "body"
        /\ \A q \in Runners : pc'[q] = "force" => pc[q] = "force"
    BY <1>1 DEF Connect, GiveUp, Leak, Verify, Acquire, Clean, Unlock, TypeOK
  <2>2. \A v : Claimed(v) => Claimed(v)'
    BY <2>1, ClaimKept
  <2>. QED  BY <2>1, <2>2
<1>2. ASSUME NEW p \in Runners, ReadVersion(p) PROVE RowClaimed' /\ SeenClaimed'
  <2>1. /\ UNCHANGED <<applied, interrupted, version>>
        /\ \A q \in Runners : pc[q] = "body" => pc'[q] = "body"
        /\ \A q \in Runners : pc'[q] = "force" =>
               (pc[q] = "force" /\ seen'[q] = seen[q]) \/ seen'[q] = version
    BY <1>2 DEF ReadVersion, TypeOK
  <2>2. \A v : Claimed(v) => Claimed(v)'
    BY <2>1, ClaimKept
  <2>. QED  BY <2>1, <2>2
<1>3. ASSUME NEW p \in Runners, ForceVersion(p) PROVE RowClaimed' /\ SeenClaimed'
  <2>1. \A q \in Runners : pc[q] # "body"
    BY <1>3, Unheld DEF ForceVersion, Locked
  <2>2. /\ UNCHANGED <<applied, interrupted, seen>> /\ version' = seen[p]
        /\ \A q \in Runners : pc'[q] = "force" => pc[q] = "force"
        /\ pc[p] = "force"
    BY <1>3 DEF ForceVersion, TypeOK
  <2>3. \A v : Claimed(v) => Claimed(v)'
    BY <2>1, <2>2, ClaimKept
  <2>. QED  BY <2>2, <2>3
<1>4. ASSUME NEW p \in Runners, StepUp(p) PROVE RowClaimed' /\ SeenClaimed'
  <2>1. \A q \in Runners : pc[q] # "body"
    BY <1>4, Exclusive DEF StepUp, Locked
  <2>2. /\ UNCHANGED <<applied, interrupted, seen>> /\ pc'[p] = "body"
        /\ \A q \in Runners : pc'[q] = "force" => pc[q] = "force"
    BY <1>4 DEF StepUp, TypeOK
  <2>3. \A v : Claimed(v) => Claimed(v)'
    BY <2>1, <2>2, ClaimKept
  <2>4. Covered(version)
    BY <2>1, ClaimCovers DEF TypeOK
  <2>5. version' \in Found /\ \A u \in Found : u < version' => u <= version
    BY <1>4, FilesAssumption DEF StepUp, TypeOK
  <2>6. RowClaimed'
    BY <2>2, <2>4, <2>5 DEF Claimed, Covered
  <2>. QED  BY <2>2, <2>3, <2>6
<1>5. ASSUME NEW p \in Runners, StepDown(p) PROVE RowClaimed' /\ SeenClaimed'
  <2>1. \A q \in Runners : pc[q] # "body"
    BY <1>5, Exclusive DEF StepDown, Locked
  <2>2. /\ UNCHANGED <<applied, interrupted, seen>>
        /\ \A q \in Runners : pc'[q] = "force" => pc[q] = "force"
    BY <1>5 DEF StepDown, TypeOK
  <2>3. \A v : Claimed(v) => Claimed(v)'
    BY <2>1, <2>2, ClaimKept
  <2>4. Covered(version)
    BY <2>1, ClaimCovers DEF TypeOK
  <2>5. version' \in Found \cup {0} /\ version' <= version
    BY <1>5, FilesAssumption DEF StepDown, TypeOK
  <2>6. RowClaimed'
    BY <2>2, <2>4, <2>5, FilesAssumption DEF Claimed, Covered, TypeOK
  <2>. QED  BY <2>2, <2>3, <2>6
<1>6. ASSUME NEW p \in Runners, Body(p) \/ BodyFail(p) \/ Crash(p)
      PROVE  RowClaimed' /\ SeenClaimed'
  <2>1. /\ UNCHANGED <<version, seen>>
        /\ applied \subseteq applied' /\ interrupted \subseteq interrupted'
        /\ \A q \in Runners : pc'[q] = "force" => pc[q] = "force"
    BY <1>6 DEF Body, BodyFail, Crash, TypeOK
  <2>2. \A q \in Runners : pc[q] = "body" =>
            pc'[q] = "body" \/ version \in applied' \cup interrupted'
    BY <1>6 DEF Body, BodyFail, Crash, TypeOK
  <2>3. \A v : Claimed(v) => Claimed(v)'
    BY <2>1, <2>2, ClaimKept
  <2>. QED  BY <2>1, <2>3
<1>7. CASE UNCHANGED vars
  BY <1>7 DEF vars, Claimed
<1>. HIDE DEF RowClaimed, SeenClaimed, Goto
<1>. QED  BY <1>1, <1>2, <1>3, <1>4, <1>5, <1>6, <1>7 DEF Next, Run

\* Who has migrated has come to the last file, and the row was clean when it did.
LEMMA SuccessStep ==
    ASSUME IInv, [Next]_vars
    PROVE  StopsAtEnd' /\ SuccessMeansSchema'
<1>. USE DEF StopsAtEnd, SuccessMeansSchema, RunsUp, Goto, record
<1>. TypeOK /\ Flagged /\ StopsAtEnd /\ RowClaimed /\ SuccessMeansSchema
  BY DEF IInv
<1>1. ASSUME NEW p \in Runners,
             Connect(p) \/ ReadVersion(p) \/ ForceVersion(p) \/ Acquire(p) \/ StepUp(p)
                \/ StepDown(p) \/ Clean(p) \/ Verify(p) \/ GiveUp(p) \/ Leak(p)
      PROVE  StopsAtEnd' /\ SuccessMeansSchema'
  BY <1>1 DEF Connect, ReadVersion, ForceVersion, Acquire, StepUp, StepDown, Clean, Verify,
              GiveUp, Leak, TypeOK
<1>2. ASSUME NEW p \in Runners, Body(p) \/ BodyFail(p) \/ Crash(p)
      PROVE  StopsAtEnd' /\ SuccessMeansSchema'
  BY <1>2 DEF Body, BodyFail, Crash, TypeOK
<1>3. ASSUME NEW p \in Runners, Unlock(p) PROVE StopsAtEnd' /\ SuccessMeansSchema'
  <2>1. RunsUp(p) => Found \subseteq applied \cup interrupted
    <3>. SUFFICES ASSUME RunsUp(p) PROVE Found \subseteq applied \cup interrupted
      OBVIOUS
    <3>1. pc[p] = "step" /\ \A v \in Found : v <= version
      BY <1>3, FilesAssumption DEF Unlock, Rising, TypeOK
    <3>2. \A q \in Runners : pc[q] # "body"
      BY <3>1 DEF Flagged
    <3>3. Covered(version)
      BY <3>2, ClaimCovers DEF RowClaimed, TypeOK
    <3>. QED  BY <3>1, <3>3 DEF Covered
  <2>2. UNCHANGED <<job, applied, interrupted>> /\ \A q \in Runners : q # p => pc'[q] = pc[q]
    BY <1>3 DEF Unlock, TypeOK
  <2>3. pc'[p] # "unlock"
    BY <1>3 DEF Unlock, TypeOK
  <2>. QED  BY <2>1, <2>2, <2>3
<1>4. CASE UNCHANGED vars
  BY <1>4 DEF vars
<1>. HIDE DEF StopsAtEnd, SuccessMeansSchema, Goto
<1>. QED  BY <1>1, <1>2, <1>3, <1>4 DEF Next, Run

LEMMA InvariantStep == ASSUME IInv, [Next]_vars PROVE IInv'
BY TypeStep, FlaggedStep, ClaimsStep, SuccessStep DEF IInv

LEMMA Invariant == Spec => []IInv
BY InvariantInit, InvariantStep, PTL DEF Spec

-----------------------------------------------------------------------------
\* Types hold, and the lock is held by nobody but a runner inside a run or a
\* session that was given up.
THEOREM TypeCorrect == Spec => []TypeOK
BY Invariant, PTL DEF IInv

\* A row that is not dirty claims no migration but those that were run or
\* interrupted: for any number of starts, rollbacks, crashes and stale forces.
THEOREM RecordHolds == Spec => []RecordNeverAhead
<1>1. IInv => RecordNeverAhead
  BY ClaimCovers DEF IInv, Flagged, RowClaimed, RecordNeverAhead, TypeOK
<1>. QED  BY <1>1, Invariant, PTL

\* Whoever has migrated has found every migration run, save the interrupted
\* ones: for any other runners, rollbacks, crashes and stale forces.
THEOREM SuccessIsSchema == Spec => []SuccessMeansSchema
BY Invariant, PTL DEF IInv

\* Nobody writes the row while a runner is between its two SetVersion.
THEOREM LiveRunIsSafe == Spec => LiveRunKeepsRecord
<1>1. TypeOK /\ [Next]_vars =>
        [\A p \in Runners :
            (pc[p] \in {"body", "clean"} /\ pc'[p] = pc[p]) => UNCHANGED record]_vars
  <2>. SUFFICES ASSUME TypeOK, Next, NEW p \in Runners,
                       pc[p] \in {"body", "clean"}, pc'[p] = pc[p]
                PROVE  UNCHANGED record
    BY DEF vars, record
  <2>1. ASSUME NEW q \in Runners, ForceVersion(q) PROVE UNCHANGED record
    BY <2>1, Unheld DEF ForceVersion, Locked
  <2>2. ASSUME NEW q \in Runners, StepUp(q) \/ StepDown(q) PROVE UNCHANGED record
    BY <2>2, Exclusive DEF StepUp, StepDown, Locked
  <2>3. ASSUME NEW q \in Runners, Clean(q) PROVE UNCHANGED record
    <3>1. q = p
      BY <2>3, Exclusive DEF Clean, Locked
    <3>. QED  BY <2>3, <3>1 DEF Clean, Goto, TypeOK
  <2>. QED
    BY <2>1, <2>2, <2>3 DEF Next, Run, Connect, ReadVersion, Acquire, Body, BodyFail, Unlock,
                            Verify, GiveUp, Leak, Crash, record
<1>. QED  BY <1>1, TypeCorrect, PTL DEF Spec, LiveRunKeepsRecord

\* A rollback of the first migration that was interrupted leaves a flag that
\* nobody sees, because there is no version to force (lines 43-48): from then on
\* nobody comes to force one, and nothing changes the row.
LostFlagStays ==
    [][(/\ dirty /\ version = 0 /\ lock = None
        /\ \A p \in Runners : pc[p] # "force")
            => UNCHANGED record /\ \A p \in Runners : pc'[p] # "force"]_vars

\* That flag stays for good, whatever starts and whatever action of the tool is
\* run, "force" included: cmd/migrate/main.go:101 calls MigrateToVersion for it,
\* which refuses a dirty row.
THEOREM FlagIsLost == Spec => LostFlagStays
<1>1. TypeOK /\ [Next]_vars =>
        [(/\ dirty /\ version = 0 /\ lock = None
          /\ \A p \in Runners : pc[p] # "force")
             => UNCHANGED record /\ \A p \in Runners : pc'[p] # "force"]_vars
  <2>. SUFFICES ASSUME TypeOK, Next, dirty, version = 0, lock = None,
                       \A p \in Runners : pc[p] # "force"
                PROVE  UNCHANGED record /\ \A p \in Runners : pc'[p] # "force"
    BY DEF vars, record
  <2>1. \A p \in Runners : pc[p] \notin Locked
    BY Unheld
  <2>2. ASSUME NEW q \in Runners,
               StepUp(q) \/ StepDown(q) \/ Body(q) \/ BodyFail(q) \/ Clean(q) \/ ForceVersion(q)
        PROVE  FALSE
    BY <2>1, <2>2 DEF StepUp, StepDown, Body, BodyFail, Clean, ForceVersion, Locked
  <2>3. ASSUME NEW q \in Runners,
               Connect(q) \/ ReadVersion(q) \/ Acquire(q) \/ Unlock(q) \/ Verify(q)
                  \/ GiveUp(q) \/ Leak(q) \/ Crash(q)
        PROVE  UNCHANGED record /\ \A p \in Runners : pc'[p] # "force"
    BY <2>3 DEF Connect, ReadVersion, Acquire, Unlock, Verify, GiveUp, Leak, Crash, Goto,
                record, TypeOK
  <2>. QED  BY <2>2, <2>3 DEF Next, Run
<1>. QED  BY <1>1, TypeCorrect, PTL DEF Spec, LostFlagStays

-----------------------------------------------------------------------------
(***************************************************************************)
(* Starts that nothing disturbs all succeed.  A flag then always has a live *)
(* runner, so that whoever gets the lock finds none; nobody takes a version *)
(* away; and a run ends at the last file.                                   *)
(***************************************************************************)
Calm ==
    /\ dirty => \E p \in Runners : pc[p] \in {"body", "clean"}
    /\ \A p \in Runners :
          /\ pc[p] \in {"verify", "done"} => Found \subseteq applied /\ version # 0
          /\ pc[p] = "force" => seen[p] # 0
          /\ pc[p] \notin {"failed", "unlock"}

\* Nobody changes job, what was interrupted stays so, and so does who is lost.
Lost(p) == pc[p] \in {"crashed", "abandoned", "gaveup"}
OnlyWorse == /\ job' = job /\ interrupted \subseteq interrupted'
             /\ \A q \in Runners : Lost(q) => Lost(q)'

LEMMA DisturbedStays ==
    ASSUME TypeOK, [Next]_vars, Undisturbed' PROVE Undisturbed
<1>1. OnlyWorse
  <2>. USE DEF OnlyWorse, Lost, Goto
  <2>1. ASSUME NEW p \in Runners, Run(p) PROVE OnlyWorse
    BY <2>1 DEF Run, Connect, ReadVersion, ForceVersion, Acquire, StepUp, StepDown, Body,
                BodyFail, Clean, Unlock, Verify, TypeOK
  <2>2. ASSUME NEW p \in Runners, GiveUp(p) \/ Leak(p) \/ Crash(p) PROVE OnlyWorse
    BY <2>2 DEF GiveUp, Leak, Crash, TypeOK
  <2>3. CASE UNCHANGED vars
    BY <2>3 DEF vars
  <2>. QED  BY <2>1, <2>2, <2>3 DEF Next
<1>. QED  BY <1>1 DEF OnlyWorse, Lost, Undisturbed, RunsUp

LEMMA PositiveBelow == ASSUME NEW x, NEW v \in Nat \ {0}, v <= x PROVE x # 0
OBVIOUS

LEMMA CalmStep ==
    ASSUME IInv, Calm, Undisturbed, Undisturbed', Found # {}, [Next]_vars
    PROVE  Calm'
<1>. USE DEF Calm, Goto, record
<1>. TypeOK /\ Flagged
  BY DEF IInv
<1>. \A p \in Runners : RunsUp(p)
  BY DEF Undisturbed
<1>1. ASSUME NEW p \in Runners, Connect(p) \/ ReadVersion(p) PROVE Calm'
  BY <1>1 DEF Connect, ReadVersion, TypeOK
<1>2. ASSUME NEW p \in Runners, ForceVersion(p) PROVE Calm'
  BY <1>2 DEF ForceVersion, TypeOK
<1>3. ASSUME NEW p \in Runners, Acquire(p) PROVE Calm'
  <2>1. ~dirty
    BY <1>3, Unheld DEF Acquire, Locked
  <2>2. Feasible(p)
    BY NoneAssumption DEF Feasible, RunsUp, TypeOK
  <2>. QED  BY <1>3, <2>1, <2>2 DEF Acquire, TypeOK
<1>4. ASSUME NEW p \in Runners, StepUp(p) PROVE Calm'
  BY <1>4, FilesAssumption DEF StepUp, TypeOK
<1>5. ASSUME NEW p \in Runners, StepDown(p) PROVE FALSE
  BY <1>5 DEF StepDown, Falling, RunsUp
<1>6. ASSUME NEW p \in Runners, Body(p) \/ Clean(p) PROVE Calm'
  BY <1>6 DEF Body, Clean, TypeOK, RunsUp
<1>7. ASSUME NEW p \in Runners, Unlock(p) PROVE Calm'
  <2>1. /\ pc[p] = "step" /\ ~dirty
        /\ \A v \in Found : v <= version
    BY <1>7, FilesAssumption DEF Unlock, Flagged, Rising, TypeOK
  <2>2. Found \subseteq applied /\ version # 0
    <3>1. Covered(version)
      BY <2>1, ClaimCovers DEF IInv, RowClaimed, Flagged, TypeOK
    <3>2. Found \subseteq applied
      BY <2>1, <3>1 DEF Covered, Undisturbed
    <3>3. version # 0
      <4>1. PICK v \in Found : v <= version
        BY <2>1
      <4>2. v \in Nat \ {0}
        BY FilesAssumption
      <4>. QED  BY <4>1, <4>2, PositiveBelow
    <3>. QED  BY <3>2, <3>3
  <2>. QED  BY <1>7, <2>1, <2>2 DEF Unlock, TypeOK
<1>8. ASSUME NEW p \in Runners, Verify(p) PROVE Calm'
  BY <1>8 DEF Verify, TypeOK
<1>9. ASSUME NEW p \in Runners, BodyFail(p) \/ GiveUp(p) \/ Crash(p) PROVE FALSE
  BY <1>9 DEF BodyFail, GiveUp, Crash, Undisturbed, TypeOK
<1>10. ASSUME NEW p \in Runners, Leak(p) PROVE Calm'
  BY <1>10 DEF Leak, TypeOK
<1>11. CASE UNCHANGED vars
  BY <1>11 DEF vars
<1>. HIDE DEF Calm, Goto
<1>. QED  BY <1>1, <1>2, <1>3, <1>4, <1>5, <1>6, <1>7, <1>8, <1>9, <1>10, <1>11 DEF Next, Run

\* Where golang-migrate finds every file, and there is one, starts that nothing
\* disturbs all succeed and leave the whole schema behind them.
THEOREM StartsSucceed ==
    ASSUME Found = Files, Files # {}
    PROVE  Spec => []StartsCreateSchema
<1>. DEFINE CInv == IInv /\ (Undisturbed => Calm)
<1>1. Init => CInv
  BY InvariantInit DEF Init, Calm
<1>2. CInv /\ [Next]_vars => CInv'
  <2>. SUFFICES ASSUME CInv, [Next]_vars PROVE CInv'
    OBVIOUS
  <2>1. IInv' /\ TypeOK
    BY InvariantStep DEF IInv
  <2>. QED  BY <2>1, DisturbedStays, CalmStep
<1>3. CInv => StartsCreateSchema
  BY DEF Calm, StartsCreateSchema, Undisturbed, Over
<1>. QED  BY <1>1, <1>2, <1>3, PTL DEF Spec

\* Without a file it takes for a migration, golang-migrate lets no RunMigrations
\* through: every start and every up fails, and nothing is ever created.  Run
\* migrations_unnamed shows one such start; here it is all of them.
THEOREM NoFileNoStart ==
    ASSUME Found = {}
    PROVE  Spec => [](applied = {} /\ \A p \in Runners : RunsUp(p) => pc[p] # "done")
<1>. DEFINE Barred ==
         /\ applied = {}
         /\ \A p \in Runners : /\ pc[p] # "body"
                               /\ RunsUp(p) => pc[p] \notin Locked \cup {"verify", "done"}
<1>1. Init => Barred
  BY DEF Init, Locked
<1>2. TypeOK /\ Barred /\ [Next]_vars => Barred'
  <2>. SUFFICES ASSUME TypeOK, Barred, [Next]_vars PROVE Barred'
    OBVIOUS
  <2>. USE DEF RunsUp, Goto, Locked, record
  <2>1. ASSUME NEW p \in Runners,
               Connect(p) \/ ReadVersion(p) \/ ForceVersion(p) \/ GiveUp(p) \/ Leak(p)
                  \/ Verify(p) \/ Crash(p)
        PROVE  Barred'
    BY <2>1 DEF Connect, ReadVersion, ForceVersion, GiveUp, Leak, Verify, Crash, TypeOK
  <2>2. ASSUME NEW p \in Runners, Acquire(p) PROVE Barred'
    BY <2>2 DEF Acquire, Feasible, TypeOK
  <2>3. ASSUME NEW p \in Runners, StepDown(p) \/ Clean(p) \/ Unlock(p) PROVE Barred'
    BY <2>3 DEF StepDown, Clean, Unlock, TypeOK
  <2>4. ASSUME NEW p \in Runners, StepUp(p) \/ Body(p) \/ BodyFail(p) PROVE FALSE
    <3>1. ~StepUp(p)
      <4>. SUFFICES ASSUME StepUp(p) PROVE version' \in Found
        OBVIOUS
      <4>. QED  BY DEF StepUp
    <3>. QED  BY <2>4, <3>1 DEF Body, BodyFail
  <2>5. CASE UNCHANGED vars
    BY <2>5 DEF vars
  <2>. HIDE DEF Barred
  <2>. QED  BY <2>1, <2>2, <2>3, <2>4, <2>5 DEF Next, Run
<1>3. Barred => applied = {} /\ \A p \in Runners : RunsUp(p) => pc[p] # "done"
  OBVIOUS
<1>. QED  BY <1>1, <1>2, <1>3, TypeCorrect, PTL DEF Spec
-----------------------------------------------------------------------------
(***************************************************************************)
(* A run never gets stuck inside the lock, and heads one way.              *)
(***************************************************************************)
\* A set of numbers that is not empty has a least one, and a greatest if it is
\* bounded: golang-migrate finds a next version wherever there is one.
LEMMA Least ==
    ASSUME NEW S \in SUBSET Nat, S # {}
    PROVE  \E v \in S : \A u \in S : v <= u
<1>. DEFINE below(v) == {u \in S : u < v}
            F == {below(v) : v \in S}
<1>1. ASSUME NEW v \in S PROVE below(v) \in FiniteSubsetsOf(S)
  <2>1. v \in Int /\ 0 \in Int
    OBVIOUS
  <2>2. IsFiniteSet(0 .. v)
    BY <2>1, FS_Interval
  <2>3. ASSUME NEW u \in below(v) PROVE u \in 0 .. v
    <3>1. u \in S /\ u < v
      OBVIOUS
    <3>2. u \in Nat /\ v \in Nat
      BY <3>1
    <3>. QED  BY <3>1, <3>2
  <2>4. IsFiniteSet(below(v))
    BY <2>2, <2>3, FS_Subset
  <2>. QED  BY <2>4 DEF FiniteSubsetsOf
<1>2. F \subseteq FiniteSubsetsOf(S) /\ F # {}
  BY <1>1
<1>3. PICK X \in F : \A Y \in F : <<Y, X>> \notin StrictSubsetOrdering(S)
  <2>. HIDE DEF F
  <2>. QED  BY <1>2, FS_StrictSubsetOrderingWellFounded, WFMin
<1>4. PICK v \in S : X = below(v)
  OBVIOUS
<1>5. ASSUME NEW u \in S PROVE v <= u
  <2>. SUFFICES ASSUME u < v PROVE FALSE
    OBVIOUS
  <2>1. below(u) \in F /\ <<below(u), X>> \notin StrictSubsetOrdering(S)
    BY <1>3
  <2>2. u \in Nat /\ v \in Nat
    OBVIOUS
  <2>3. \A x \in S : x < u => x < v
    <3>. TAKE x \in S
    <3>1. x \in Nat
      OBVIOUS
    <3>. QED  BY <2>2, <3>1
  <2>4. below(u) \subseteq below(v) /\ u \in below(v)
    BY <2>3
  <2>6. u \notin below(u)
    BY <2>2
  <2>5. below(v) \in SUBSET S /\ below(u) \in SUBSET S
    OBVIOUS
  <2>. HIDE DEF below
  <2>. QED  BY <1>4, <2>1, <2>4, <2>5, <2>6 DEF StrictSubsetOrdering
<1>. QED  BY <1>5

LEMMA Greatest ==
    ASSUME NEW S \in SUBSET Nat, S # {}, NEW b \in Nat, \A u \in S : u <= b
    PROVE  \E v \in S : \A u \in S : u <= v
<1>. DEFINE T == {b - u : u \in S}
<1>1. T \in SUBSET Nat
  OBVIOUS
<1>2. T # {}
  <2>1. PICK u \in S : TRUE
    OBVIOUS
  <2>. QED  BY <2>1
<1>3. PICK w \in T : \A x \in T : w <= x
  <2>. HIDE DEF T
  <2>. QED  BY <1>1, <1>2, Least
<1>4. PICK v \in S : w = b - v
  OBVIOUS
<1>5. ASSUME NEW u \in S PROVE u <= v
  <2>1. b - u \in T
    OBVIOUS
  <2>. QED  BY <1>3, <1>4, <2>1
<1>. QED  BY <1>5

\* What Acquire asked of the target and of the row holds for as long as the
\* run looks for a next version: it is inside the lock.
Aimed ==
    \A p \in Runners :
        /\ pc[p] = "step" /\ job[p].act = "down" => version # 0
        /\ pc[p] \in {"step", "body", "clean"} /\ job[p].act = "to" => job[p].to \in Found

LEMMA AimedStep == ASSUME TypeOK, TypeOK', Aimed, [Next]_vars PROVE Aimed'
<1>. USE DEF Aimed, Goto, record
<1>1. ASSUME NEW p \in Runners,
             Connect(p) \/ ReadVersion(p) \/ GiveUp(p) \/ Leak(p) \/ Verify(p) \/ Body(p)
                \/ BodyFail(p) \/ Clean(p) \/ Unlock(p) \/ Crash(p)
      PROVE  Aimed'
  BY <1>1 DEF Connect, ReadVersion, GiveUp, Leak, Verify, Body, BodyFail, Clean, Unlock, Crash,
              TypeOK
<1>2. ASSUME NEW p \in Runners, ForceVersion(p) PROVE Aimed'
  <2>1. \A q \in Runners : pc[q] \notin Locked
    BY <1>2, Unheld DEF ForceVersion
  <2>. QED  BY <1>2, <2>1 DEF ForceVersion, TypeOK, Locked
<1>3. ASSUME NEW p \in Runners, Acquire(p) PROVE Aimed'
  BY <1>3 DEF Acquire, Feasible, TypeOK
<1>4. ASSUME NEW p \in Runners, StepUp(p) \/ StepDown(p) PROVE Aimed'
  <2>1. pc[p] = "step" /\ \A q \in Runners : q # p => pc[q] \notin Locked
    BY <1>4, Exclusive DEF StepUp, StepDown, Locked
  <2>. QED  BY <1>4, <2>1 DEF StepUp, StepDown, TypeOK, Locked
<1>5. CASE UNCHANGED vars
  BY <1>5 DEF vars
<1>. HIDE DEF Aimed, Goto
<1>. QED  BY <1>1, <1>2, <1>3, <1>4, <1>5 DEF Next, Run

LEMMA AimedHolds == Spec => []Aimed
<1>1. Init => Aimed
  BY DEF Init, Aimed
<1>. QED  BY <1>1, AimedStep, TypeCorrect, PTL DEF Spec

\* The versions a step may write next, on the way up and on the way down.
Above == {v \in Found : v > version /\ \A u \in Found : u > version => v <= u}
Below == {v \in Found \cup {0} : v < version /\ \A u \in Found : u < version => u <= v}

\* The runner that is inside the lock has a step of its own to take.
HasStep(p) ==
    \/ pc[p] \in {"body", "clean", "unlock"}
    \/ pc[p] = "step" /\ Rising(p) /\ Above # {}
    \/ pc[p] = "step" /\ Falling(p) /\ Below # {}
    \/ pc[p] = "step" /\ ~Rising(p) /\ ~Falling(p)

\* Whoever holds the lock and is not a session that was given up can take a step
\* that asks nothing of anybody else: no start is ever blocked by a run that has
\* nowhere to go.  (That it does take that step is the fairness of EveryRunEnds.)
THEOREM HolderGoesOn ==
    Spec => [](lock # None => pc[lock] = "abandoned" \/ HasStep(lock))
<1>1. ASSUME TypeOK, Aimed, lock # None PROVE pc[lock] = "abandoned" \/ HasStep(lock)
  <2>. DEFINE p == lock
  <2>1. p \in Runners /\ pc[p] \in Locked \cup {"abandoned"}
    BY <1>1 DEF TypeOK
  <2>2. version \in Nat /\ Found \cup {0} \in SUBSET Nat
    BY <1>1, FilesAssumption DEF TypeOK
  <2>3. ASSUME pc[p] = "step", Rising(p) PROVE Above # {}
    <3>. DEFINE S == {v \in Found : v > version}
    <3>1. S # {}
      BY <1>1, <2>1, <2>3 DEF Rising, Aimed
    <3>2. S \in SUBSET Nat
      BY <2>2
    <3>3. PICK v \in S : \A u \in S : v <= u
      <4>. HIDE DEF S
      <4>. QED  BY <3>1, <3>2, Least
    <3>4. v \in Above
      BY <3>3 DEF Above
    <3>. QED  BY <3>4
  <2>4. ASSUME pc[p] = "step", Falling(p) PROVE Below # {}
    <3>. DEFINE S == {v \in Found \cup {0} : v < version}
    <3>1. version > 0
      <4>1. version # 0
        <5>1. CASE job[p].act = "down"
          BY <1>1, <2>1, <2>4, <5>1 DEF Aimed
        <5>2. CASE job[p].act # "down"
          <6>1. job[p].act = "to" /\ job[p].to < version
            BY <2>4, <5>2 DEF Falling
          <6>2. job[p].to \in Nat
            BY <1>1, <2>1, <2>2, <2>4, <6>1 DEF Aimed
          <6>. QED  BY <6>1, <6>2
        <5>. QED  BY <5>1, <5>2
      <4>. QED  BY <2>2, <4>1
    <3>2. S \in SUBSET Nat /\ 0 \in S
      BY <2>2, <3>1
    <3>3. \A u \in S : u <= version
      BY <2>2
    <3>4. PICK v \in S : \A u \in S : u <= v
      <4>. HIDE DEF S
      <4>. QED  BY <2>2, <3>2, <3>3, Greatest
    <3>5. v \in Below
      BY <3>4 DEF Below
    <3>. QED  BY <3>5
  <2>. QED  BY <2>1, <2>3, <2>4 DEF HasStep, Locked
<1>. QED  BY <1>1, TypeCorrect, AimedHolds, PTL

\* While a run is inside the lock the row moves only towards where the run is
\* going, and never past it: RunMigrations never lowers the version, and a
\* migration to a version stays between that version and where it was.
THEOREM RowHeadsOneWay == Spec => RunsHeadForTarget
<1>1. TypeOK /\ Aimed /\ [Next]_vars =>
        [\A p \in Runners : pc[p] \in {"step", "body", "clean"} =>
            /\ RunsUp(p) => version' >= version
            /\ job[p].act = "to" =>
                  \/ version <= version' /\ version' <= job[p].to
                  \/ job[p].to <= version' /\ version' <= version
                  \/ version' = version]_vars
  <2>. SUFFICES ASSUME TypeOK, Aimed, Next, NEW p \in Runners,
                       pc[p] \in {"step", "body", "clean"}
                PROVE  /\ RunsUp(p) => version' >= version
                       /\ job[p].act = "to" =>
                             \/ version <= version' /\ version' <= job[p].to
                             \/ job[p].to <= version' /\ version' <= version
                             \/ version' = version
    BY FilesAssumption DEF vars, TypeOK
  <2>. version \in Nat
    BY FilesAssumption DEF TypeOK
  <2>1. ASSUME NEW q \in Runners, StepUp(q)
        PROVE  /\ RunsUp(p) => version' >= version
               /\ job[p].act = "to" => version <= version' /\ version' <= job[p].to
    <3>1. q = p
      BY <2>1, Exclusive DEF StepUp, Locked
    <3>2. version' \in Nat /\ version < version'
      BY <2>1, FilesAssumption DEF StepUp
    <3>3. job[p].act = "to" => version' <= job[p].to
      BY <2>1, <3>1 DEF StepUp, Rising, RunsUp, Aimed
    <3>. QED  BY <3>2, <3>3
  <2>2. ASSUME NEW q \in Runners, StepDown(q)
        PROVE  /\ ~RunsUp(p)
               /\ job[p].act = "to" => job[p].to <= version' /\ version' <= version
    <3>1. q = p
      BY <2>2, Exclusive DEF StepDown, Locked
    <3>2. version' \in Nat /\ version' < version
      BY <2>2, FilesAssumption DEF StepDown
    <3>3. job[p].act = "to" => job[p].to <= version'
      BY <2>2, <3>1 DEF StepDown, Falling, Aimed
    <3>4. ~RunsUp(p)
      BY <2>2, <3>1 DEF StepDown, Falling, RunsUp
    <3>. QED  BY <3>2, <3>3, <3>4
  <2>3. ASSUME NEW q \in Runners, ForceVersion(q) PROVE FALSE
    BY <2>3, Unheld DEF ForceVersion, Locked
  <2>4. ASSUME NEW q \in Runners,
               Connect(q) \/ ReadVersion(q) \/ Acquire(q) \/ Body(q) \/ BodyFail(q) \/ Clean(q)
                  \/ Unlock(q) \/ Verify(q) \/ GiveUp(q) \/ Leak(q) \/ Crash(q)
        PROVE  version' = version
    BY <2>4 DEF Connect, ReadVersion, Acquire, Body, BodyFail, Clean, Unlock, Verify, GiveUp,
                Leak, Crash, record
  <2>. QED  BY <2>1, <2>2, <2>3, <2>4 DEF Next, Run
<1>. QED  BY <1>1, TypeCorrect, AimedHolds, PTL DEF Spec, RunsHeadForTarget

-----------------------------------------------------------------------------
\* Nobody writes the row, runs a statement or gets into a run, and whoever verifies
\* or is done was so before.
Blocked(p) ==
    /\ UNCHANGED <<lock, record, applied>> /\ pc'[p] = pc[p]
    /\ \A q \in Runners :
          /\ pc'[q] \notin Locked
          /\ pc'[q] \in {"verify", "done"} => pc[q] \in {"verify", "done"}

\* Once the session of a start that gave up has been granted the lock, nothing
\* is migrated any more until that process dies, and no start succeeds but one
\* whose migrations were over already.
THEOREM LeakBlocksAll ==
    Spec => [][\A p \in Runners : (lock = p /\ pc[p] = "abandoned") =>
                  Crash(p) \/ Blocked(p)]_vars
<1>. DEFINE A == \A p \in Runners : (lock = p /\ pc[p] = "abandoned") => Crash(p) \/ Blocked(p)
<1>1. ASSUME TypeOK, [Next]_vars, NEW p \in Runners, lock = p, pc[p] = "abandoned"
      PROVE  Crash(p) \/ Blocked(p)
  <2>1. \A q \in Runners : pc[q] \notin Locked
    BY <1>1 DEF TypeOK, Locked
  <2>2. lock # None
    BY <1>1, NoneAssumption
  <2>3. ASSUME NEW q \in Runners, Run(q)
        PROVE  ReadVersion(q) \/ Verify(q)
    BY <2>1, <2>2, <2>3 DEF Run, Connect, ForceVersion, Acquire, StepUp, StepDown, Body, BodyFail,
                            Clean, Unlock, Locked
  <2>4. ASSUME NEW q \in Runners, ReadVersion(q) \/ Verify(q) \/ GiveUp(q)
        PROVE  Blocked(p)
    BY <1>1, <2>1, <2>4 DEF Blocked, ReadVersion, Verify, GiveUp, Goto, record, TypeOK, Locked
  <2>5. ASSUME NEW q \in Runners, Leak(q) PROVE FALSE
    BY <2>2, <2>5 DEF Leak
  <2>6. ASSUME NEW q \in Runners, q # p, Crash(q) PROVE Blocked(p)
    BY <1>1, <2>1, <2>6 DEF Blocked, Crash, Goto, record, TypeOK, Locked
  <2>7. CASE UNCHANGED vars
    BY <2>1, <2>7 DEF Blocked, vars, record
  <2>. QED  BY <1>1, <2>3, <2>4, <2>5, <2>6, <2>7 DEF Next
<1>2. TypeOK /\ [Next]_vars => [A]_vars
  BY <1>1
<1>. QED  BY <1>2, TypeCorrect, PTL DEF Spec

-----------------------------------------------------------------------------
\* The versions between that of the row and the one to go to.
Between(at, to) == {v \in Found : (at < v /\ v <= to) \/ (to < v /\ v <= at)}

\* The versions that a run has yet to write, or, of a rollback, to leave.
Left(p) ==
    CASE RunsUp(p) -> {v \in Found : v > version}
      [] job[p].act = "to" -> Between(version, job[p].to)
      [] OTHER -> {v \in Found : v = version /\ pc[p] = "step"}

\* The steps a run may have before it, at most.
Rank(p) ==
    CASE pc[p] = "idle"   -> 3 * Cardinality(Found) + 6
      [] pc[p] = "read"   -> 3 * Cardinality(Found) + 5
      [] pc[p] = "force"  -> 3 * Cardinality(Found) + 4
      [] pc[p] = "lock"   -> 3 * Cardinality(Found) + 3
      [] pc[p] = "step"   -> 3 * Cardinality(Left(p)) + 2
      [] pc[p] = "body"   -> 3 * Cardinality(Left(p)) + 4
      [] pc[p] = "clean"  -> 3 * Cardinality(Left(p)) + 3
      [] pc[p] = "unlock" -> 2
      [] pc[p] = "verify" -> 1
      [] OTHER            -> 0

Acts == {"start", "up", "down", "to"}

LEMMA LeftFinite ==
    ASSUME IsFiniteSet(Found), NEW L, L \subseteq Found
    PROVE  /\ IsFiniteSet(L) /\ Cardinality(L) \in Nat
           /\ Cardinality(L) <= Cardinality(Found) /\ Cardinality(Found) \in Nat
BY FS_Subset, FS_CardinalityType

LEMMA LeftFound == \A p : Left(p) \subseteq Found /\ Left(p)' \subseteq Found
BY DEF Left, Between

LEMMA JobTypes == ASSUME TypeOK, NEW p \in Runners PROVE job[p].act \in Acts /\ job[p].to \in Nat
BY LoadsAssumption DEF TypeOK, Acts

LEMMA BetweenShrinks ==
    ASSUME NEW at \in Nat, NEW next \in Nat, NEW to \in Nat
    PROVE  /\ (at < next /\ next <= to /\ next \in Found) =>
                  next \in Between(at, to) /\ Between(next, to) \subseteq Between(at, to) \ {next}
           /\ (next < at /\ to <= next /\ at \in Found) =>
                  at \in Between(at, to) /\ Between(next, to) \subseteq Between(at, to) \ {at}
<1>1. \A v \in Found : v \in Nat
  BY FilesAssumption
<1>. QED  BY <1>1 DEF Between

\* The next version is one of those, and it is nobody's any more.
LEMMA LeftShrinks ==
    ASSUME TypeOK, Aimed, IsFiniteSet(Found), NEW p \in Runners, StepUp(p) \/ StepDown(p)
    PROVE  Cardinality(Left(p)') \in Nat /\ Cardinality(Left(p)') + 1 <= Cardinality(Left(p))
<1>1. /\ job' = job /\ version \in Nat /\ version' \in Nat /\ Found \subseteq Nat
      /\ job[p].act \in Acts /\ job[p].to \in Nat
      /\ pc[p] = "step" /\ pc'[p] \in {"body", "clean"}
      /\ job[p].act = "to" => job[p].to \in Found
      /\ job[p].act = "down" => version # 0
      /\ version # 0 => version \in Found
  <2>1. pc[p] = "step" /\ pc'[p] \in {"body", "clean"} /\ job' = job /\ version' \in Found \cup {0}
    BY DEF StepUp, StepDown, Goto, TypeOK
  <2>. QED  BY <2>1, FilesAssumption, JobTypes DEF TypeOK, Aimed
<1>2. \E x \in Left(p) : Left(p)' \subseteq Left(p) \ {x}
  <2>1. CASE RunsUp(p)
    <3>1. StepUp(p)
      BY <2>1 DEF StepDown, Falling, RunsUp
    <3>2. version' \in Found /\ version < version'
      BY <1>1, <3>1 DEF StepUp
    <3>3. Left(p) = {v \in Found : v > version} /\ Left(p)' = {v \in Found : v > version'}
      BY <1>1, <2>1 DEF Left, RunsUp
    <3>4. \A v \in Found : v > version' => v > version
      BY <1>1, <3>2
    <3>5. version' \in Left(p) /\ version' \notin Left(p)'
      BY <1>1, <3>2, <3>3
    <3>6. Left(p)' \subseteq Left(p)
      BY <3>3, <3>4
    <3>. QED  BY <3>5, <3>6
  <2>2. CASE job[p].act = "to"
    <3>1. Left(p) = Between(version, job[p].to) /\ Left(p)' = Between(version', job[p].to)
      BY <1>1, <2>2 DEF Left, RunsUp
    <3>2. CASE StepUp(p)
      <4>1. version' \in Found /\ version < version' /\ version' <= job[p].to
        BY <1>1, <2>2, <3>2 DEF StepUp, Rising, RunsUp
      <4>. QED  BY <1>1, <3>1, <4>1, BetweenShrinks
    <3>3. CASE StepDown(p)
      <4>1. version \in Found /\ version' < version /\ job[p].to <= version'
        BY <1>1, <2>2, <3>3 DEF StepDown, Falling
      <4>. QED  BY <1>1, <3>1, <4>1, BetweenShrinks
    <3>. QED  BY <3>2, <3>3
  <2>3. CASE job[p].act = "down"
    <3>1. Left(p) = {v \in Found : v = version} /\ Left(p)' = {}
      BY <1>1, <2>3 DEF Left, RunsUp
    <3>. QED  BY <1>1, <2>3, <3>1
  <2>. QED  BY <1>1, <2>1, <2>2, <2>3 DEF Acts, RunsUp
<1>3. PICK x \in Left(p) : Left(p)' \subseteq Left(p) \ {x}
  BY <1>2
<1>. DEFINE L == Left(p)
            M == Left(p)'
<1>4. IsFiniteSet(L) /\ Cardinality(L) \in Nat
  BY LeftFound, LeftFinite
<1>. HIDE DEF L, M
<1>5. IsFiniteSet(L \ {x}) /\ Cardinality(L \ {x}) = Cardinality(L) - 1
  BY <1>3, <1>4, FS_RemoveElement DEF L
<1>6. Cardinality(M) \in Nat /\ Cardinality(M) <= Cardinality(L \ {x})
  BY <1>3, <1>5, FS_Subset, FS_CardinalityType DEF L, M
<1>7. Cardinality(M) \in Nat /\ Cardinality(M) + 1 <= Cardinality(L)
  BY <1>4, <1>5, <1>6
<1>. QED  BY <1>7 DEF L, M

LEMMA RankFalls ==
    ASSUME TypeOK, TypeOK', Aimed, IsFiniteSet(Found), NEW p \in Runners, Run(p)
    PROVE  Rank(p)' < Rank(p)
<1>1. /\ Cardinality(Found) \in Nat /\ Cardinality(Left(p)) \in Nat
      /\ Cardinality(Left(p)') \in Nat /\ Cardinality(Left(p)') <= Cardinality(Found)
  BY LeftFound, LeftFinite
<1>. USE <1>1 DEF Rank, Goto
<1>2. CASE Connect(p) \/ ReadVersion(p) \/ ForceVersion(p)
  BY <1>2 DEF Connect, ReadVersion, ForceVersion, TypeOK
<1>3. CASE Acquire(p)
  BY <1>3 DEF Acquire, TypeOK
<1>4. CASE StepUp(p) \/ StepDown(p)
  <2>1. Cardinality(Left(p)') + 1 <= Cardinality(Left(p))
    BY <1>4, LeftShrinks
  <2>. QED  BY <1>4, <2>1 DEF StepUp, StepDown, TypeOK
<1>5. CASE Body(p)
  <2>1. Left(p)' = Left(p)
    BY <1>5 DEF Body, Left, RunsUp, record, TypeOK
  <2>. QED  BY <1>5, <2>1 DEF Body, TypeOK
<1>6. CASE Clean(p)
  <2>1. job[p].act # "down" => Left(p)' = Left(p)
    BY <1>6, JobTypes DEF Clean, Left, RunsUp, Acts
  <2>. QED  BY <1>6, <2>1 DEF Clean, TypeOK
<1>7. CASE BodyFail(p) \/ Unlock(p) \/ Verify(p)
  BY <1>7 DEF BodyFail, Unlock, Verify, TypeOK
<1>. QED  BY <1>2, <1>3, <1>4, <1>5, <1>6, <1>7 DEF Run

LEMMA OthersRankStays ==
    ASSUME TypeOK, NEW p \in Runners, NEW q \in Runners, q # p,
           Run(q) \/ GiveUp(q) \/ Leak(q) \/ Crash(q)
    PROVE  Rank(p)' = Rank(p)
<1>1. pc'[p] = pc[p] /\ job' = job
  BY DEF Run, Connect, ReadVersion, ForceVersion, Acquire, StepUp, StepDown, Body, BodyFail, Clean,
         Unlock, Verify, GiveUp, Leak, Crash, Goto, TypeOK
<1>2. pc[p] \in Locked => version' = version
  <2>1. CASE StepUp(q) \/ StepDown(q) \/ ForceVersion(q)
    BY <2>1, Exclusive, Unheld DEF StepUp, StepDown, ForceVersion, Locked
  <2>. QED  BY <2>1 DEF Run, Connect, ReadVersion, Acquire, Body, BodyFail, Clean, Unlock, Verify,
                        GiveUp, Leak, Crash, record
<1>3. pc[p] \in Locked => Left(p)' = Left(p)
  BY <1>1, <1>2 DEF Left, RunsUp
<1>. QED  BY <1>1, <1>3 DEF Rank, Locked

\* Every step of a run brings it nearer to its end, and no crash, force or
\* rollback of another takes it back: there is no retry in it, and its loop goes
\* through the files once.  A run is over after three steps a file and six more,
\* or sooner; with HolderGoesOn, only the lock can keep it from them.
THEOREM RunsAreShort ==
    ASSUME IsFiniteSet(Found)
    PROVE  Spec => [][\A p \in Runners :
                         /\ Rank(p) \in 0 .. 3 * Cardinality(Found) + 6 /\ Rank(p)' <= Rank(p)
                         /\ Run(p) => Rank(p)' < Rank(p)]_vars
<1>. DEFINE A == \A p \in Runners :
                    /\ Rank(p) \in 0 .. 3 * Cardinality(Found) + 6 /\ Rank(p)' <= Rank(p)
                    /\ Run(p) => Rank(p)' < Rank(p)
<1>1. \A p : Rank(p) \in 0 .. 3 * Cardinality(Found) + 6 /\ Rank(p)' \in Int
  <2>. TAKE p
  <2>1. /\ Cardinality(Found) \in Nat /\ Cardinality(Left(p)) \in Nat
        /\ Cardinality(Left(p)) <= Cardinality(Found) /\ Cardinality(Left(p)') \in Nat
    BY LeftFound, LeftFinite
  <2>. QED  BY <2>1 DEF Rank
<1>2. ASSUME TypeOK, TypeOK', Aimed, Next, NEW p \in Runners
      PROVE  Rank(p)' <= Rank(p)
  <2>1. Rank(p) \in Int /\ Rank(p) >= 0 /\ Rank(p)' \in Int
    BY <1>1
  <2>2. CASE Run(p)
    BY <1>2, <2>1, <2>2, RankFalls
  <2>3. CASE GiveUp(p) \/ Leak(p) \/ Crash(p)
    <3>1. pc'[p] \in {"gaveup", "abandoned", "crashed"}
      BY <1>2, <2>3 DEF GiveUp, Leak, Crash, Goto, TypeOK
    <3>. QED  BY <2>1, <3>1 DEF Rank
  <2>4. ASSUME NEW q \in Runners, q # p, Run(q) \/ GiveUp(q) \/ Leak(q) \/ Crash(q)
        PROVE  Rank(p)' <= Rank(p)
    BY <1>2, <2>1, <2>4, OthersRankStays
  <2>. QED  BY <1>2, <2>2, <2>3, <2>4 DEF Next
<1>3. TypeOK /\ TypeOK' /\ Aimed /\ [Next]_vars => [A]_vars
  BY <1>1, <1>2, RankFalls
<1>. QED  BY <1>3, TypeCorrect, AimedHolds, PTL DEF Spec
=============================================================================
