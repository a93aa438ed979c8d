------------------------------- MODULE Migrate -------------------------------
(***************************************************************************)
(* The migration runner, cmd/migrate/main.go.  A runner reads the files of  *)
(* its image, and applies in the order of their versions those which are    *)
(* not recorded in schema_migrations: it looks the version up outside any   *)
(* transaction, and then runs the statements of the file and the INSERT of  *)
(* the version in one.  Nothing keeps a second runner away, of the same or  *)
(* of an older release; a runner may die, lose its connection or run into   *)
(* the deadline of two minutes at every step, and be started again.         *)
(*                                                                          *)
(* Of a statement the model keeps whether running it once more succeeds     *)
(* without effect ("create": IF NOT EXISTS), fails ("constrain": ADD        *)
(* CONSTRAINT) or takes effect again ("update": UPDATE, INSERT).            *)
(***************************************************************************)
EXTENDS Integers, Sequences, SequencesExt, FiniteSets

CONSTANTS
  Runner,
  File,         \* the .sql files of all releases
  Malformed,    \* those with a bad name or no "-- +goose Up" section
  Version,      \* [WellFormed -> Int]: parseVersion of the name
  Up,           \* [WellFormed -> Seq({"create", "constrain", "update"})]
  Directory,    \* [Runner -> the files of its image]
  MaxRuns,      \* how often runners are started
  MaxFaults

VARIABLES
  schemaMigrations,     \* versions recorded
  effects,              \* [WellFormed -> [1 .. Len(Up[file]) -> committed effects]]
  runner,               \* [Runner -> the state of the process and its transaction]
  runs, faults

vars == <<schemaMigrations, effects, runner, runs, faults>>

WellFormed == File \ Malformed
Versions == {Version[f] : f \in WellFormed}

\* parseUpSQL refuses an empty section.
ASSUME MigrateAssumption ==
  /\ IsFiniteSet(File)
  /\ Malformed \subseteq File
  /\ Version \in [WellFormed -> Int]
  /\ \A f \in WellFormed : Up[f] \in Seq({"create", "constrain", "update"}) \ {<<>>}
  /\ Directory \in [Runner -> SUBSET File]
  /\ MaxRuns \in Nat
  /\ MaxFaults \in Nat

\* Not running; "applied" or "failed" is what the last run exited with.
Resting(outcome) ==
  [pc |-> outcome, todo |-> <<>>, at |-> 0, applied |-> 0]

MigrateInit ==
  /\ schemaMigrations = {}
  /\ effects = [f \in WellFormed |-> [i \in DOMAIN Up[f] |-> 0]]
  /\ runner = [r \in Runner |-> Resting("new")]
  /\ runs = MaxRuns
  /\ faults = MaxFaults

Running(r) == runner[r].pc \in {"check", "begin", "execute", "recorded"}
Current(r) == Head(runner[r].todo)

\* Mutant: in any order, as the directory lists them.
Listed(seq) == TRUE

\* loadMigrations: sorted by version, files of one version in any order.
Loaded(seq) ==
  \A i, j \in DOMAIN seq : i < j => Version[seq[i]] <= Version[seq[j]]

\* main and the head of Apply, with the CREATE TABLE IF NOT EXISTS.
Start(r) ==
  /\ ~Running(r) /\ runs > 0
  /\ runs' = runs - 1
  /\ \/ /\ Directory[r] \cap Malformed = {} /\ Directory[r] # {}
        /\ \E seq \in SetToSeqs(Directory[r]) :
             /\ Loaded(seq)
             /\ runner' = [runner EXCEPT
                   ![r] = [pc |-> "check", todo |-> seq, at |-> 0, applied |-> 0]]
     \/ /\ Directory[r] \cap Malformed # {} \/ Directory[r] = {}
        /\ runner' = [runner EXCEPT ![r] = Resting("failed")]
  /\ UNCHANGED <<schemaMigrations, effects, faults>>

\* migrationApplied, and the loop of Apply.
Check(r) ==
  /\ runner[r].pc = "check" /\ runner[r].todo # <<>>
  /\ runner' = IF Version[Current(r)] \in schemaMigrations
                 THEN [runner EXCEPT ![r].todo = Tail(@)]
                 ELSE [runner EXCEPT ![r].pc = "begin"]
  /\ UNCHANGED <<schemaMigrations, effects, runs, faults>>

\* applyMigration: Begin.
BeginTx(r) ==
  /\ runner[r].pc = "begin"
  /\ runner' = [runner EXCEPT ![r].pc = "execute", ![r].at = 1]
  /\ UNCHANGED <<schemaMigrations, effects, runs, faults>>

\* A statement waits for the transaction that has run it before.
Blocked(r) ==
  \E q \in Runner \ {r} :
    /\ runner[q].pc \in {"execute", "recorded"}
    /\ Current(q) = Current(r)
    /\ runner[q].at > runner[r].at

\* execStatements, up to the next statement; the deferred Rollback.
Execute(r) ==
  /\ runner[r].pc = "execute" /\ runner[r].at <= Len(Up[Current(r)])
  /\ ~Blocked(r)
  /\ runner' =
       IF /\ Up[Current(r)][runner[r].at] = "constrain"
          /\ effects[Current(r)][runner[r].at] > 0
         THEN [runner EXCEPT ![r] = Resting("failed")]
         ELSE [runner EXCEPT ![r].at = @ + 1]
  /\ UNCHANGED <<schemaMigrations, effects, runs, faults>>

\* Mutant: ON CONFLICT DO NOTHING.
NeverTaken(version) == FALSE

\* The primary key of schema_migrations.
Taken(version) == version \in schemaMigrations

\* The INSERT of the version waits for another one of the same version.
Record(r) ==
  /\ runner[r].pc = "execute" /\ runner[r].at > Len(Up[Current(r)])
  /\ \A q \in Runner \ {r} :
       runner[q].pc = "recorded" => Version[Current(q)] # Version[Current(r)]
  /\ runner' = IF Taken(Version[Current(r)])
                 THEN [runner EXCEPT ![r] = Resting("failed")]
                 ELSE [runner EXCEPT ![r].pc = "recorded"]
  /\ UNCHANGED <<schemaMigrations, effects, runs, faults>>

\* What a statement that has had n effects has when it is run again.
Effect(statement, n) == IF statement = "create" THEN 1 ELSE n + 1

Committed(f) ==
  [effects EXCEPT ![f] = [i \in DOMAIN Up[f] |-> Effect(Up[f][i], effects[f][i])]]

\* Commit; its answer may be lost, and Apply return the error.
Commit(r) ==
  /\ runner[r].pc = "recorded"
  /\ effects' = Committed(Current(r))
  /\ schemaMigrations' = schemaMigrations \cup {Version[Current(r)]}
  /\ \/ /\ runner' = [runner EXCEPT ![r].pc = "check", ![r].todo = Tail(@),
                                    ![r].at = 0, ![r].applied = @ + 1]
        /\ UNCHANGED faults
     \/ /\ faults > 0 /\ faults' = faults - 1
        /\ runner' = [runner EXCEPT ![r] = Resting("failed")]
  /\ UNCHANGED runs

\* Apply returns; main exits with 0.
Succeed(r) ==
  /\ runner[r].pc = "check" /\ runner[r].todo = <<>>
  /\ runner' = [runner EXCEPT ![r] = [Resting("applied")
                                      EXCEPT !.applied = runner[r].applied]]
  /\ UNCHANGED <<schemaMigrations, effects, runs, faults>>

\* Mutant: a migration that fails is logged, and the next one applied.
NextOne(r) == [runner[r] EXCEPT !.pc = "check", !.todo = Tail(@), !.at = 0]
\* Mutant: no deferred Rollback.
LeftOpen(r) == [Resting("failed") EXCEPT !.at = runner[r].at]

\* Apply returns the error of any call; main exits with 1.
AfterError(r) == Resting("failed")

\* A call fails, or the process dies: its transaction is rolled back.
Fail(r) ==
  /\ Running(r) /\ runner[r].todo # <<>>
  /\ faults > 0 /\ faults' = faults - 1
  /\ runner' = [runner EXCEPT ![r] = AfterError(r)]
  /\ UNCHANGED <<schemaMigrations, effects, runs>>

MigrateNext ==
  \E r \in Runner :
    \/ Start(r) \/ Check(r) \/ BeginTx(r) \/ Execute(r) \/ Record(r)
    \/ Commit(r) \/ Succeed(r) \/ Fail(r)

MigrateSpec == MigrateInit /\ [][MigrateNext]_vars

-----------------------------------------------------------------------------
\* A transaction is open on a file of the runner's image exactly while Apply
\* runs its statements; counts stay within the runs that were started.
TypeOK ==
  /\ schemaMigrations \subseteq Versions
  /\ \A f \in WellFormed : effects[f] \in [DOMAIN Up[f] -> 0 .. MaxRuns]
  /\ \A r \in Runner :
       /\ runner[r].pc \in {"new", "check", "begin", "execute", "recorded",
                            "applied", "failed"}
       /\ Range(runner[r].todo) \subseteq Directory[r]
       /\ IF runner[r].pc \in {"execute", "recorded"}
            THEN runner[r].at \in 1 .. Len(Up[Current(r)]) + 1
            ELSE runner[r].at = 0
       /\ runner[r].applied \in 0 .. Cardinality(Versions)
  /\ runs \in 0 .. MaxRuns /\ faults \in 0 .. MaxFaults

\* However runners overlap, die and are started again, a version is recorded
\* if and only if the statements of exactly one of its files have taken effect,
\* all of them and each exactly once, those that IF NOT EXISTS does not protect
\* included.  The look-up cannot ensure it: only the primary key and the one
\* transaction do.  (Of two files with the same version, the other is skipped.)
AppliedOnce ==
  \A v \in Versions :
    LET files == {f \in WellFormed : Version[f] = v}
        touched == {f \in files : \E i \in DOMAIN Up[f] : effects[f][i] > 0}
    IN IF v \in schemaMigrations
         THEN /\ Cardinality(touched) = 1
              /\ \A f \in touched : \A i \in DOMAIN Up[f] : effects[f][i] = 1
         ELSE touched = {}

\* No version of a runner's image is applied while a lower one of the same
\* image is missing: a failure stops Apply, and a restart resumes in order.
AppliedInOrder ==
  \A r \in Runner : \A f, g \in Directory[r] \ Malformed :
    /\ Version[f] < Version[g]
    /\ Version[g] \in schemaMigrations
    => Version[f] \in schemaMigrations

\* A runner that exits with 0 leaves all versions of its image recorded, and
\* the versions that all runs report to have applied are at most those there are.
SuccessIsComplete ==
  /\ \A r \in Runner :
       runner[r].pc = "applied" =>
         {Version[f] : f \in Directory[r] \ Malformed} \subseteq schemaMigrations
  /\ \A r, q \in Runner :
       r # q => runner[r].applied + runner[q].applied <= Cardinality(schemaMigrations)
=============================================================================
