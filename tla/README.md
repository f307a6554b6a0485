# WireProof: models, checks and proofs

TLA+ modules for WireProof, a Python program that compiles a declarative EVPN
plan, runs small reference labs with Docker and Containerlab, and keeps the
evidence of what it saw.  TLC checks the modules on small instances; TLAPS
proves theorems about them for every value of their constants.
`PROJECT.json` lists the runs, the definitions with the source lines they
stand for, the hazards and the theorems.

Paths below are relative to `src/`; `runtime` is
`packages/wireproof-runtime/src/wireproof_runtime`, `evidence` is
`packages/wireproof-evidence/src/wireproof_evidence`, and so on.

## 1. Inventory

| Component | State | Operations | What is hard | What makes it correct |
|---|---|---|---|---|
| Run directory, `runtime/clab_ebgp.py` 68-406 | a tree of five entries in `<repository>/.wireproof/runs/<run_id>` and an inode manifest | secure creation, manifest minting and check, owned removal, removal of an unfinished tree | a removal may stop after any prefix; another process of the same user may replace or add entries | a minted tree is removed only while it is what the manifest bound, an unfinished one only inside the held directory and by names of the layout; success means nothing is left |
| Containerlab run, `clab_ebgp.py` 635-894 | state, `failure`, `artifact_dir`, identity, `deploy_attempted`, `destroy_attempted` | `prepare`, `up`, `status`, `down`, `recovery_destroy_command` | commands time out after taking effect or raise; `up` cleans up and the caller cleans up again | at most one deploy and one destroy; `CLEANED` only when lab and directory are gone; a leaked lab is visible and recoverable |
| Containerlab command, `apps/wireproof-cli/.../main.py` 144-193 | records, `all_clean` | one or two iterations with a `finally` clause | exceptions between the calls, the decision to iterate | no two labs at once; exit 0 leaves nothing |
| FRR smoke run, `runtime/frr_smoke.py` | state, container id, the executor's registered id | `up`, `status`, `down` | `docker run` cut off with or without an id, late creation, failing removal | nobody else's container is removed; `CLEANED` means none of ours exists or will |
| FRR smoke command, `main.py` 78-141 | records, the answers of one iteration | up, status, down, repeated | exceptions are swallowed, a container that comes late | exit 0 leaves no container and none to come; one that is left shows in a record |
| Lab run with the fake runner, `runtime/__init__.py` | state, evidence, the runner's resources | `up`, `status`, `test`, `down` | predicates that raise, retry of cleanup | resources of other runs survive; `CLEANED` means released |
| Polling, `runtime/__init__.py` 214-240 | attempts, a clock, a sleeper | `eventually` | the predicate and the sleeper take time, the condition changes meanwhile | a condition that came true in time is noticed, the overrun is bounded |
| Evidence store, `evidence/bundle.py` 484-607, `static_verify.py` 124-131 | files in one root directory | create the root, persist a bundle | concurrent writers, kills, power loss between link and syncs | create-only, never torn, a reported bundle stays |
| Evidence bundle, `bundle.py` 281-481 | none (immutable values) | `create`, `binds_requirements`, `structurally_complete` | links between clauses, observations, captures, checks and requirements | a bundle without findings has every required link; what failed completes nothing |
| Capability, `wireproof_capability` | assessment records | `assess_capability`, `capabilities_satisfy` | sequences of assessments, duplicates | one step at a time, terminal states stay, `UNKNOWN` never passes |
| Compiler and test pack, `wireproof_compiler/compile.py` | none | `compile_plan`, `compile_test_pack`, tenant projection | canonical order, provenance across projections | a projection holds exactly one tenant's clauses, however blanks surround its name |
| Static evaluator, `static_evaluator.py` | a binding | evaluate a baseline or a fixture | a binding that outlived its plan; fixtures that mutate by position | a verdict is about a plan with the clauses of the bound pack |
| Batfish adapter, `batfish_adapter.py` | none | execute a query plan, compare two snapshots, assess | a query that one side does not plan, parse or answer | every gap is debt of the assessment |
| Core model, `wireproof_core/model.py` | none | validation of a plan | cross references, duplicates | tenants of an accepted plan stay apart, and only an empty name or a blank tenant keeps it from having a test pack |
| Observers and traffic, `observers.py`, `ixia_c.py` | none | parse and compare GoBGP snapshots, parse a captured VXLAN frame; answer `UNKNOWN` | three length fields, cuts at any byte, sources that disagree | an accepted frame is the sender's, matching snapshots are unanimous |

The components interact by plain calls in one process: the command line calls
a run, the run its executor, the executor starts one subprocess at a time.
Nothing inside a process is concurrent.  Concurrency comes from outside: the
Docker daemon and Containerlab, which act on after a command was cut off,
another process of the same user, and several `verify static` processes that
share an evidence root.  Only the evidence store and the run directory outlive
a process.

## 2. Modules

| Module | Models | Composition |
|---|---|---|
| `RunDirectory` | the directory tree as a function from entries to what is there, what may be removed and the prefixes a removal may stop at | used by `ClabRun` |
| `ClabRun` | one `ContainerlabEbgpRun` under an arbitrary caller, the lab, and outside changes to the tree | extends `RunDirectory` |
| `ClabSmoke` | the command: iterations over fresh runs, or any other caller | extends `ClabRun` |
| `ClabRunProofs` | theorems about one run, and about the command | extends `ClabSmoke` and `TLAPS` |
| `FrrSmoke` | one `FrrSmokeRun`, its executor, the daemon | on its own |
| `FrrCommand` | the command that drives it, or any other caller | extends `FrrSmoke` |
| `FrrSmokeProofs` | theorems about one smoke, and about the command | extends `FrrCommand` and `TLAPS` |
| `LabRun` | several `LabRun`s over one runner, with the predicates that nest inside their tests | on its own |
| `LabRunProofs` | theorems about `LabRun` | extends `LabRun` and `TLAPS` |
| `Eventually` | `eventually()` in ticks of a clock, over a condition that changes by itself | on its own |
| `Observers` | what the GoBGP and the frame parser accept, and what snapshots match | operators, used by `LabTest` |
| `LabTest` | a test that polls several collectors until their snapshots match, or parses a captured frame | extends `Eventually` and `Observers` |
| `MCLabTest` | three collectors, and frames a sender built, padded and cut | extends `LabTest` |
| `LabTestProofs` | theorems about the wait, the comparison and the frame parser | extends `LabTest` and `TLAPS` |
| `BatfishComparison` | adapters that answer a query plan, and the comparison of two answers | on its own |
| `MCBatfishComparison` | one query result of every kind | extends `BatfishComparison` |
| `Capability` | capability assessments an application keeps and advances, and the gate over them | on its own |
| `MCCapability` | the symmetry of identities and clauses | extends `Capability` |
| `CapabilityProofs` | theorems about `Capability` | extends `Capability` and `TLAPS` |
| `FeatureContract` | which plans are accepted | operators, used by `TestPack` |
| `TestPack` | what the compiler makes of a plan: its meaning, its clauses, the projection to a tenant with its provenance | extends `FeatureContract` |
| `StaticEvaluation` | an author who edits a plan, an application that compiles it and evaluates it against a binding it keeps | extends `TestPack` |
| `MCStaticEvaluation` | the reference fabric and what the author may write | extends `StaticEvaluation` |
| `CompilerProofs` | theorems about the plan from edit to verdict, and about the Batfish comparison | extends `StaticEvaluation`, `BatfishComparison` and `TLAPS` |
| `EvidenceBundle` | a producer who collects a payload, `create`, and a verifier who asks what is missing | on its own |
| `MCEvidenceBundle` | two checks, one axis, two captures | extends `EvidenceBundle` |
| `EvidenceBundleProofs` | theorems about `EvidenceBundle` | extends `EvidenceBundle` and `TLAPS` |
| `CreateOnlyStore` | what the evidence store promises | abstract specification |
| `BundleStore` | `verify static` processes in one root directory, a step per system call | implements `CreateOnlyStore` |
| `BundleStoreProofs` | theorems about `BundleStore`, the refinement among them | extends `BundleStore` and `TLAPS` |
| `MCBundleStore` | the three calls the store is checked with | extends `BundleStore` |

Correspondence.  In `ClabRun` and `FrrSmoke` the variables named like a field
(`state`, `failure`, `deployAttempted`, `containerId`, ...) are that field; `pc`
is where the call in progress stands, and a method is cut exactly where it
starts an external command or a directory operation, since only there the
world can differ from what the method read.  An action holds everything the
method does up to the next such point, early returns included.  `tree`
is what is at each path now, and the identity the manifest bound is kept
beside it.  `ClabSmoke` and `FrrCommand` put the command over it: `cli` is the
statement the command is at, each call of a method is a step, and so is the
statement that picks up its answer once the run is idle again.  `cli = "off"` is
any other caller of the class, who calls whatever method he likes, so that one
run of TLC checks a run under its command and under no command.  In `BundleStore` a process is a value of `Writer`, and a step is one
system call of `_open_evidence_root` or `persist_bundle`; `content`, `synced`,
`final` and `finalDisk` tell what readers see from what survives a loss
of power.  In `LabRun` a call is one step, as its runner answers in the same
process; only `test` is two steps, around the predicate it calls, and the stack of
executing predicates is what lets a run be called while another (or itself) is
under test.  A call that its guard refuses changes nothing and has no action.
In `Capability` an assessment is its identity, clause and state: its validator
makes the kind and origin of its evidence a function of the state, so the
evidence need not be kept.  An assessment can be constructed in any state with
that state's evidence, not only in `UNKNOWN`; what the transitions promise is
about the states after that one, and `begun` and `accepted` are kept beside the
tuple to say so.

In `Eventually` time is a number of ticks.  It passes while the predicate runs
(at most `MaxPoll`) and while the sleeper sleeps (never less than asked, at most
`MaxOversleep` more), and a predicate looks at the condition at one tick of its
run.  `LabTest` makes that condition the comparison of what the collectors serve
at that moment, and lets them serve something else at any other.  A frame is what
the parser looks at: how many bytes were captured, the tags, the header and the
three length fields; `sent` is what the sender meant and only the properties read
it.  In `BatfishComparison` a query is its id and an answer its hash.  In
`EvidenceBundle` the payload grows by one entry per step, in any order, before
`create` freezes it; `Findings` is the list that `structurally_complete` returns, as a set.

In `StaticEvaluation` a plan is a record with one sequence per collection of the
document, since the evaluator addresses entries by position while the canonical
hash ignores their order; names, identifiers and route targets are compared by
their spelling, as the code does.  `Valid` is `validate_references` with the
validators of the entries, `Compiles` what the artifact and the test pack demand
beyond it.  The edits are the author's and not part of the code; `Compile` is
`compile_plan` with `bind_static_evaluation`, `Evaluate` one call of the evaluator,
and `verify static` is the two in a row.  A clause carries its kind and the
identity its id is hashed from; what it expects repeats the identity, so a fixture
is matched by these two.  A projected pack keeps the pack it was made from where
the code keeps its hash.

Definitions headed `Deviation:` are altered forms of the action that follows
them.  No specification uses them; they are what a plausible bug in that code
would be, and each property is known to fail for one of them.

## 3. Runs

| Run | Question | States |
|---|---|---|
| `clab_smoke` | do the Containerlab run and its command keep their promises, under the command's exception handling and under any caller? | 813,596 |
| `frr_smoke` | the same for the Docker smoke and its command | 7,472 |
| `lab_runs` | do runs that share a runner spare each other, and does the record say what is so? | 97,904 |
| `lab_test` | does a wait notice what it waits for, in time and unanimously, and is an accepted frame the sender's? | 255,236 |
| `batfish` | is every query that was not compared visible as debt? | 255,841 |
| `capability` | is an assessment's chain of evidence complete, and the gate stable? | 931,746 |
| `static_evaluation` | is a verdict about the obligations of its pack, and does an accepted plan keep its tenants apart? | 72,020 |
| `bundle_store` | is the store create-only, untorn and durable under interleaving, kills and power loss, and does a call fail only for a cause? | 836,520 |
| `evidence_bundle` | does a bundle without findings have every link? | 5,555,038 |
| `clab_unclosed_deploy` | does "any deploy attempt receive the exact closed destroy attempt"? No | - |
| `lab_stuck` | can a lab always be released through its run? No | - |
| `static_order` | has a fixture one verdict for all plans of one meaning? No | - |

What the properties say, beyond their types:

* `CleanedMeansReleased` relates the state `CLEANED` to the lab and to the
  tree: neither exists any more, whatever happened outside.
* `CommandsAtMostOnce`: one destroy per run and one deploy; a second
  deploy is possible only after an exception escaped.
* `NoSilentLab`, `LeakedLabIsRecoverable`, `NoMutationMeansNoLab`: a lab that
  exists shows in the state, keeps its recovery command while nobody else
  touched the directory, and is never denied by the recorded failure.
* `RunRemovalsVouched` (every step): what vouches for a removal.  Once the directory is
  minted, an entry goes only while the whole tree is what the manifest bound, at
  the moment it goes.  Before that nothing is compared: an entry goes by its name,
  from the directory the run holds open and only under a name of the layout, and
  an object that another process put under such a name goes with it.
* `IterationsDoNotOverlap`, `ExitZeroLeavesNothing`, `DeployFailureSurvivesCleanup`,
  `LabIsSettled`: the Containerlab command.
* `CleanedMeansNoContainer`, `ForeignSurvives`, `RetryRemoves`: the Docker smoke
  under its command and under any other caller; `ExitZeroLeavesNoContainer` and
  `ContainerIsSettled`: its command, although it swallows exceptions and a
  container may come late.
* `LabRun`: `CleanedMeansReleased` and `LastRecordIsTrue` relate a run's state
  and its latest record to the runner's resources; `TestedLabStays` and
  `OnlyOwnDestroyed` say that nothing a predicate or another run does takes a lab
  away; `RetryReleases` that `down()` repeated long enough releases it.
* `ChainIsComplete`: an assessment has met every state between the one it was
  constructed with and its own, in order, each with its evidence.
  `GateStays`: once passed it is closed only by an assessment that turns out
  `UNSUPPORTED` or by a second assessment of a clause.
* `VerdictMatchesPack`: a `PASS` or `FAIL` is about a plan that compiles to the
  obligations of the bound pack, however it was edited after the compilation.
  `TenantsStayApart`: no VNI imports a route that a VNI of another tenant exports,
  unless one of their instances is shared.  `ProjectionIsClosed`: a tenant's
  projection, asked for with or without blanks around the name, holds the instance and
  the VRF its VNIs refer to, no clause of another tenant, and points to a pack that has
  all of its clauses.  `OnlyNamesPreventPack`: the pack of an accepted plan builds exactly
  when no instance or VRF has an empty name or a blank tenant; identities never collide.
* `StableConditionIsNoticed`: after a `FAIL` the condition does not hold, or it
  came true too late for the last call of the predicate.  `OverrunIsBounded` bounds
  the time after the timeout and the number of polls.  `PollingEnds`.
* `SuccessIsUnanimous`: a wait on collectors passes only when all of them gave what is
  expected, each under a name of its own; no majority is enough.  A poll reads the
  collectors in one step here, so the property is about the comparison, not about how
  the caller gathers snapshots.  `FrameIsTheSenders`: a frame is accepted exactly when the encapsulation
  was captured whole, and its inner bytes are then the sender's, not the padding.
  `ReadsInsideFrame`: no byte beyond the capture is indexed.
* `GapsAreVisible`: a query that one of two snapshots leaves unplanned, unparsed or
  unanswered is debt under its own id, and `MATCH` and `DELTA` are about two answers.
* `CompleteMeansLinked`: a bundle without findings has an unbroken chain from each
  required axis to captures, through passing observations of applicable checks that
  passed.  `NonPassNeverCompletes` (every step): a result that did not pass, added
  while a producer collects, never removes the last finding.
* `StoredIsComplete`, `StoredSurvives`, `IsCreateOnly`: the store.  `IsCreateOnly` is the
  refinement of `CreateOnlyStore`.  `FailsForCause` (every step): a call reports a failure only after
  an error of one of its own system calls (`faulty`), on a root it did not find private, or
  because another call has put its bundle in place; losing the race to create the root is
  none of these.  `RootIsTrusted` (every step): a call goes on from the root only when the root is
  private at that moment, whoever made it and whatever an earlier look found.

### Bounds

`MaxInterference = 2` outside changes to a run directory: with two, an entry can be
altered and another added between any two steps, or one altered twice; the
checks of the code compare each entry on its own, so a third change meets no new
comparison.  Both commands have at most two iterations in the code itself
(`main.py:122`), and both are tried, since every iteration may be the last.  Counters of commands saturate at 2, which is enough to tell
"at most once".  Two foreign containers are more than `FrrSmoke` can tell apart, since the run
holds one id.  `LabRun` has three runs: one under test, one that its predicate
drives and one that only observes; a run that is never called plays the part of
another owner, so no separate strangers are needed there.  `Capability`
has two assessments and two requirements: the gate compares an assessment with
one requirement and with one other assessment at a time.  `LabTest` tries every
timeout and interval up to three ticks, with a predicate of up to two ticks and a
sleeper up to one tick late: intervals shorter and longer than the timeout, polls
that straddle the deadline and sleeps that end after it.  Three
collectors are the fewest for which a majority differs from all; two changes let a
document turn and turn back within one poll.  Frames have up to three tags, four kinds
of IP header, length fields off by one either way, and are cut or padded to every length.
`BatfishComparison` compares two results of two queries: a comparison looks at one
query in two snapshots at a time.  `EvidenceBundle` has five entries, enough for a
complete chain (record, observation, capture, clause) and one entry too many or of the
wrong kind.  `StaticEvaluation` starts from the
fabric of `examples/evpn-fabric.yaml`, cut to one spine and three leaves; with
`MaxEdits = 2` an instance and a VNI that uses it can be added together, two
mistakes can meet in one plan, and a plan can be edited before and after it is
compiled.  The author may also write an empty name, a blank tenant, a tenant with a blank
behind it and a policy term with an empty reference (`Strip` says what `str.strip()` makes of
the padded names).  The rules relate at most two entries at a time.  `static_order` needs
one edit.  `BundleStore` has two calls for one bundle and one for
another: the pair shows races and reruns, the third that a sync of the
directory also persists somebody else's entry.  One loss of power suffices for
every loss the properties distinguish: after it nothing but the disk is left.

### Fairness

`ClabSmoke` is weakly fair in the command's statements and in the steps of a begun
call: every subprocess has a timeout (`clab_ebgp.py:621-629`), so the call goes on.
`FrrCommand` is weakly fair in the same for the same reason
(`frr_smoke.py:87-94`); `ContainerIsSettled` needs no more.  `RetryRemoves` also assumes a caller that keeps
calling `down()` and a daemon that repeatedly answers its inspection and its
removal (strong fairness of those steps): it says what a retry can
achieve, not that the command line retries, which it does not.
`RetryReleases` of `LabRun` likewise assumes a caller who keeps calling `down()`
where it is allowed, and that the destroy succeeds in the end.
`LabTest` is weakly fair in the polls and the clock together: the predicate returns and
the sleeper wakes up, which the caller of `eventually()` owes.  Nothing makes the
condition come true.
`BundleStore`, `Capability`, `StaticEvaluation`, `BatfishComparison` and `EvidenceBundle` state no
fairness: nothing said of them has to happen.

### Disagreements between the code and its words

* `clab_unclosed_deploy`: `deploy_attempted` is set after the executor
  returns, so a deploy that raises is not followed by a destroy.
* `lab_stuck`: a predicate that raises leaves its run `TESTING`, where `down()`
  and every other call are refused, although "`CLEANUP_FAILED` is retryable"
  and "lifecycle failures attempt cleanup"
  (`docs/architecture/testing-model.md:85-86`).
* `static_order`: fixtures name their clause by identity but mutate the plan by
  position, while the binding compares canonical forms that ignore the order.
  With two EVPN instances swapped, `cross_tenant_rt` turns from `FAIL` to `UNKNOWN`.

Five more observations have no run of their own.

* The cleanup of a failed preparation can leave its directory behind and still
  report only that the environment is unavailable (`clab_ebgp.py:737-744`), while
  ADR-003 has an unexpected entry end in a cleanup failure
  (`docs/adr/ADR-003-containerlab-reference-runtime.md:33`).
* ADR-003 says that a run directory "is removed only after a complete immutable inode
  manifest confirms" its entries and that a replaced entry leaves the directory for
  recovery (`docs/adr/ADR-003-containerlab-reference-runtime.md:29-33`).  The cleanup of a
  failed preparation has no manifest yet and removes `n1`, `n2`, their `frr.conf` and the topology
  by name (`clab_ebgp.py:351-370`), so an object that another process put there while
  `prepare()` was at work is deleted.  `RunRemovalsVouched` states what the code does keep to.
* A failed pull leaves the Docker smoke `NEW`, and `up()` is accepted again
  (`frr_smoke.py:302-316`), in a class that calls itself one-shot (`frr_smoke.py:230`).
* The Batfish comparison answers "COMPLETE" when both plans hold the same query ids;
  what the queries ask is not compared, nor are the plan hashes.
* In an evidence bundle an observation that failed is ignored when another check of
  the same clause passes, so an observation turned from `PASS` with unknown captures
  into `FAIL` can remove a finding.  `CHECK_PHASE_MISMATCH` is never found, since
  `create` has refused such a record already.

The rest are not disagreements, as nothing in the repository
promises otherwise.  A GoBGP route's next hops are compared by spelling.  A plan
with a link inside one node, a link listed twice or a contract clause listed
twice is accepted, but `compile_plan` raises on it
(`compile.py:199-210`), which `static_verify` does not catch.  The same holds of an
instance or a VRF with an empty name or a tenant of blanks: the contract takes any string
(`model.py:80-83`, `138-140`), `TestPackClause` does not (`compile.py:234`, `250-258`).
A management policy term with an empty `prefix_set` passes as one without
(`model.py:286`) until it is looked up and not found (`model.py:303`): validation then ends in a
`KeyError`, which is `UNKNOWN` for a fixture and escapes elsewhere (`LookupRaises`).  Route targets and
default prefixes are compared by spelling, so `target:65000:1` and `65000:1` are
different targets.  Route policies and prefix sets may repeat a name: the policy
is the first of its name, the prefix set the last (`model.py:296-298`).  And `_open_evidence_root` creates the root and nobody syncs its
entry in the parent, so a loss of power may take a bundle just reported
as stored.  `StoredSurvives` names that exception (`rootLost`).

## 4. Proofs

`ClabRunProofs` proves of one run under any caller, from `InterferenceAssumption`
alone (the bound on outside changes is a natural number):

| Theorem | States |
|---|---|
| `TypeCorrect` | `TypeOK` |
| `CleanedReleases` | `CleanedMeansReleased` |
| `CommandsOnce` | `CommandsAtMostOnce` |
| `LabShows` | `NoSilentLab` |
| `LeakRecoverable` | `LeakedLabIsRecoverable` |
| `NoMutationIsTrue` | `NoMutationMeansNoLab` |
| `RemovalsAreVouched` | `RemovalsVouched`, which the runs check as `RunRemovalsVouched` |

None of the invariants is inductive by itself: what a step may do depends on
where the call stands and on what was already attempted.  The inductive
invariant is their conjunction with named parts about exactly that:
`CallInv` (the state and the flags a run has when a call stands at a given
point), `DestroyInv` (how the destroy counter, `destroyAttempted`, the manifest
and the state go together), `DeployInv` (the same for deploy, with the escape of
an exception as the only way to a second one), `FreshInv` (no object in the tree
or the manifest carries the stamp the next outside change will use, so a replaced
entry differs from the bound one), `OpenedInv` (before it has made its directory, and after
it gave up, a run holds none open, so there is none it could remove), `TreeInv` (the manifest is complete once
minted, the lab is gone when the directory is being removed, and without outside
changes the tree is what the manifest says until a cleanup) and `FailureInv` (a
recorded preflight or preparation failure is never outdated).  Each part is
preserved by a lemma with one step per action; lemmas about `RunDirectory` say
what the removal prefixes can take away.

The same module proves of the command (`SmokeSpec`), whose one or two iterations are
`RepeatAssumption`:

| Theorem | States |
|---|---|
| `CommandRunsKeepPromises` | the five properties above, of every run of every iteration |
| `NoOverlap` | `IterationsDoNotOverlap` |
| `ExitZeroIsClean` | `ExitZeroLeavesNothing` |
| `DeployFailureStays` | `DeployFailureSurvivesCleanup` |
| `CommandRemovalsAreVouched` | `RunRemovalsVouched` |
| `EndIsSettled` | `SettledAtTheEnd`: an ended command left no lab, or a `CLEANUP_FAILED` run or an exception tells of it |
| `CommandCannotRunForever` | `CommandAdvances`: every step of the command spends a natural number |

A step of the command is a step of the run, leaves the run alone or puts a new one
in its place, so the invariant of the run carries over.  Three parts are added:
`OwnInv` (a run whose directory is still its own has it bound in its manifest),
`CommandInv` (the counters of finished iterations and what an exit status
vouches for) and `FailedInv`, which follows a failed deploy through the cleanup of
`up()`, the `finally` clause and the second `down()`.  `EndIsSettled` needs `SettledInv`
as well, which says what each statement of the command may assume of the run: past the
`finally` clause it is no longer `DEPLOYED` or `VERIFIED`, unless an exception is
escaping.  `CommandLeft` counts what is left to do: the iterations (`IterationInv`),
the statements of this one, and the commands the method in progress may still give.
Each addend leaves room for the most the next one can be, so that it falls with every
step, and no outside change alters it.

`FrrSmokeProofs` assumes only that the run's container and "no id" are not
foreign containers (`ForeignAssumption`), and proves `TypeCorrect`,
`CleanedIsGone`, `RunsOnce` (one `docker run`), `InspectsOurs` (a `PASS` of `status()` is
about the own container) and the action property `ForeignStays` of a smoke under any
caller, and `CommandCleanedIsGone`, `ExitZeroIsClean` and `CommandSparesForeign` of the
command.  Its invariant adds where a call can stand (`CallInv`, with
"only the run's own container reaches the removal") and the link between state,
id and a late creation (`ContainerInv`: before `docker run` there is nothing,
and an id, once known, rules out that the container is still to come).  For the command,
`CommandInv` says that an iteration follows only one whose run is `CLEANED`.
`EndIsSettled` and `CommandCannotRunForever` are shown as for Containerlab
(`SettledInv`, `ResultsInv`), with `RepeatAssumption`.  `RetryNeverLosesContainer` is an action property of
any caller: once the run knows its container's id neither it nor the executor forgets
it, and a container that is gone does not come back, so that a retry starts from where the last
one stopped.

`LabRunProofs` holds for any set of runs, any strangers that are not runs
(`StrangerAssumption`), and runners that raise or do not (`RunnerAssumption`).  It
proves `TypeCorrect`, `CleanedReleases`, `TestKeepsLab`, `RecordsTrue` and
`DestroysOwn`.  `LastRecordIsTrue` and the two others are strengthened by
`StackInv` (a run is on the stack at most once, and is `TESTING` while it is) and
`LabInv` (a running or tested lab is in the runner, a released one is not); the
definition `Outcome` says what a cleanup leaves, whichever call begins it.
`OnlyExceptionsStrand` is what holds of the promise that `lab_stuck` refutes: a lab
that `down()` cannot take down any more was stranded by an exception.
`CleanupNeverRegresses` says that no call, of any run, takes a `CLEANED` run out of that
state, or a `CLEANUP_FAILED` one out of reach of a retry, unless the runner raises.

`CapabilityProofs` assumes natural bounds (`BoundAssumption`) and proves
`TypeCorrect`, `ChainComplete`, `OrderIgnored` (the gate answers the same for any two tuples that are
permutations of each other)  and `GateStaysPassed`.  The
inductive invariant (`ChainInv`) states the chain relative to the state an
assessment began with, and the lemma `ChainGrows` that a legal transition
extends it; `RankIsPosition` is what the proofs know of the progression.  The gate reads its
assessments from a dict in which the last one of a clause wins (`ByClause`), which by itself
depends on the order; the lemma `GateReads` shows that after the check for a clause assessed
twice the dict holds what the tuple holds, and `OrderIgnored` rests on that.

`BundleStoreProofs` assumes that the "no writer" value is not a writer, that
every call is for one bundle, and that the number of losses of power is a
natural number (`WriterAssumption`, `BundleAssumption`,
`CrashAssumption`), for any sets of calls and bundles.  It proves `TypeCorrect`,
`Complete`, `Survives`, `FailuresHaveCause` (`FailsForCause`), `RootTrusted` (`RootIsTrusted`) and the
refinement `CreateOnly`.  The invariant is
`FileInv` (only complete files are synced and only synced ones are linked),
`NameInv` (a name links a synced file of its own bundle, on disk as in memory)
`CallInv` (what a call that has linked, or answered, owns) and `CauseInv` (a call that cleans up
without a success has met an error or a name that was taken).  For the
refinement each action is shown to be a step of `CreateOnlyStore`, or to leave
its state alone: `RootStepsMap`, `FileStepsMap`, `PowerLossMaps`.
`OneSuccessPerBundle` follows from `StoredSurvives`: of all calls for one bundle at most
one reports success, unless the root was lost.  `CallsCannotRunForever` says that
each system call leaves its call fewer to make, one that lost the race for the root or for a name
included, and that no other process, kill or loss of power gives one back.

`LabTestProofs` assumes natural bounds and length fields (`TimeAssumption`,
`FramesAssumption`), and that what a sender meant adds up (`SentAssumption`: its length fields
count its headers and its inner bytes), for any collectors, documents and frames:

| Theorem | States |
|---|---|
| `WaitTypeCorrect` | `EventuallyTypeOK`, with the bound on the attempts |
| `ConditionNoticed` | `StableConditionIsNoticed` |
| `OverrunBounded` | `OverrunIsBounded` |
| `SuccessUnanimous` | `SuccessIsUnanimous` |
| `ReadsInside` | `ReadsInsideFrame` |
| `FrameIsTheSendersAlways` | `FrameIsTheSenders` |
| `WaitCannotRunForever` | `WaitAdvances`: polls, sleeps and ticks spend a natural number |

The invariant of the wait, `WaitInv`, has three parts: `ClockInv` (how far the clock can
be at each point of the loop, and that attempts and time grow together), `SeenInv`
(what a look that saw nothing says about the time since which the condition holds) and
`ResultInv`.  `RouteInv` keeps what the successful call read, and `FrameInv` ties the
parser's answer to the frame.  For `FrameIsTheSendersAlways` the parser's checks are shown to
leave only the sender's lengths, and then the end of the encapsulation to be the end of
what the sender meant.  `WaitLeft` weighs the time left until the deadline against the point of the
loop; that the clock does not pass the deadline while the loop runs (`DeadlineInv`) makes it
a natural number.

`EvidenceBundleProofs` needs no assumption: `CompleteLinked` reads `CompleteMeansLinked`
off the definition of the findings, for any requirements and any number of
entries, with the invariant that an answer is the findings of the frozen payload;
`NonPassCompletesNothing` shows that findings depend only on records of applicable
checks and on observations that passed (`FindingsSame`).

`CompilerProofs` assumes that the baseline is a plan, that the author writes only into
its collections (`PlanAssumption`), that stripping a name leaves nothing to strip (`StripAssumption`) and that a query result has one of the statuses
of the code (`ResultsAssumption`), for plans of any size:

| Theorem | States |
|---|---|
| `VerdictMatchesPackAlways` | `VerdictMatchesPack` |
| `TenantsStayApartAlways` | `TenantsStayApart` |
| `ProjectionIsClosedAlways` | `ProjectionIsClosed` |
| `OnlyNamesPreventPackAlways` | `OnlyNamesPreventPack` |
| `ReorderKeepsMeaning` | an exchange of neighbours leaves the canonical meaning alone |
| `FixtureFindsItsClause` | a fixture is bound exactly when the pack holds the clause it names |
| `GapsAreVisibleAlways` | `GapsAreVisible` |

Three of these are about accepted plans, and follow from `Valid` alone once the plan is known to
be one: `VnisServed` and `ServedTenant` say that what a VNI refers to is in the plan and of the tenant
the VNI is filed under, `ClausesByKind` and `ClausesOfKind` take the pack apart by kind of clause, where the
contract's uniqueness checks apply, and `VniTenants` says that a clause and what it refers
to are filed under the same tenant.  `IdentitiesTellApart` turns the contract's uniqueness checks into
distinct clause identities, and `NamesDecide` what is left of the pack's demands into the names.  A verdict is about a plan of the
bound meaning, but not about the plan that was bound; so `VerdictMatchesPackAlways` rests on
obligations being a function of the meaning, `Obligations(Clauses(p)) =
ObligationsOf(Meaning(p))` (`ObligationsFollow`, one lemma per kind of clause), and
`EvaluationInv` keeps that the pack's obligations are those of the bound meaning.
`ReorderKeepsMeaning` is the other half: what `static_order` shows to depend on the order
is the fixture, not the binding.  `ComparisonInv` keeps that an assessment is that of its pair in
the right roles; `AssessmentShowsGaps` says what such an assessment lists.

Every invariant that a run checks is now a theorem, and so is every action property.
Only model-checked are the five liveness properties, since fairness and `ENABLED` are out of the
prover's reach.  For each the part that is safety is proved:

| Liveness, checked by TLC | What is proved beside it |
|---|---|
| `LabIsSettled` | `EndIsSettled`, `CommandCannotRunForever` of `ClabRunProofs` |
| `ContainerIsSettled` | `EndIsSettled`, `CommandCannotRunForever` of `FrrSmokeProofs` |
| `RetryRemoves` | `RetryNeverLosesContainer` |
| `RetryReleases` | `CleanupNeverRegresses` |
| `PollingEnds` | `WaitCannotRunForever` |

A number that falls with every step says that the program cannot run for ever, not that a
step is possible where it stands: that a call is never stuck half way is left to TLC.

## 5. Not modelled, and assumptions

* Inside one command of the program the same-user race between validation and
  use is not interleaved: ADR-003 places it outside the boundary.  Outside
  changes happen between the steps.  Reuse of an inode number and moving an
  object away and back are not modelled.
* The effect of a Containerlab command has landed when its call returns or
  raises.  A `docker run` cut off before it printed an id may land later.
* Text, JSON, hashes: two bundles are equal exactly when their canonical
  hashes are, and a manifest comparison tells own objects from others.
* `LabRun`: run identifiers are distinct and the runner shows its resources.
  The history and the provenance fields of a record are left out.
* The syntax of names, addresses, route distinguishers and targets, and community
  sets; the capability requirements of a pack (a projection keeps those of other
  tenants' clauses, `compile.py:503`); the rendered topology.
* The traffic contract of `ixia_c.py`, which checks its input and always answers
  `UNKNOWN`, and the route expectations of `observers.py`, which nothing evaluates.
* What a Batfish query asks, and the JSON of its answer, which the comparison
  reads only through its hash.
* The ownership, transcripts and deviations of an evidence bundle: no link depends
  on them.  The printed records and the reading of the command line's files.
* Capability probes are declarations that nothing in the repository executes.

## 6. Plan

Done: the lifecycles under their commands (`ClabRun`, `ClabSmoke`, `FrrSmoke`, `FrrCommand`,
`LabRun`), the store and its refinement, the bundle's links, the capability gate, the
static pipeline (`FeatureContract`, `TestPack`, `StaticEvaluation`), polling with the
observers (`LabTest`), the Batfish comparison, and the proof of every invariant and action
property the runs check.  Next, in this order:

1. No call is stuck half way: wherever a call of `ClabRun`, `FrrSmoke` or `BundleStore` stands, the
   guard of one of its steps holds.  Stated over the guards it needs no `ENABLED`, and with the
   falling numbers above it leaves only fairness to TLC.
2. `CreateOnlyStore` by itself: what follows for a reader from the abstract specification, so
   that the refinement carries it over.
3. The converse of `CompleteMeansLinked`: a payload with every link, and nothing else wrong, has no findings.
