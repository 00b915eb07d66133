# A verification development of dotmac_governance

`dotmac_governance` keeps the engineering rules of an estate of repositories
and the programs that check them: an installer for managed agent
configuration, a conformance engine over product repositories, a runner that
measures a product against the Platform Kernel it adopts, and validators of
the records kept here. This directory models the parts of those programs
whose correctness depends on the order of steps, on who else is at work, or
on what a long history has left behind, checks them with TLC and proves their
main properties with TLAPS.

## 1. Inventory

| Component | State it keeps | Operations | Hard behaviour |
|---|---|---|---|
| Endpoint activation and rollback, `agent_control/activation.py` | installed files of an endpoint, backup roots, one manifest per root | `activate_local`, `rollback_local` | partial failure, crash at any write, files others edit between a check and its use, a second failure inside the handler, reuse of a backup root |
| Managed configuration, `agent_control/managed.py` | a staged bundle and the attestation beside it | `plan_deployment`, `deploy_endpoint`, `reconcile_endpoint` | a plan is read from several places while they change; staging is not atomic; a second staging must recognise the first |
| Bootstrap and conformance of a repository, `agent_control/engine.py` | two projection files in a repository | `verify_repository`, `bootstrap_repository` | two files written one after the other beside people who edit them; a file with the generator's marker that nobody generated |
| Authority-cutover receipts, `tools/check_receipts.py` and `.github/workflows/governance-checks.yml` | the registry on `main` and on every open branch, the verdicts of checks | pull request changes, update, check, merge | concurrent pull requests, stale verdicts, chains of corrections, deletions |
| Kernel-adoption runner, `kernel_adoption_control/runner.py` | two git checkouts, the report being assembled, the process's set of reports it produced | `run`, `citability`, `main` | a checkout is read piece by piece while others edit it; HEAD read once; shallow clones |
| Kernel-adoption evaluation, `kernel_adoption_control/engine.py` and contracts | the declaration a product keeps beside its source | `evaluate` | a declaration outlives the source, the pins, the catalogue and the day it was written for; one import has several spellings |
| Gate aggregation, `gate_control` | the report gates write into | `parse_results`, `aggregate`, `exit_code`, `check_run` | gates report late or twice; two channels give the same verdict |
| Standards engine, `standards_control/engine.py` | none, over two revisions of a product | `verify_repository` and its analyses | ratchets between a trusted and a candidate revision; fixed points over names in one file |
| Derived connector scope, `standards_control/engine.py` (`_derive_scope`, `_trace_client_factories`) | the candidates of two loops | dropping tests that outside code reaches, adding helpers only tests reach, tracing clients | two loops change the set they go through; cycles of imports; two traces that must agree |
| Retirement ledger, `standards_control/retirement.py` and `engine.py` | the active retirements and the closed history in a product's profile, commit after commit | enrol, activate, drain, close | the engine compares two commits, the promise is about a branch: a retirement dropped, reused or moved backwards over many commits |
| Retirement evidence, `standards_control/retirement.py` and `engine.py` | bundles of observations of a target database | parse and chain the observations of a bundle | a try left out; somebody else changes the catalogue between two observations; an older revision |
| Foundation bootstrap, `standards_control/foundation_bootstrap.py` | pinned evidence, a recorded order of two coordinates | `verify_materialized_wheel`, `verify_materialized_evidence`, `coordinate_disagreements` | none that is left to the code (not modelled, section 6) |
| Programme matrices, `programme_control` | a matrix, amendment after amendment | `verify_repository`, the search for cycles | rules that must hold together after amendments merged one at a time; a search whose answer must not depend on its order |
| Record checks, the other files of `tools/` | none | single-pass checks | none that depends on order |

How they interact. The conformance engine, the kernel runner and the gates are
run by the CI of product repositories; their only shared state is git. The
installer takes its plan from `plan_deployment`, which staging also uses, and
`activate_local` and `rollback_local` share the manifest in the backup root: the manifest is the
only memory that survives a command. The receipts validator shares `main`
with every open pull request. The runner shares two checkouts with whoever
works in them, and hands what it read to `evaluate`. The verdict on a bundle of
teardown observations is what lets a retirement close.

What makes each correct:

- *activation*: an installation happens completely or not at all; a backup is
  what was there; a manifest never lies; no crash point loses a file.
- *receipts*: `main` is append-only; each receipt has one current correction.
- *runner*: what a report is cited for is what its two revisions hold.
- *staging, bootstrap*: an attestation describes the files beside it, success
  means that the files are there, and what somebody wrote by hand is left alone.
- *evaluation*: what passes is declared, and an edit that matters is noticed
  while one that does not is free.
- *gates*: no verdict that blocks is taken back by a further report, and the
  two channels agree.
- *programme*: what is planned can happen, in the order planned.
- *standards, retirement*: a ratchet does not loosen, a derived scope does not
  depend on the order of files, a retirement only moves forwards, and the
  evidence for one is of something that happened.

## 2. Modules

| Module | What it is |
|---|---|
| `Activation` | activate-local and rollback-local, step by step |
| `EndpointTransaction` | the abstract endpoint that `Activation` implements (`INSTANCE` in `Activation`) |
| `EndpointStaging` | plan, deploy and reconcile of a managed endpoint |
| `RepositoryBootstrap` | bootstrap and verify in one repository |
| `ReceiptRegistry` | pull requests on the receipt registry and the validator they pass |
| `KernelRun` | one run of the kernel-adoption runner over two checkouts |
| `CommitAudit` | the abstract audit that `KernelRun` implements: one look at two commits (`INSTANCE` in `KernelRun`) |
| `KernelEvaluation` | the rules of `evaluate`, over a product that changes under its declaration |
| `RetirementLedger` | retirements along a product's branch and the engine's comparisons |
| `RetirementLife` | the life of a retirement that `RetirementLedger` implements (`INSTANCE` in `RetirementLedger`) |
| `TeardownEvidence` | observations of a teardown and the bundle that passes a gate |
| `ScopeDerivation` | the derived connector scope and the trace of HTTP clients |
| `ControlCycles` | the search for cycles among the controls of a programme |
| `ProgrammeMatrix` | a matrix amended one pull request at a time (EXTENDS `ControlCycles`) |
| `GateAggregate` | the gates of a change, their report and its two channels |

A module holds one component. An `MC_` module gives its constants values for
TLC. A `...Proofs` module holds theorems: `ActivationProofs`, `ReceiptProofs`,
`KernelRunProofs` (run and evaluation), `RetirementProofs` (ledger and
teardown), `ScopeProofs`, `BootstrapProofs` (bootstrap and staging),
`GateProofs`, and `ProgrammeProofs` (search and matrix).

`MC_Agent`, `MC_Kernel`, `MC_Checks` and `MC_Standards` each put the components
of one package or pipeline stage side by side. Those components share no
variable. A variable `subject` picks, in the initial state, the one that moves;
the others stay in a single initial state, so the states of such a run are
the sum of its parts and each part is explored as it would be alone.

Definitions whose comment calls them "a bug of" something are variants of a
definition of the code: putting one in place of the other makes the property
it is paired with in `PROJECT.json` fail, which is how we know that the
property depends on that code.

### 2.1 Activation

A command is a sequential process. `phase` is the part of the function that
runs and `i` the artifact its loop is at; `job`, `prior` and `refused` are its
local variables; `file`, `backup`, `used` and `manifest` are the disk. Each
iteration of a loop is an action, so that a crash (`Crash`), an edit of the
endpoint (`Edit`) or of a backup (`Tamper`) can fall between any two.

| Code (`activation.py`) | Actions |
|---|---|
| `activate_local`, preflight and refusal | `BeginActivate`, `AdmitTarget`, `RefuseTarget`, `RefuseActivation`, `OpenBackupRoot` |
| backups and prepared manifest | `BackupTarget`, `NothingToBackUp`, `Prepare` |
| installation, applied manifest | `ApplyTarget`, `SkipUnchanged`, `SealApplied` |
| the `except OSError` handler | `ApplyFails`, `RemoveCreated`, `RecoverReplaced`, `RecoverUnchanged`, `SealRecovered` |
| `rollback_local`, first loop | `BeginRollback`, `MatchTarget`, `DriftTarget`, `RefuseRollback` |
| second loop, rolled-back manifest | `BeginUndo`, `UndoCreated`, `UndoReplaced`, `UndoUnchanged`, `SealRolledBack` |

A file is its content, as mode and owner travel with it. The gates that decide
before anything is touched (identity, allowlist, privileges, credentials) are
the choice of `Version`. A content that `rollback_local` reads through a
symlink is any content (`Reads`). `raced` belongs to the properties: it
remembers which artifacts somebody else touched under a command, because
nothing can be promised of those.

`EndpointTransaction` is what the documentation promises: an activation or a
rollback happens at once, fails without a trace, or dies and leaves a mixture
of old and new files. `Activation` implements it under a refinement mapping
that shows the endpoint as it was while a command writes (`ShownFile`,
`ShownManifest`). That holds only while
nobody edits a file under a running command (`EditsRace = FALSE`).

### 2.2 EndpointStaging

A command of `dotmac-agent deploy` or `reconcile`; `phase` is where it is in
`plan_deployment`, `deploy_endpoint` or `reconcile_endpoint`, `plan` what it
has read so far and `at` the artifact its loop is at.

| Code (`managed.py`, `engine.py`) | Actions |
|---|---|
| loading policy and enrollment | `Begin` |
| `detect_repository_identity`: three git calls | `ReadRevision`, `ReadBranch`, `ReadStatus`, `IdentityFails` |
| instruction source, deployment diagnostics | `ReadText`, `TextMissing`, `ReadGates` |
| `deploy_endpoint`: the refusal of apply, comparison | `RefuseApply`, `Compare`, `Refuse`, `Accept` |
| the writing loop, the result | `Keep`, `Open`, `Truncate`, `Fill`, `Staged` |
| `reconcile_endpoint` | `Reconcile` |

Between any two, `Edit` and `Checkout` change the sources, `Touch` a staged
file, and `Crash` ends the command. A write is two steps, so a crash may leave
an empty file (`Truncated`). The attestation is the last artifact and stands
for the digests it holds. `moved` marks the commands whose plan was read over
a change that their one question to `git status` cannot answer for: HEAD moved
while the plan was read, an edit was undone before the status was asked, or
one was made after it (`Unnoticed`). The properties about commits except these
and nothing else; an edit between the reading of the policy and the status is
not excepted, as the code has to report it as dirty.

### 2.3 RepositoryBootstrap

`verify`, `plan` and `apply` are the modes of one command. `Look` is
`_write_projection` up to the write, with the refusal of a file that lacks the
marker; `LookFails` a file that is not UTF-8; `OpenFile` and `WriteFile` the
two halves of `write_text`; `Verify` is `verify_repository` with the profile
loaded again, and `Report` the result. `EditFile`, `EditProfile` and `Killed`
may fall anywhere. `raced` marks the two windows in which an edit is out of the
code's sight: the file at hand is saved between its reading and its opening,
or something is saved after it was verified. `Facts` says of a body what the engine sees in it: marker,
lines, budget, secrets, shared rules. `VerifyErrors` is the union of the checks
of `verify_repository`, each an operator of its own, and errors are named by
their kind. Left out of `Verify` are the search for secrets in the profile file
itself (`agent_control/engine.py:634-638`) and the warnings for a dirty tree
and a budget nearly used up; without them success is only easier to reach, so
what the properties say of success is said of more runs.

### 2.4 ReceiptRegistry

`main`, and for each branch its `tree`, the main it was forked from (`fork`),
its `verdict` and the main that verdict was given `against`. `Change` is any
edit of a branch; `Update` merges main into it; `Check` is the workflow: it
validates the merge with main (`SupersessionErrors`, `AppendOnlyErrors`,
`Malformed` from `check_receipts.py`) and answers not applicable when
there is no receipt; `Merge` is git's merge of a branch with a green
verdict. `strict` is the branch protection setting that a branch must
contain the tip of main, chosen in the initial state; `docs/adr/0003` (line 166) and
`docs/open-decisions.md` (line 14) record that it is on. Without it two green
branches can correct one receipt twice, so `EveryReceiptHasOneCurrent` is
about the strict setting; `EveryReceiptStands` says what no stale verdict can
undo, that from every receipt of main corrections lead to one that nothing
corrects.

### 2.5 KernelRun

`step` is the read that comes next in `run()`, `seen` what has been read. The
order of the reads is that of the code: the two revisions, the profile's pin,
the binding, the declaration, the evidence, the observation, ancestry, and
only then whether the checkouts are clean. `Judge` is `citability` and the
exit code of `main`; `HandBuild` is a caller who builds a report without
`run()`. Between the reads developers edit (`Edit`, `EditGovernance`), move
HEAD (`Move`, `MoveGovernance`) or deepen a shallow clone (`Deepen`).
`Restores` says whether, during a run, an edit may be taken back or HEAD may
move. A commit git does not know is answered with 128 in a full clone
(`runner.py:645-656`); the model answers no, with the same verdict.

`CommitAudit` is what a reader takes a citation for: one look, at one instant,
at the two commits that are checked out then, which alone decide (`Deserving`).
In `KernelRun` a citation (`Cited`) appears at the end of a dozen reads; that
it is such a look is `ImplementsAudit`.

### 2.6 KernelEvaluation

`sources`, `declaration`, `checkout` (pins, catalogue and what git says of the
predecessor) and `day` are the inputs of `evaluate`, which is `Evaluate`. Its
blocks are operators: `SourceHolds` (imports, exports, private components,
aliases), `PinsHold`, `SurfaceHolds`, `CatalogueHolds`, `RequiredHolds`,
`ProhibitedHolds`, `TransitionalHolds`. A source is what its parse tree says of
the Kernel, a module the sequence of its names, a digest what it is taken over
(`Facts` for the first canonicalization, `IdentityFacts` for the second).
`Declare` writes a declaration that fits the product as it is, with roles the
author picks; after that `EditSource`, `Spoil`, `ObserveCheckout` and `PassDay`
move the product away from it. An import of a submodule under the name of the
Kernel (`import dotmac_kernel.db as dotmac_kernel`) is the un-aliased import
here, as no property tells the two apart. In `KernelRun` the same rules are the set
`Passing`.

### 2.7 RetirementLedger

`main` is the sequence of profiles on a product's branch. A pull request may
propose any row, drop a row, close one, or cut and rewrite the history
(`WriteRow`, `DropRow`, `CloseRow`, `RewriteLedger`); `Accept` appends the
proposal when the parser (`ProfileWellFormed`), the comparison with the tip
(`TransitionsHold`) and the declared authorities (`AuthoritiesDeclared`) have
no finding. Each operator of the comparison is a block of
`_trusted_retirement_transitions`. An authority stands for itself and its
canonical writer, and a record for bytes that resolve at the coordinates the
profile gives; commits a profile names are commits of the branch; the base is
the tip. Left out, which makes acceptance easier in the model than in the code:
the retained closure's check of the declared authority and the authority and
reason it carries, the binding of writer paths (`engine.py:917-934`) and the
match of `migrate_to_module` with the transition (`retirement.py:860-864`).

`RetirementLife` has neither profiles nor comparisons: a retirement is unknown,
enrolled as legacy, draining or drained, taken over by the target it named,
and at the end retained or gone. `LifeOf` reads that off a profile, from the
active row or from the entry that closed it, and `ImplementsLife` says that a
commit, whatever edits it mixes, takes each retirement at most one step on.

### 2.8 TeardownEvidence

`catalogue` is what stands on each deployed target and `log` every observation
of one, in the order of time. `Try` is an attempt of the deletion migration
that ends committed or refused at a stage; `ObservePreDrop` and
`ObservePostUpgrade` look between tries; `Change` is anybody else at the
target. `Submit` presents a bundle, any set of observations, for a gate:
`ChainHolds` is the chain of `parse_observation_bundle`, `TargetHolds` and
`ProductHolds` are the rules of `_retirement_contracts`, without the comparison
of the catalogue and checks of a product's admission (`engine.py:1129-1146`), so
the model admits more. Whether a migration
fences, rechecks and restricts is `Careful`; a rehearsal shows it. The code
judges what was reported, so the properties compare it with what happened
(`found`, `left`), which no rule reads.

### 2.9 ScopeDerivation

`importers` is the graph of `_importers`, `traits` what the syntax tree and
the profile say of a source, `candidates` the exclusions so far. The code
goes through a sorted snapshot of a set it changes at the same time; `unvisited` is
the rest of that snapshot, visited in any order because the order is that of
path names. `Drop` and `Keep` are the body of the first loop, `Join` and
`Skip` of the second, `Again` another pass, `Shrunken` and `Finish` the ends
of the loops. `Trace` is `_trace_client_factories`: a source has one function,
which makes a client, wraps a visible one, or is a republished name, and two
rounds carry it along the imports.

### 2.10 ControlCycles and ProgrammeMatrix

`ControlCycles` is `_cycle_nodes`. The recursion is a stack: `Visit` is the
outer loop, `Descend` a recursive call, `CloseCycle` and `MeetAgain` a
dependency that is open or done, `Return` the end of a visit. The order of
controls and dependencies is that of lists in a file and is left open.

`ProgrammeMatrix` keeps the matrix on the branch. Each `Amend...` is a pull
request that changes one row, and `Merged` admits it when `VerifyRepository`
accepts the checkout it leaves. The rules are one operator per function of
`programme_control/engine.py`: `ControlsHold` (with the cycles), `GateHolds`,
`ComponentsHold`, `CohortsHold`, `RosterHolds`, `DecisionsHold`, `StatusHolds`.
`ControlsHold` uses `Stuck`, which is what the search was shown to compute. What
a component requires is fixed (`Requires`); the code judges each matrix by
itself, so a requirement that changes is one more matrix to judge.

### 2.11 GateAggregate

`report` grows by `Reports`, any gate with any verdict at any time; a command
reads what is there (`PrintVerdict`, `PublishCheck`) and answers with an exit
code, a conclusion and a summary. `Believes` is the parser, `Blocked` the
decision, `ExitCode` and `Conclusion` the two channels, which the code computes
apart from each other.

## 3. What the runs check

| Run | Bounds | What it shows |
|---|---|---|
| `activation_race` | 2 artifacts, 1 root, 2 versions, 3 contents; races and crashes | `BackupsHoldOriginals`, `EveryCrashPointIsRecoverable`, `ManifestTellsTruth`: what nobody else touched is never lost and never misreported |
| `activation_quiet` | 2 artifacts, 2 roots, 2 versions, 2 contents; crashes, edits between commands | `ImplementsTransaction` |
| `activation_live` | as above with 1 root, no crash, no race | `PreparedIsSettled`: a prepared manifest becomes applied or rolled back |
| `activation_rollback_drift` | races, no crash | finding 1 |
| `receipts` | 3 receipts, 2 branches; 2 changes each with the strict rule, 1 without | `EveryReceiptHasOneCurrent`: under the strict rule corrections form chains with one end; `EveryReceiptStands`, `MainIsAppendOnly` with and without it |
| `agent` | staging: 1 artifact from text and 1 from controls, 2 revisions, 2 edits, 1 command at a time, 1 touched file, crashes; bootstrap: 2 files, 6 profiles, up to 4 bodies people leave in each | `BundleIsWhole`, `StagedIsKept`, `AttestedIsCommitted`, `ReadyIsCommitted`; `HandWrittenIsKept`, `SuccessIsProjected`, `AgainChangesNothing` |
| `kernel` | run: 3 product commits, 2 Governance commits, both contracts, nothing restored; evaluation: 1 source of 13 kinds and its test, 3 Kernel modules, 2 releases, 1 day | `CitedIsCommitted`, `CitedIsAgreed`, `ImplementsAudit`; `ConformingIsAccounted`, `EditsAreDeclared`, `ReformattingMovesNothing` |
| `kernel_restored` | the runner, with edits undone and HEAD moved | finding 2 |
| `kernel_prohibited` | the evaluation | finding 4 |
| `standards` | ledger: 2 ids, 2 relations, 2 authorities, 4 commits; teardown: 1 target, 2 edges, 2 revisions of which one is careful, 4 observations | `RetirementsAreOneWay`, `NothingVanishes`, `IdentitiesAreReserved`, `LedgerTellsTheBranch`, `ImplementsLife`; `CompletionIsReal`, `NoTryIsHidden` |
| `checks` | search: all graphs of 3 controls; matrix: 2 controls, 2 cohorts, 3 components, 1 decision; gates: 2 gates, 3 reports; scope: 3 sources of 5 kinds, all graphs, all orders | `NamesTheStuck`; `TheGateCanOpen`, `RequirementsComeFirst`; `CodeTellsWhy`, `NothingReportedUnblocks`, `ChannelsAgree`; `OrderDoesNotMatter`, `MeasuredReachesOnlyMeasured`, `ExclusionsBeginAtTests`, `ReasonsAreTrue`, `ExclusionsMoveNoTrace`, `ScopeTerminates` |
| `ledger_relabel` | 1 id, 1 relation, 5 commits | finding 3 |

The largest run, `agent`, has about 1.7 million distinct states, `standards`
and `kernel` 0.6 million each.

Why these bounds are enough for what the runs ask. Two artifacts are the least
for a partial installation and for a bundle of which one half is new; two
versions let a second activation replace what a first installed; three contents
tell the original, the installed and a third one apart; two roots let a
rollback of the older one meet the newer one. An artifact from text and one
from controls differ in the source an edit moves. Three receipts are the least
for a chain with two corrections and for a fork of it; two branches for a merge
under a stale verdict. In the kernel runs `c1` is before `c2` and `c3`, which
are not related: a predecessor may be an ancestor, the commit itself, or
neither. The kinds of source include each spelling of an import that the
analysis tells apart. Four commits hold a whole life: enrol, activate, drain,
close; reuse of an identity needs only one more id or relation. Four
observations hold a look, a refused try, a committed one and the look after it.
Three sources hold a test that reaches a helper that reaches another test, and
a test with two helpers that import one another; three controls hold a cycle
and one that waits for it. Three reports hold a gate that reports twice and
another one. Where a theorem of section 5 states the property, the bound does
not matter.

`MaxTouched`, `MaxChanges`, `MaxCommits`, `MaxLog`, `MaxDay` and `MaxReported` are the only bounds that stand in guards; none of the programs
has them.

Symmetry is used for receipts and branches, backup roots, ids and relations,
in runs without liveness; nothing in those modules tells their members apart.
A command can always be started again and a pull request can always be updated,
so deadlock is checked there. `CHECK_DEADLOCK FALSE` stands in `ledger_relabel`
and `standards`, which stop at their bounds, and in `checks`, where the search
and the derivation end.

### Fairness

`activation_live` assumes `WF_vars(Command)`: a command that was started takes
its next step. It is a foreground process that waits for nobody; its only
other end is a crash, which the run excludes. Nothing is assumed of the
operator: no command need be started. A loop body whose write may also fail
is still a step. `checks` assumes `WF_checksVars(Derives)` for the derivation
of the scope, a single-threaded function without input. No other component has
a promise that something happens: they are commands somebody may or may not
run.

## 4. Findings

1. `rollback_local` compares all targets and backups with the manifest first
   and overwrites them in a second loop that compares nothing
   (`activation.py:735`), where `docs/agent-control.md:59` says it changes
   nothing unless every target still matches.
2. The runner reads HEAD first and asks for the status last, and never reads
   HEAD again (`runner.py:899`): an edit that is undone, or a HEAD that moves,
   yields a citable report over bytes its revision does not hold, which the
   docstring at `runner.py:276-278` rules out.
3. The disposition of a retirement may change from commit to commit
   (`engine.py:643`), so a deletion may be relabelled and closed without one,
   where ADR 0017 (lines 408-409) says that relabelling discharges nothing.
4. The prohibition of a Kernel module compares the module an import statement
   names (`kernel_adoption_control/engine.py:1567`), so a product that
   prohibits `dotmac_kernel.legacy` and says `from dotmac_kernel import legacy`
   conforms, where ADR 0042 (line 129) has the runner report an import the
   product classifies prohibited.

Observations without a run, because no promise of the repository is broken or
because the model does not reach the case:

- a second failure inside the handler of a failed installation leaves the
  endpoint half installed and its manifest prepared (`activation.py:380`);
- the backup is read again after preflight, so it may hold a later content than
  the manifest names (`activation.py:357`, the reason `raced` excuses such
  artifacts);
- a draining row may request the gate of a finished drain (`retirement.py:796`,
  against ADR 0017 line 434), which the closure itself makes harmless;
- without a trusted base an emptied ledger has nothing to be compared with
  (`standards_control/engine.py:192`), and two pull requests judged against one
  base may be merged one after the other (`engine.py:204`);
- two stagings into one output are not kept apart (`managed.py:991`);
- a plan reads HEAD once and asks for the status before it reads the instruction
  text and the ADR (`managed.py:814-832`), so a HEAD that moves, an edit undone
  before the status and one made after it go unnoticed;
- a file that is replaced by hand after `_write_projection` has read its marker
  and before it opens it is overwritten (`agent_control/engine.py:668-676`);
- the aggregation of gates has no list of the gates to expect
  (`gate_control/engine.py:96-99`): one that never reports is not missed, as
  long as another one does;
- the comment at `programme_control/engine.py:721-722` says that a cohort may
  not start before its dependencies; the code compares their sequence numbers
  and the cutover gate, not whether they have started.

## 5. What is proved

Every theorem holds for every value of the constants, under the named
assumptions of its module (they say which marks are distinct, which sets are
finite or nonempty, what ranges tables have) and the conditions in the third
column. Each safety and action property of a passing run, and each refinement
a run checks, is stated by one of them; the theorems without a property say
what no run needs to ask.

| Theorem | Property | Condition |
|---|---|---|
| `ActivationProofs!TypeCorrect` | `TypeOK` | |
| `OriginalsKept` | `BackupsHoldOriginals` | |
| `CrashPointsRecoverable` | `EveryCrashPointIsRecoverable` | |
| `ManifestsTellTruth` | `ManifestTellsTruth` | |
| `CommandsImplementTransaction` | `ImplementsTransaction` | `~EditsRace` |
| `ManifestsAreOneWay`: a manifest keeps its version and entries, and its status only advances | | |
| `CommandsEnd`: a command on N artifacts has at most 4N + 2 steps | | |
| `SettledAtRest`: a prepared manifest belongs to an activation still at work | | `~EditsRace`, `~MayCrash` |
| `BootstrapProofs!BootstrapTypeCorrect` | `BootstrapTypeOK` | |
| `AppliedIsSettled` | `AgainChangesNothing` | |
| `SuccessMeansProjected` | `SuccessIsProjected` | |
| `HandsOff` | `HandWrittenIsKept` | |
| `ReadyMeansCommitted` | `ReadyIsCommitted` | |
| `AttestationDescribes` | `BundleIsWhole` | `OneAtATime` |
| `NothingStagedIsChanged` | `StagedIsKept` | `OneAtATime` |
| `StagingIsOfTheCommit` | `AttestedIsCommitted` | `OneAtATime` |
| `StagingEnds`: a deploy or reconcile of k artifacts has at most 4k + 8 steps, of any number at a time | | |
| `ReceiptProofs!TypeCorrect` | `TypeOK` | |
| `AppendOnly` | `MainIsAppendOnly` | |
| `OneCurrent` | `EveryReceiptHasOneCurrent` (which assumes `strict`) | |
| `CorrectionsAdvance`: what stands for a receipt is only ever replaced by a correction of it | | (assumes `strict`) |
| `StaleMergesOnlyFork`: main is never malformed, dangling or cyclic, however stale a verdict | | |
| `SomethingStands` | `EveryReceiptStands` | |
| `KernelRunProofs!TypeCorrect` | `TypeOK` | |
| `CitedAreCommitted` | `CitedIsCommitted` | `~Restores` |
| `CitedAreAgreed` | `CitedIsAgreed` | `~Restores` |
| `RunImplementsAudit` | `ImplementsAudit` | `~Restores` |
| `NoSilentEdit` | `EditsAreDeclared` | |
| `FormattingIsFree` | `ReformattingMovesNothing` | |
| `WhatPassesIsAccounted` | `ConformingIsAccounted` | |
| `RetirementProofs!OneWayOnTheBranch` | `RetirementsAreOneWay` | |
| `NothingLost` | `NothingVanishes` | |
| `NamesReserved` | `IdentitiesAreReserved` | |
| `LedgerIsTrue` | `LedgerTellsTheBranch` | |
| `LedgerImplementsLife` | `ImplementsLife` | |
| `NoTryHides` | `NoTryIsHidden` | |
| `CompletionHappened` | `CompletionIsReal` | |
| `ScopeProofs!TypeCorrect` | `ScopeTypeOK` | |
| `OneResult` | `OrderDoesNotMatter` | |
| `NothingReachedIsExcluded` | `MeasuredReachesOnlyMeasured` | |
| `NoExclusionWithoutATest` | `ExclusionsBeginAtTests` | |
| `EveryReasonIsTrue` | `ReasonsAreTrue` | |
| `TraceIsUnmoved` | `ExclusionsMoveNoTrace` | |
| `DerivationEnds`: the derivation ends after at most 3(n + 2)² visits of n sources | | `Source` finite |
| `MeasuredStaysMeasured`: a commit without new tests, whose new imports come from measured sources, hides nothing | | |
| `GateProofs!ExitCodesTell` | `CodeTellsWhy` | |
| `BlockedStaysBlocked` | `NothingReportedUnblocks` | |
| `BothChannelsAgree` | `ChannelsAgree` | |
| `OrderIsNoise`: the order in which gates report decides nothing | | |
| `ProgrammeProofs!SearchNamesTheStuck` | `NamesTheStuck` | |
| `SearchEnds`: the search takes at most three steps per control and one per dependency | | `Node` finite |
| `GateCanAlwaysOpen` | `TheGateCanOpen` | |
| `WhatIsNeededComesFirst` | `RequirementsComeFirst` | |

The inductive invariants and why they are needed:

- *Activation*: `TypeOK`, `OnDisk`, `Bounds`, `Progress`,
  `BackupsHoldOriginals`. None of the properties is inductive: that a backup
  is not overwritten later needs that a root with a manifest counts as used
  (`OnDisk`), and that a manifest is true when it is sealed needs to know, for
  each loop, what it has already done and not yet done (`Progress`). The
  refinement adds `Undisturbed`: while nobody races a command, nothing it works
  on is touched by others, so each concrete step shows as one abstract step or
  a stutter. `CommandsEnd` needs no more than `Bounds`: the worst way is an
  activation that passes three loops and fails at the last write, so the bound
  is met. `SettledAtRest` adds that nothing a command reads or unlinks is then
  missing (`NeverBlocked`), so it never ends in the middle of the handler.
- *Bootstrap*: `BootstrapInv` says what each step already knows of the profile,
  the file and the report: a file is opened only after it was read as stale and
  generated or absent (`OpenIsDecided`), and a report that nobody disturbed is
  about the files as they are (`ReportIsCurrent`).
- *Staging*: `Told` says of each field of a plan which source it was read from,
  `Progressing` what the comparing and the writing loop have behind them, and
  `Attested` that a complete attestation has its files beside it. The last
  two are about one output directory and need that one command is at it.
  `StagingEnds` does not: `Placed` says where in its plan a command is, whatever
  others do to the files, and the number of its artifacts is fixed with the
  enrollment it began with.
- *Receipts*: `Grown`: main extends the fork of every branch, and a green
  verdict was about a main in between and about a merge that kept it. It makes
  a stale verdict as good as a fresh one for append-only; `MergeExtends` is
  the lemma that a conflict-free merge keeps what main gained meanwhile. For
  `OneCurrent`, `Vouched` says that under the strict rule main never has an
  error of supersession; that it then has one end per receipt is an argument
  about finite sets: a walk along corrections that never ends repeats a receipt
  (`Hops`), which the validator refuses, and two ends would need one receipt
  with two corrections. Without the strict rule `Sound` is what is left: a merge
  joins two sets of corrections that each grew from the same main, and a ring
  through both would have to leave one of them for a receipt it does not hold
  (`LeadsOn`, `WalkInside`, `SoundTogether`). `CorrectionsAdvance` follows from
  `OneCurrent` on both sides of a merge.
- *KernelRun*: `Tracks` says that each value read is HEAD's or the checkout
  now differs from HEAD there. With nothing restored the difference stays, so
  the status asked last vouches for all earlier reads. The instant of the
  refinement is that of `Judge`: the heads have not moved since the run began
  (`HeadsAreStill`), so the two commits it read first are still the two
  that are checked out, and what it was told of them, under `CitedIsCommitted`
  and `CitedIsAgreed`, is theirs (`CitedDeserve`).
- *KernelEvaluation*: two sources that differ in layout alone say the same of
  each module (`Covers`, both ways `Similar`), and every block of `evaluate`
  reads no more than that. `ConformingIsAccounted` and `EditsAreDeclared`
  follow from the blocks and the types.
- *Retirement*: the engine compares neighbours, so `History` states the
  comparison between any two commits; it is made transitive by parts (`OneWay`,
  `Kept`, `Steady`). `RowsTellTheBranch` is needed because the ledger copies
  its account from the active row. The refinement uses the same invariant, one
  lemma for a row that stays (`RowMoves`) and one for all ways of a retirement
  (`LifeMoves`): the source of a row and its transition are compared apart, and
  only the parser keeps a row from being drained under legacy authority; an
  entry is the only account of what it closes (`EntryTells`).
- *Teardown*: `TellsTheTry` ties what an observation reports to what happened,
  and `AdmittedIsSupported` keeps the rules under which the last bundle was
  admitted. That the chain has no gap comes from the observation each one
  names as the preceding one, by the least observation left out.
- *Scope*: a pass that has changed nothing yet has found each source it
  visited in order (`Shrinking`, `Growing`), and the candidates always lie
  between the two fixed points. At the end of a pass without change they meet.
  The trace follows from `NothingReachedIsExcluded` by going through the two
  rounds (`VisibleStays`, `FactoriesStay`). Both loops visit a source again
  whenever another one has changed; `DerivationEnds` weighs the candidates that
  may still change with the number of sources (`VisitsLeft`), so that a pass
  paid for by one change costs less than the change.
- *Search*: the stack is a path (`PathInv`), what is named waits for a cycle
  (`NamedWait`), and a set of controls that wait for one another cannot be
  closed without being named (`DoneAreNamed`), which is the part that a control
  met again makes delicate. `SearchEnds` counts the controls not yet visited,
  those on the stack and the dependencies not yet followed.
- *Matrix*: each accepted matrix satisfies the rules and has its type. From the
  rules to the two properties goes an induction over the sequence of
  cohorts (`Rounds`) and one over dependencies.
- *Gates*: `GateInv` says of the prefix the last command read what its answers
  say of it.

Assumptions to keep in mind: `Restores = FALSE` for the runner (finding 2 is
what happens without it), `strict` for `EveryReceiptHasOneCurrent`,
`EditsRace = FALSE` for the refinement of `Activation`, one staging at a time for three of
the staging theorems, and that the base of a comparison is the tip for the
ledger.

Where a proof needs an induction over numbers or sets, it takes the least
element of a set (well-founded order on the naturals) or works with finite
sets and their cardinality, as the library's induction principles, which take
an operator as their parameter, cannot be instantiated.

Model-checked only: the two liveness properties `PreparedIsSettled` and
`ScopeTerminates`, as the prover has no rule for fairness or `ENABLED`. What
they rest on is proved: `DerivationEnds` and `CommandsEnd` say that nothing goes
on for ever, `SettledAtRest` what is so when it has stopped. That a step is
possible until then is left to TLC.

## 6. Not modelled

- Field-by-field validation of profiles, declarations, envelopes, policies,
  enrollments, trusted tables and texts: single pass, no state, well within
  reach of unit tests. In the models it appears as a set of accepted values.
- Syntax-tree analyses inside one file (`standards_control/engine.py`): they
  appear as the traits and edges of `ScopeDerivation` and the statements of
  `KernelEvaluation`. The other analyses of that file, the taint of imported
  names among them, read one text and keep nothing.
- The Foundation bootstrap (`standards_control/foundation_bootstrap.py`). It reads
  bytes into memory once and compares them with pinned constants; the order of
  its coordinates is established by a person (comment at lines 556-568), and the
  code adds one inequality. A model has no more to say than these comparisons.
- The connector baselines and the conservation ledger of
  `standards_control/engine.py`, which compare two revisions of a product.
- The provenance mode in which the product is Governance itself, and the v1
  comparison of catalogue bytes, in `KernelRun`.
- Several commands at once on one endpoint or one output directory. The code
  takes no lock and the repository promises nothing of it; `EndpointStaging`
  has the parameter (`Job`) and proves what survives any number of them.
- A base that is not the tip, in the ledger, and no base at all.
- Records, authority, tracks and dossier claims of a programme.
- The record checks of `tools/` other than the receipts, and the command lines,
  which report.

`PROJECT.json` gives the reason for each component.

## 7. What could be added

By weight: the baselines and the conservation ledger across two revisions, on
top of `ScopeDerivation`, with the taint of imported names as a third fixed
point; the ledger with a stale base, as `ReceiptRegistry` has it; two
activations or stagings at once, with a statement of what they may do to each
other; and the composition of `TeardownEvidence` with `RetirementLedger`, whose
closure is its verdict.
