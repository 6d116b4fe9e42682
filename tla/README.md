# claude-gatekeeper in TLA+

This directory specifies, model-checks and proves properties of
claude-gatekeeper, a hook that a coding agent's harness (Claude Code, Codex,
grok) runs before every tool call and that answers *allow*, *deny* or
*abstain*.  The specifications are translated from the Go and shell sources;
`PROJECT.json` maps every definition to the lines it stands for, lists the
hazards the properties are aimed at, the runs, and the theorems.

    tlc -workers 2 -config hook_races.cfg MCGatekeeperHook
    tlapm GatekeeperHook_proofs.tla

## The system

| Part | State it keeps | Operations | What is hard |
|---|---|---|---|
| Hook pipeline (`cmd/claude-gatekeeper/main.go` `run`, `runHook`, `emit`, `on_error_readable.go`) | the posture in force, the loaded policy, the verdict; nothing across calls | one process per tool call: flags, first-run install, posture, stdin, global layer, project layer, engine, verdict, exit code | every step can fail or panic and each error path applies the posture by hand; policy files are read several times and can change in between; several hooks run at once |
| Posture (`internal/posture`) | environment override | `Resolve`, `ConfigWarnings` | a typo must not widen authority |
| Adapters (`internal/adapter/*`, `internal/protocol`) | none | `ParseInput`, `Encode` | three wires for one verdict; on grok a clean exit may be an allow |
| Policy files (gatekeeper-core, external) | `gatekeeper.toml` in two global places and in the project | load, layer, evaluate | layering: rules add up, knobs override |
| `migrate` (`internal/migrate`) | the live policy and a backup | translate permission globs, back up, overwrite | writes in place while hooks read |
| `setup` / `uninstall` (`internal/setup`) | `settings.json`, `hooks.json` of three harnesses, backups | read, edit the hook list, back up, write a temporary file, rename | crashes between steps, two writers, foreign hooks in the same list |
| Codex trust (`internal/codextrust`) | trust keys in Codex's configuration, by position in the hook list | `Inspect`, `hashPreToolUse` | keys name positions, and edits move positions |
| Bootstrap (`bin/run.sh`, `bin/install.sh`, `bin/run.ps1`) | the installed binary | find, download, extract, build, exec | must fail closed; several hooks bootstrap at once and the harness kills slow ones |
| Authority domains (`internal/authdomains`) | none; three input files | `Compile`, `validateCoverage`, `evaluate`, `Shadow` | the decision is taken on policies that do not compile; leases and generations go stale |
| Inventory and doctor (`internal/inventory`) | a report | discover hook files, recognise gatekeeper commands, compare harness, binary and trust, probe versions, check the latest release | files, binaries and releases change while it reads them one by one; children hang or leave a pipe open; one bad surface among many decides the exit code |
| Release verification (`internal/releaseverify`) | a list of eleven checks | find the release, compare checksums, unpack, ask three binaries for their version, run the doctor, deny a canary on three harnesses | some checks end the run and some do not; one deadline over all; the downloaded binary is executed |
| Policy tests (`internal/policytest`) | a result per case | `LoadFile`, `Run`, `Passed` | a failing, invalid or broken case must not hide another; a suite must predict what hooks of three harnesses decide |
| Merge-domain check (`scripts/merge-domain-check.sh`) | none; it reads the lead marker, the domain file and the origin remote | print one token that a deny rule matches | a failed precondition skips the deny rule; fleet tooling rewrites the files while it reads |
| systemd units (`deploy/`), release configuration, examples | none | | |

The parts meet in files: hooks read the policy that `migrate`, the first-run
install and users write; harnesses read the hook lists that `setup` writes;
Codex trusts entries of those lists by position; the bootstrap script executes
the binary the installer writes; `verify-release` runs the installed `doctor`,
which reads all of those files; and a policy test predicts what hooks decide on
the same policy.  There are no threads to speak of inside the
program: its concurrency is that of processes over shared files.

## Modules

| Module | Models | Proofs | Instances |
|---|---|---|---|
| `PolicyFiles` | policy files as a hook sees them for one call | | |
| `HookContract` | abstract: what one call is promised | | |
| `GatekeeperHook` (EXTENDS `PolicyFiles`, implements `HookContract`) | the pipeline, the first-run install, `migrate` as a writer, a user's editor | `GatekeeperHook_proofs` | `MCGatekeeperHook` |
| `HookList` | the PreToolUse list and setup's edits of it | `Setup_proofs` | |
| `AtomicFile` | abstract: what writing a temporary file and renaming it is for | | |
| `SettingsFile` (EXTENDS `HookList`, implements `AtomicFile`) | how setup commands read, back up and rewrite a hook file | `Setup_proofs` | `MCSettingsFile` |
| `CodexTrust` (EXTENDS `HookList`) | trust by position, setup, doctor and the user's approvals | `Setup_proofs` | `MCCodexTrust` |
| `Bootstrap` | the wrappers that find, install and execute the binary | `Bootstrap_proofs` | `MCBootstrap` |
| `AuthDomains` | `auth-domains shadow` | `AuthDomains_proofs` | `MCAuthDomains` |
| `MergeDomain` | the merge-domain check as the precondition of a deny rule | `MergeDomain_proofs` | `MCMergeDomain` |
| `CheckGate` | abstract: what a gate made of checks promises | | |
| `Doctor` | `doctor`, its probes, and the world it looks at | `DoctorPass_proofs` | |
| `ReleaseVerify` (EXTENDS `Doctor`, implements `CheckGate`) | `verify-release`, with the doctor as its child process | `ReleaseVerify_proofs` | `MCReleaseVerify` |
| `HookInput` | how three adapters name tools and pick the input to match | | |
| `PolicyTest` (EXTENDS `PolicyFiles` and `HookInput`, implements `CheckGate`) | `test`, and the hook calls it predicts | `PolicyTest_proofs` | `MCPolicyTest` |

Definitions marked *Variant* in a module are not part of its specification.
They are plausible bugs; for each property of each run, `PROJECT.json` names
one that breaks it.

### PolicyFiles and GatekeeperHook

A policy file is absent, unreadable, junk, or a policy: its `on_error` knob and
the classes of rules it holds for the call at hand (`allow`, `deny`, `invalid`
for a rule whose pattern does not compile, `other` for one that does not
match).  Four classes are all that evaluation tells apart for one call.

A hook process is a program counter `pc[h]` with its locals: `onError` (the
variable of that name in `runHook`), `cfg` (what `config.Load` has read so
far), `knobPath` (the file `firstPresentGlobalConfig` chose), `verdict` (the
argument of `emit`) and `wire` (stdout and exit code).  There is one action
per step of the code, and every read of a policy file is a step of its own, so
another process may write between two reads.  `env[h]` fixes how the process
was invoked: harness, whether its flags parse, the value of
`GATEKEEPER_ON_ERROR`, its stdin and whether its stdout can be written.
`Panic` may replace any step that `runHook`'s deferred `recover` covers, the
encoding of the verdict included (the recovery then encodes one of its own), and
`Killed` may replace any step.

`os.WriteFile` is a truncation followed by a write; `migrate`'s write passes
through any prefix of its output (`Torn`), deny rules before allow rules as
`generateTOML` orders them, and may stop there for good (`MigrateCrash`).  The
first-run install writes in the same way: `InstallWrite` puts any prefix of
`TemplateRules` in place (`TornTemplate`), in the template's own order, as often
as it takes, and a hook goes on after a write that was cut short.  Several hooks
may have found no policy and copy over each other: they write one text, so what
there is to read is a prefix of it, or a text with a hole that is no TOML.  Only
`migrate` and an install that have the file open together can leave a mixture
of two texts (`Blends`).

`hist` and `failed` are history variables; no action reads them.  `hist` is
what all *complete* versions of the policy files had in common, so that a
property can speak about "the policy throughout" while a hook looks at a torn
one.

`HookContract` says what a call is promised whatever the pipeline looks like:
it is answered at most once, a call with a fault is never answered with an
allow, and a strict call with a fault is answered with a deny.

### HookList, SettingsFile and AtomicFile

A hook list is a sequence of matcher groups of handlers.  What matters of a
command is how `isGatekeeperCommand` and a shell judge it, which is not the
same: `own` and `old` are recognised, `exe` (the binary's name on Windows) and
`prefixed` (behind an environment assignment, as the README recommends) run
the gatekeeper unrecognised, `other` does not run it, and a `blank` command
makes the scan panic.

A command (`op[p]` is `install`, `uninstall`, `grok` or `codex`) reads the
file, backs it up (`BackupName` takes the second the backup is named after,
`BackupRead` and `BackupWrite` copy the file), edits the list in memory, opens
(truncates) `path.tmp`, writes it, and renames it.  `fd[p]` follows the file a
command has open: a rename by another command moves the file under it, so that
its write goes to the live file, or to one that is gone.  Every step may fail,
and the process may stop at any point (`Stop`), leaving its `.tmp` behind.

`AtomicFile` has no temporary file and no steps in between: a command looks at
the file and plans its edit, and later puts it there in one step or gives up.
`SettingsFile` implements it (`ReplacedAtOnce`) until two commands overlap.  A
save that falls between a command's read and its rename is overwritten by the
edit of the older content, in `AtomicFile` as in the code.

### CodexTrust

`groups` is the list, `trust` the hashes at those positions that have one, as
`hooks.state` in Codex's configuration holds them; a hash stands for what is hashed, after `hashPreToolUse`'s own normalisation of the timeout,
which is compared with Codex's.  A handler has a `type`, and only one of type
`command` is ours.  Inspection is two reads, and the user edits and approves at
any time; `EditConfig` makes `config.toml` unreadable or mends it, and while it
is unreadable the inspection ends in an error and Codex trusts nothing.  `Positions` bounds what an edit plus a rerun of
setup can make of the list.

### Bootstrap

`binary` is absent, partial or complete, `writer` the wrapper that is writing
it.  A wrapper checks for an executable, executes it, or downloads, extracts
in place, builds, and checks again; `Failure` reads the policy files the way
`apply_posture_file` does, with double quotes only.  The outcome of executing
a partial file is any exit code such an attempt can have; but after its download
`run.ps1` executes inside its `try` (`TryExec`), where one that fails to start
leads on to the build.

### AuthDomains

The three input files are read one after the other while somebody replaces
them and the clock advances; the report is computed from what was read.
Identities that are only ever compared together are one value, and several
"is complete" checks are one flag of the record they are about.

### MergeDomain

One action per look of the script at its seat (`CheckLead`, `FindDomain`,
`OpenDomain`, `ReadLine`, `ReadPiece`, `EndOfFile`, `ReadRemote`, `Judge`), and the engine's
`Decide`, which applies the deny rule if the precondition succeeded and its
output matches.  `GiveUp` is the precondition's timeout, or a tool that cannot
be run.  The seat changes in between: a rewrite of the domain file truncates it
(`ChangeDomain`) and writes any part of the new list at a time (`WriteDomain`),
which need not end with a line: while it is under way the script, which takes a
last line without a newline, may read a line cut short (`ReadPiece`).  When the
file is rewritten under the loop (`astray`), the loop goes on at its old offset:
it may start inside a line, and miss others.  `Pieces` are the repositories that
a cut line can read as, among them one that nobody ever named.
A command is reduced to what the patterns extract from it: a flag, a path,
whether it is a mutation.  `hist` keeps what the seat was at some time.

### CheckGate, Doctor and ReleaseVerify

`CheckGate` promises that each check passes or fails once, that the gate opens
only if there are checks and all of them passed, that it says *fail* only if
one failed, and that anything else is an error.

`Doctor` is sequential: `ListCandidates` (globs and the plugin registry),
`ReadFile`, then for each recognised command `Inspect` (harness, binary, Codex
trust), `Stat` and a version probe, and finally `CountSurfaces`, `CheckLatest`
and `Write`.  A probe is a child with a state, what it printed, whether a
descendant holds its pipe (`held`) and whether its five seconds are over
(`late`); `ProbeDrained` is a return on a closed pipe, `ProbeCutOff` the one that
`WaitDelay` forces.  Command strings are reduced to what the parsers make of
them (`direct`, `wrapper`, `namedWrapper`, `mangled`, `foreign`); a `namedWrapper` is a
`run.sh` whose path speaks of the gatekeeper, which is a hook in a plugin and a
suspect (`Suspect`) anywhere else.  `Changes` edits a file,
upgrades, replaces or removes a binary (by something that prints no version,
perhaps), changes Codex's trust or publishes a release
between any two steps; `touched` remembers which parts changed, so that a
property can speak of the others.

`ReleaseVerify` adds `verify-release`: `EarlyCheck` for the steps that end the
verification when they fail (a transport that breaks is an error; a local file
that cannot be read while comparing or unpacking is a failed check), then seven commands (`StartCommand`,
`CommandExits`, `CommandEnds`), each recorded whatever it does, and `Report`.
The `doctor` command is module `Doctor` itself, run in the same world (its
steps interleave with the deadline, which kills it), unless the plugin's
binary is not a gatekeeper at all; then it may answer anything.  `vstep = "off"`
is a doctor that a user runs alone, so both programs share one specification.

### HookInput and PolicyTest

`HookInput` holds the adapters' tables (tool aliases, main input field) and
their fallbacks; `NativeForms` are the calls the harnesses really send, from the
captures the adapters quote.

`PolicyTest` loads the suite (one invalid case spoils it), then either the one
file of `--config` or, for every case anew, the global and the project layer,
evaluates, and reports; an error of the engine ends the run.  Here a rule
carries the calls it matches, its decision and its reason; `View` turns a file
into the `File` of `PolicyFiles` for one call.  `HookCall` is a harness making
one of the suite's calls after the run.

## Runs

| Run | Question | Bounds |
|---|---|---|
| `hook_single` | do posture, encoding and layering hold for one hook under every invocation, and does the pipeline implement `HookContract`? | one hook, all invocations (`Env`), 72 arrangements of files, failures and panics everywhere, first-run install (242,000 states) |
| `hook_races` | what does a hook decide while policy files change under it? | two interchangeable hooks, two invocations, first-run installs over each other of a text with a deny rule before an allow rule, `migrate` with torn writes and crashes, one user save out of three contents (1.3 million states) |
| `settings_writers` | what do setup commands leave in the hook file, and can a user get back what was there? | two interchangeable commands of any harness, crashes and errors at every step, one save, two seconds, seven lists (667,000 states) |
| `codex_trust` | is the reported trust what Codex does, and does the documented way to a trusted install end? | five lists, two edits (of the list, or of the readability of `config.toml`), lists of two groups of two before setup adds its own (254,000 states) |
| `bootstrap_wrappers` | does a wrapper fail closed, and does a complete binary stay? | two wrappers of either kind, kills at every step, 38 arrangements of policy files (457,000 states) |
| `auth_shadow` | does a conformant report decide as the requirements say? | 66 policies, seven requests, two manifests, three instants, one replaced file |
| `merge_domain` | whom does the check let merge where, while the seat changes? | two repositories and one that only a cut line names, every command, every seat, two changes (1.35 million states) |
| `release_gate` | are exit codes 0 of `doctor` and `verify-release` earned, and do both end? | three hook files, two binaries, two versions, about forty worlds with one or two flaws, four sets of flags, nine releases, one change (683,000 states) |
| `policy_tests` | is a test run's exit code earned, and what does it say of hooks? | eight suites, 98 arrangements of policy files, one edit |
| `find_shifted_trust`, `find_partial_binary`, `find_domain_vanishes` | statements of the documentation the code does not meet | the smallest instance that shows it; for the last one, that of `merge_domain` |

Why the bounds are enough.  Hooks share nothing but files, and the only thing
one does to a file is the first-run install: two hooks show one that reads while
another copies, and two that copy over each other.  The install, `migrate` and
one save are changes before, between and after the reads that a property
relates.  The two hooks are alike but for their environment, and so are setup's
two commands (`SYMMETRY`; no liveness is checked there).  `hook_races` is cut
short by `StillPromised`: both of its invariants are conditional on what `hist`
remembers, no field of which ever becomes true again (`ReadableKnobProtects` and
`TornPolicyNeverAllows` are proved without the cut).
Setup commands interact through one file and one temporary name: two commands
exhibit every overlap of one pair of writes, and seven lists hold every way in
which the gatekeeper can share a list with others.  The wrappers of
`Bootstrap` meet only in the installation directory and each keeps its
download in a temporary file of its own, so every conflict there is of two.
The merge check reads each part of its seat once, so one change before and one
after a read show every mix of old and new.  A doctor inspects its surfaces one
by one and forgets each but for the report: three files, one of each kind that
is treated differently, each with at most two hooks, exercise every order of a
good and a bad one, and one change is before, between or after its reads; a
verification looks at the world through its commands only.  A suite of three
cases has a first, a middle and a last one.  Where a theorem is proved the
bound does not matter for the property it states.

`CHECK_DEADLOCK FALSE` is set everywhere because every system here stops when
its commands have ended.

## Fairness

Nothing is assumed of the hook pipeline.  It waits for its harness to finish
stdin (`main.go:344`) and for the preconditions of rules, without a timeout of
its own; that every hook answers would be an assumption, not a property.

`release_gate` assumes that the two programs take their steps and that their
timers fire: weak fairness of the doctor's steps, of a probe's deadline and
WaitDelay, of the verifier's steps and of its deadline.  Nothing is assumed of
children and their descendants, which may run, or hold a pipe, for ever.
`DoctorEnds` holds without further ado, thanks to the probe's `WaitDelay`
(`inventory.go:615`).  `VerifyEnds` is conditional: the verifier's commands have
no `WaitDelay` (`releaseverify.go:593`), so it ends if no pipe is held for ever.

`codex_trust` assumes that a command that was started gets to its end (weak
fairness of the two reads of an inspection, which nothing blocks), that
the user does what setup's message asks: approves the hook it installed (weak
fairness) and reruns setup until it verifies (strong fairness, since `doctor`
may occupy the terminal in between), and that `config.toml` ends up readable.
Edits are bounded by `MaxEdits`, that is,
the user stops editing.  The safety properties of that run do not need it.

## Findings

Each is a run `find_*` with a counterexample; `PROJECT.json` quotes the lines.

- **Setup silently disables the Codex hooks behind its old entry**
  (`find_shifted_trust`): they move up, and their trusted hashes do not.
- **An incomplete binary is executed** (`find_partial_binary`): a wrapper
  that starts while another extracts, or after one was killed extracting, ends
  with a code that does not block the call.
- **The merge-domain check may end without a token** (`find_domain_vanishes`):
  when the domain file cannot be opened, or is gone between the test and the
  read, `set -e` ends the script, the precondition has failed, and the deny rule
  is skipped.

Seen while modelling, and not given a run of their own:

- A bad flag or an unknown harness ends the hook with 0 and no body before the
  adapter or the posture is consulted, which on grok is an allow (`main.go:88`).
- `on_error = "deny"` does not cover unparseable input when a rule of the same
  file is invalid: only the load-failure path recovers the knob from such a file
  (`main.go:350`).
- A hook that reads the file `migrate` has just truncated (`migrate.go:87`) loads
  an empty policy: it may abstain, or follow a project's allow rule, on what both
  the old and the new global policy deny.
- The rules do not apply verbatim on every harness (`README.md:21`): on grok
  `Glob` is matched by its directory and `WebSearch` by its name alone.
- A case of a policy test for a tool without a main field has an input that no
  hook call has; it passes and predicts nothing (`policytest.go:97`).
- `verify-release` hangs past its deadline while a descendant of a command holds
  the command's output open (`releaseverify.go:593`).
- Under `GATEKEEPER_ON_ERROR=deny` a missing policy is not denied: the
  first-run install provides one first (`main.go:111`).
- A panic before `config.Load` returns is answered under the default posture
  although the file says `deny` (`main.go:326`).
- The shipped policy has an allow rule (`gatekeeper.toml:155`) before deny rules
  that also match some of its commands (168 to 226, `rm dist/x && sed ...`).  A
  hook that reads a first-run copy in between, or after a full disk cut it short,
  allows what the whole policy denies.  `TornPolicyNeverAllows` is about calls
  for which the template names a deny before any allow (`DenyLeads`).
- The first-run install looks for a policy and then truncates
  (`main.go:424`): a policy that the user saves in between is overwritten.
- A domain file rewritten in place while the merge check reads it may be read in
  the middle of a line, and the script takes a last line without a newline
  (`merge-domain-check.sh:71`): what the piece reads as, if it looks like
  owner/name (75), counts as a repository of the domain.  `MergesStayInDomain`
  allows this, and only where a rewrite in place met the reading.
- Two setup commands that overlap share `path.tmp`, and one may rename the file
  the other has just truncated (`setup.go:248`); `NeverTorn` and
  `ReplacedAtOnce` are therefore about commands that do not overlap.  What the
  user had can be recovered all the same (`UserDocsRecoverable`).
- A save that falls between a command's read and its rename is lost, and two
  backups in one second are one (`setup.go:25`, `setup.go:297`).
- An edit between the two reads of a Codex inspection makes its report stale
  (`trust.go:77`).
- `claude-gatekeeper.exe`, and a command behind an environment assignment, are
  not recognised as gatekeeper entries (`setup.go:391-398`): setup adds another
  one, uninstall leaves them.  `RenameDoesItsJob` is about recognised names.
- A group without handlers makes the first rerun of the Codex setup move its
  hook, and a second approval is due; `RerunMovesNothing` excludes it.
- `run.ps1` ends with 1 when it finds no binary, which does not block, and
  `run.sh` overlooks `on_error = 'deny'` in single quotes (`run.sh:20`); the
  properties of `bootstrap_wrappers` are about `run.sh` and double quotes.
- A required seam that calls itself not critical may go untraced in a
  conformant coverage report (`shadow.go:223`).

## Proofs

All are checked by TLAPS for every value of the constants that satisfies the
named assumptions of the modules (`HooksAssumption` and the like: the sets of
processes, files and contents are sets of the right kind; nothing about their
size).

- `GatekeeperHook_proofs`: `TypeCorrect`, `FailClosedHolds`,
  `AdvisoryStaysAdvisoryHolds`, `NoMatchAbstainsHolds`, `AllowNeedsRuleHolds`,
  `ReadableKnobProtectsHolds`, `TornPolicyNeverAllowsHolds`, `ContractHolds`, for
  any number of hooks.  The properties speak about answered calls; they are
  inductive only together with what is known of a hook at every program counter
  before the answer (`HookInv`): once the override is active and resolved,
  `onError` is the override's (`OverrideAt`, `StrictAt`); every verdict a fault
  leaves behind is `onError`'s (`FaultAt`); one without a fault is the evaluation
  of what was loaded (`JudgedAt`); and what is on the wire is the verdict in the
  harness's encoding (`WireAt`).  `ReadableKnobProtects` needs an invariant about
  files (`KnobInv`): while the history says that the selected file always
  promised a deny, it does so on disk, no first-run install is under way, and
  `migrate` writes at most a file that is not selected.  So does the torn-policy
  theorem (`TornInv`): as long as no complete version allows the call alone, no
  prefix on disk does either: deny rules come first in what `migrate` writes, and
  in a template that names a deny before any allow (`DenyLeads`, `CopyIsClosed`),
  of which any number of hooks may be writing copies; and so no layering a hook
  has loaded does.  `ContractHolds` is a step simulation: each action of the
  pipeline is a step of `HookContract` or stutters.
- `Setup_proofs`, in three parts.  *The edits of a hook list*: what `Without`,
  `RemoveGatekeeperHook` and `Registered` do to every list (they keep the foreign
  handlers in their order, and leave no recognised one, or one).  The lists are
  folded by `FlattenSeq`, so these lemmas need induction over sequences: `Least`
  (a nonempty set of numbers has a least one) gives `SeqInduct`, which
  speaks of sets, not of a predicate.  *The protocol that writes the file*:
  `TypeCorrect`, `NeverTornHolds`, `UserDocsRecoverableHolds`,
  `ForeignHooksKeptHolds` and `RenameDoesItsJobHolds`, from `Shape` and `Typed` (the
  values of the variables), `Solo` (without an overlap the one running command
  owns `path.tmp`, which is complete when it is renamed), `Backed` (as long as what
  a user had is in no backup it is in place, every command about to write its
  backup holds it, and none has got further; this needs no `Solo`, so it holds
  for commands that overlap), `Stamped` (backups are named after seconds of the
  clock) and `Carried` (the list in
  memory carries the other hooks of the file through the edit, and is what is
  renamed).  `ReplacedAtOnceHolds`, the refinement of `AtomicFile`, adds `Ready`
  (a user's saves do not touch what is about to be renamed); the rename is the one
  step seen as `Replace`, errors and crashes are `GiveUp`.  *Trust*:
  `TrustTypeCorrect`, `ReportIsTrueHolds` and `RerunMovesNothingHolds`, from
  `FoundIsFirst` (until somebody edits the list, the key about to be looked up and
  its hash are those of the first hook with our command) and `RegisteredTwice`
  (the list setup writes is a fixed point of setup).
- `Bootstrap_proofs`: `TypeCorrect`, `FailsClosedWhenAloneHolds`,
  `CompleteBinaryStaysHolds`, from `Alone` (the running wrapper owns the binary),
  `Intact` (a partial binary has a live writer) and `WellEnded`; and
  `AbstainNeedsAWordHolds`, which holds for wrappers that overlap too.
- `AuthDomains_proofs`: `TypeCorrect`, `ConformantReportsDecideRightHolds`,
  `WaitingGrantsNothingHolds`.  The first rests on `OneBlock` (in a policy that
  compiles at most one block protects an object) and `DecidesRight` (evaluator
  and reference definition agree on such policies); the second on
  `NothingRevives` (no exception comes back to life).
- `MergeDomain_proofs`: `TypeCorrect`, `StaysInDomain`, `SettledDecidesRight`.
  `Seen` ties what the script holds to what the seat was at some time (the list
  it has read comes from the domain file, or from the origin if there was a time
  without one, or from `Pieces` if a rewrite of the file met the reading, which a
  loop gone astray or an unfinished write implies), `Judged` the token to what it holds; `Untouched` is the exact
  version of both for a seat nobody changes.
- `ReleaseVerify_proofs`: `TypeCorrect`, `RunsOnlyVerifiedHolds`, and
  `VerifyGateHolds`, the refinement of `CheckGate`.  It needs `GateInv`: the
  checks in the report are exactly those before the current step (`Prior`), so
  a check is made once and the report is complete, or one has failed;
  `ChildAt`: the doctor runs only as the command of its step; and `ClearedInv`:
  a step is reached only past the checks before it.
- `DoctorPass_proofs`: `DoctorPassMeansSoundHolds`, for a doctor alone and for
  one that a verification starts and kills, with any number of changes to the
  world.  `Sight` says what a report that is still ok knows of the parts that
  have not changed: no file that is there was overlooked (`ListWell`); of every
  candidate already read the file is clean and each hook is pending or recorded
  (`ReadWell`), a recorded one with the right harness, binary and trust and with
  the text its binary prints (`Recorded`, carried through the probe by
  `ProbeWell`); after the comparison with the latest release every surface has
  passed it (`LatestWell`).  A change makes its part a changed one, of which
  nothing is claimed (`FreshSight`), so no fact rests on a mix of old and new.
  `DoctorVerdictExactHolds` is the converse for a doctor under which nothing
  changes: the report fails for a reason only.  `Account` says what the report
  holds of the files read so far: every hook is in hand or in it (`NoneLost`),
  what is in it is there (`NoneInvented`), and it has failed only if a hook is
  unsound or there are too few (`Blamed`, `Coded`).  Counting is by a bijection
  from surfaces to hooks that are there (`SurfacesCount`).
  `VerifyPassMeansSoundHolds` puts the verification on top of `Sight`: each check
  that passed has shown something of the release, a binary or the doctor's exit
  (`Evidence`), a command that runs is about to show it (`InCommand`), and an
  exit 0 has made them all (`AllMade`, from `VerifyGate`'s invariant).
- `PolicyTest_proofs`: `TypeCorrect`, `TestGateHolds`, from `RunInv`: a run past
  `LoadFile` has cases, the results are those of a prefix of them, and a report
  comes when that prefix is all.  `PassPredictsHookHolds`: the layers loaded for
  a case are those its hook would load, and a call in a harness's native form is
  parsed to the tool and the input of the case (`PredictInv`, with lemmas on
  the harnesses' tables of names).

Every invariant and every safety or action property that the passing runs check
is stated by a theorem.  Only model-checked are the three liveness properties,
`SetupConverges`, `DoctorEnds` and `VerifyEnds`: they rest on
fairness, hence on ENABLED, which the provers used here do not reason about.
The runs `find_*` are counterexamples and need no proof.

## Not modelled

- gatekeeper-core (TOML decoding, rule matching): a dependency, modelled by
  what the hook sees of it.
- `migrate`'s translation of permission globs to regular expressions: string
  processing, planned below.
- `DeriveIsolation` and `ArchiveComplete` of the authority domains, which no
  command calls, and the warnings that are only printed.
- Values in `settings.json` other than the hook list.
- The text of commands, versions, domain files and checksum lists: patterns and
  parsers are modelled by what they extract.  Downloads and archives are reduced
  to their outcome.
- Versions are compared as they are.  The code trims a leading `v` from the
  latest release (`inventory.go:257`) and from the tag and the reported version
  (`releaseverify.go:493`) but not from `--expected-version`
  (`inventory.go:506`); the *exactly* in `DoctorVerdictExact` is about stamps
  without one.
- `--plugin-binary` and the plugin binary of Claude Code's registry, which may
  differ (`releaseverify.go:169`), are one `PluginBinary`.
- A child doctor ends with 0, 1 or 2 (`CommandEnds`).  Any other code, which only
  a binary that is no gatekeeper has, fails the check like these, and a greater
  one becomes the verifier's own exit code, which then is neither 0 nor 1.
- A probe's text is the whole print or nothing: one cut short by the timeout is
  not a version of its own.
- A panic in `recover`'s own encoding ends the process like a kill.
- systemd units, release configuration, examples: no behaviour of their own.

## Plan

Done: the core (`PolicyFiles`, `HookContract`, `GatekeeperHook`), setup
(`HookList`, `SettingsFile`), trust (`CodexTrust`), bootstrap (`Bootstrap`),
authority domains (`AuthDomains`), the merge check (`MergeDomain`), the doctor
and the release verification (`Doctor`, `ReleaseVerify` over `CheckGate`), the
adapters' tables and policy tests (`HookInput`, `PolicyTest`), each with an MC
module, and proofs of all their safety properties; the replacement of a hook
file as a refinement of `AtomicFile`.  Left, in this order:

1. `CodexTrust` over `AtomicFile` instead of a rewrite in one step of its own.
2. A composition of `MergeDomain` with `GatekeeperHook`: preconditions of rules
   as steps of an evaluation.
3. `MigrateGlobs`: the glob translation against a reference matcher over short
   strings.
