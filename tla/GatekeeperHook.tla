--------------------------- MODULE GatekeeperHook ---------------------------
(***************************************************************************)
(* The hook pipeline of cmd/claude-gatekeeper: run, runHook and the        *)
(* harness adapters, executed by several hook processes at once (a harness *)
(* calls tools in parallel) over policy files that `migrate`, a first-run  *)
(* install and the user rewrite meanwhile.                                 *)
(*                                                                         *)
(* A process advances through pc; every read of a file is a step of its    *)
(* own.  A panic can strike any step runHook's recover guards, and the     *)
(* harness can kill the process at any step.                               *)
(***************************************************************************)
EXTENDS PolicyFiles, Naturals, Sequences

CONSTANTS
  Hooks,       \* hook processes
  Envs,        \* the ways a hook may be invoked, a subset of Env
  StartFiles,  \* the policy files the system may start with
  Edits,       \* the contents a user may save to a policy file
  MaxEdits,    \* bound on the number of such saves
  TemplateKnob,  \* the shipped gatekeeper.toml: its on_error ...
  TemplateRules, \* ... and its rules, in the order of the file
  MigDeny,     \* the rules `migrate` derives from the deny globs
  MigAllow     \* the rules `migrate` derives from the allow globs

Env == [harness  : {"claude", "codex", "grok"},
        flags    : {"ok", "bad"},
        override : {"absent", "deny", "abstain", "typo"},
        input    : {"call", "otherEvent", "malformed"},
        stdout   : {"ok", "broken"}]

ASSUME EnvAssumption == Envs \subseteq Env
ASSUME FileAssumption ==
  /\ StartFiles \subseteq Files
  /\ Edits \subseteq File
ASSUME BoundAssumption == MaxEdits \in Nat
ASSUME TemplateAssumption ==
  /\ TemplateKnob \in Knob
  /\ TemplateRules \in Seq(RuleClass)
ASSUME MigrateAssumption ==
  /\ MigDeny \subseteq {"deny", "other", "invalid"}
  /\ MigAllow \subseteq {"allow", "other", "invalid"}

VARIABLES
  files,     \* the policy files on disk
  migrate,   \* progress of one `migrate` command
  edits,     \* number of user saves so far
  env,       \* env[h]: how h was invoked (never changes)
  pc,        \* pc[h]: the next step of h
  onError,   \* onError[h]: the posture runHook would apply now
  cfg,       \* cfg[h]: what config.Load has read so far
  knobPath,  \* knobPath[h]: the file firstPresentGlobalConfig found
  verdict,   \* verdict[h]: the decision handed to emit
  wire,      \* wire[h]: what h left on stdout and its exit code
  failed,    \* history: the failure h met, or "none"
  hist       \* history: what every complete policy version so far promised

local == <<onError, cfg, knobPath, verdict, wire, failed>>
vars  == <<files, migrate, edits, env, pc, onError, cfg, knobPath, verdict,
           wire, failed, hist>>

PC == {"start", "install", "installTruncate", "installWrite", "resolve", "parse",
       "inputOnError", "loadGlobal", "loadProject", "loadOnError", "statKnob",
       "readKnob", "compile", "evaluate", "emit", "done", "killed"}

\* The steps runHook's deferred recover covers.
Guarded == {"parse", "inputOnError", "loadGlobal", "loadProject", "loadOnError",
            "statKnob", "readKnob", "compile", "evaluate", "emit"}

Wire == [body : {"none", "allow", "deny"}, exit : {0, 1, 2}]
Silent(code) == [body |-> "none", exit |-> code]

-----------------------------------------------------------------------------
(* posture.Resolve *)

Active(override) == override # "absent"

\* Variants with a plausible bug: a typo passed on, a typo read as abstain.
ResolveVerbatim(override) == IF override = "absent" THEN "abstain" ELSE override
ResolveLenient(override)  == IF override = "deny" THEN "deny" ELSE "abstain"

Resolve(override) ==
  IF override \in {"deny", "typo"} THEN "deny" ELSE "abstain"

(* Adapter.Encode, one disjunct of behaviour per harness *)

EncodeClaude(d) == IF d = "abstain" THEN Silent(0) ELSE [body |-> d, exit |-> 0]
EncodeCodex(d)  == IF d = "deny" THEN [body |-> d, exit |-> 0] ELSE Silent(0)

\* Variant: abstain as a clean exit.
EncodeGrokQuiet(d) == IF d = "abstain" THEN Silent(0) ELSE [body |-> d, exit |-> IF d = "deny" THEN 2 ELSE 0]
EncodeGrok(d) ==
  CASE d = "deny"  -> [body |-> d, exit |-> 2]
    [] d = "allow" -> [body |-> d, exit |-> 0]
    [] OTHER       -> Silent(1)

Encode(harness, d) ==
  CASE harness = "claude" -> EncodeClaude(d)
    [] harness = "codex"  -> EncodeCodex(d)
    [] OTHER              -> EncodeGrok(d)

\* A broken stdout loses the body and keeps the exit code.
Written(out, w) == IF out = "ok" THEN w ELSE Silent(w.exit)

\* How a harness reads the wire: Claude and Codex by the body, grok by the
\* exit code, where 0 counts as an allow.
Reads(harness, w) ==
  IF harness = "grok"
  THEN CASE w.exit = 2 -> "deny" [] w.exit = 0 -> "allow" [] OTHER -> "native"
  ELSE IF w.body = "none" THEN "native" ELSE w.body

-----------------------------------------------------------------------------
(* History variables.  A policy version is complete once its writer is     *)
(* done with it; what a hook sees between is torn.                         *)

\* A single file that would not, on its own, let the call through.
NeverAllows(f) == "allow" \in f.rules => "deny" \in f.rules

Promise(fs) ==
  [knob   |-> ReadableKnob(Selected(fs)) = "deny",   \* see Edit
   valid  |-> Loads(Selected(fs)),
   closed |-> \A n \in FileName : NeverAllows(fs[n])]

Both(p, q) ==
  [knob   |-> p.knob /\ q.knob,
   valid  |-> p.valid /\ q.valid,
   closed |-> p.closed /\ q.closed]

\* What `migrate` leaves behind: it writes rules only, never a knob.
Migrated == Policy("unset", MigDeny \cup MigAllow)

\* Variant of Torn: allow rules written first.
TornAllowFirst == {Policy("unset", S) : S \in SUBSET MigAllow}

\* What a reader, or a crash, can find while generateTOML's text is being
\* written: a prefix, deny rules first, possibly cut inside a rule.
Torn ==
  {Junk}
  \cup {Policy("unset", S) : S \in SUBSET MigDeny}
  \cup {Policy("unset", MigDeny \cup S) : S \in SUBSET MigAllow}

\* The first i rules of the template, and all of them.
TemplateUpTo(i) == Policy(TemplateKnob, {TemplateRules[j] : j \in 1..i})
Template        == TemplateUpTo(Len(TemplateRules))

\* What is found while the template is being copied, by any number of hooks
\* at once (they write the same text): nothing yet, on_error and some rules,
\* the last one perhaps cut into an invalid one, or a text cut or holed into
\* no TOML.
TornTemplate ==
  {EmptyPolicy, Junk}
  \cup {TemplateUpTo(i) : i \in 0..Len(TemplateRules)}
  \cup {Policy(TemplateKnob, TemplateUpTo(i).rules \cup {"invalid"}) : i \in 0..Len(TemplateRules)}

\* The template names a deny rule for the call before its first allow rule.
DenyLeads ==
  \A i \in DOMAIN TemplateRules :
    TemplateRules[i] = "allow" => \E j \in 1..(i - 1) : TemplateRules[j] = "deny"

\* `migrate` and an install over each other: their texts meet in any place,
\* in the middle of a rule too.
Blends == {Junk} \cup {Policy(k, S) : k \in {"unset", TemplateKnob}, S \in SUBSET RuleClass}

-----------------------------------------------------------------------------
Init ==
  /\ files \in StartFiles
  /\ migrate = "idle"
  /\ edits = 0
  /\ env \in [Hooks -> Envs]
  /\ pc = [h \in Hooks |-> "start"]
  /\ onError = [h \in Hooks |-> "abstain"]
  /\ cfg = [h \in Hooks |-> NoConfig]
  /\ knobPath = [h \in Hooks |-> "none"]
  /\ verdict = [h \in Hooks |-> "abstain"]
  /\ wire = [h \in Hooks |-> Silent(0)]
  /\ failed = [h \in Hooks |-> "none"]
  /\ hist = Promise(files)

Goto(h, from, to) ==
  /\ pc[h] = from
  /\ pc' = [pc EXCEPT ![h] = to]

\* The world outside the hooks, and the hooks' locals, left alone.
WorldUnchanged == UNCHANGED <<files, migrate, edits, hist>>

\* errVerdict and the jump to emit, after a failure of the given kind under
\* posture d.
FailWith(h, kind, d) ==
  /\ failed' = [failed EXCEPT ![h] = kind]
  /\ onError' = [onError EXCEPT ![h] = d]
  /\ verdict' = [verdict EXCEPT ![h] = d]

-----------------------------------------------------------------------------
(* run, up to runHook *)

\* Flags that do not parse and unknown harnesses end the process with exit 0
\* before any adapter or posture is consulted.
StartUp(h) ==
  /\ \/ env[h].flags = "ok" /\ Goto(h, "start", "install") /\ UNCHANGED wire
     \/ env[h].flags = "bad" /\ Goto(h, "start", "done")
        /\ wire' = [wire EXCEPT ![h] = Silent(0)]
  /\ UNCHANGED <<env, onError, cfg, knobPath, verdict, failed>> /\ WorldUnchanged

\* installDefaultConfig: copy the template if no global policy exists.  It is
\* best effort: any error (or a missing template) is ignored.
InstallCheck(h) ==
  /\ \/ Goto(h, "install", "resolve")
     \/ /\ FirstPresent(files) = "none"
        /\ Goto(h, "install", "installTruncate")
  /\ UNCHANGED <<env, local>> /\ WorldUnchanged

\* The copy is not atomic.  By now another hook, or the user, may have put a
\* policy there: it is truncated all the same.
InstallTruncate(h) ==
  /\ Goto(h, "installTruncate", "installWrite")
  /\ files' = [files EXCEPT !["legacy"] = EmptyPolicy]
  /\ migrate' = IF migrate = "writing" THEN "mixing" ELSE migrate
  /\ hist' = [Both(hist, Promise([files EXCEPT !["legacy"] = Template])) EXCEPT
                !.closed = @ /\ DenyLeads /\ migrate # "writing"]
  /\ UNCHANGED <<edits, env, local>>

\* What the next bytes of a copy make of the file: once the text is complete
\* there, they change nothing.
Copying ==
  IF migrate \in {"mixing", "mixed"} THEN Blends
  ELSE IF files["legacy"] = Template THEN {Template}
  ELSE TornTemplate

\* The text arrives piece by piece, and the hook goes on after a short write
\* (a full disk) as after a whole one: the error is only logged.
InstallWrite(h) ==
  /\ pc[h] = "installWrite"
  /\ \E next \in {"installWrite", "resolve"} : pc' = [pc EXCEPT ![h] = next]
  /\ \E f \in Copying : files' = [files EXCEPT !["legacy"] = f]
  /\ UNCHANGED <<migrate, edits, env, local, hist>>

-----------------------------------------------------------------------------
(* runHook *)

\* The posture override is settled before anything is read.
ResolvePosture(h) ==
  /\ Goto(h, "resolve", "parse")
  /\ onError' = [onError EXCEPT ![h] = Resolve(env[h].override)]
  /\ UNCHANGED <<env, cfg, knobPath, verdict, wire, failed>> /\ WorldUnchanged

\* ParseInput and the event filter.
ParseInput(h) ==
  /\ \/ /\ env[h].input = "call"
        /\ Goto(h, "parse", "loadGlobal")
        /\ UNCHANGED <<onError, verdict, failed>>
     \/ /\ env[h].input = "otherEvent"
        /\ Goto(h, "parse", "emit")
        /\ verdict' = [verdict EXCEPT ![h] = "abstain"]
        /\ UNCHANGED <<onError, failed>>
     \/ /\ env[h].input = "malformed"
        /\ Goto(h, "parse", IF Active(env[h].override) THEN "emit" ELSE "inputOnError")
        /\ FailWith(h, "input", onError[h])
  /\ UNCHANGED <<env, cfg, knobPath, wire>> /\ WorldUnchanged

\* Unparseable input has no cwd: only the global knob can speak.
InputOnError(h) ==
  /\ Goto(h, "inputOnError", "emit")
  /\ FailWith(h, "input", GlobalOnError(files))
  /\ UNCHANGED <<env, cfg, knobPath, wire>> /\ WorldUnchanged

\* Variant: the knob is consulted even under an override.
LoadFailedRereads(h, from) ==
  /\ Goto(h, from, "loadOnError")
  /\ FailWith(h, "load", onError[h])
  /\ UNCHANGED cfg

LoadFailed(h, from) ==
  /\ Goto(h, from, IF Active(env[h].override) THEN "emit" ELSE "loadOnError")
  /\ FailWith(h, "load", onError[h])
  /\ UNCHANGED cfg

\* config.Load reads the global layer, then the project layer.
LoadGlobal(h) ==
  /\ \/ /\ Loads(Selected(files))
        /\ Goto(h, "loadGlobal", "loadProject")
        /\ cfg' = [cfg EXCEPT ![h] = Overlay(NoConfig, Selected(files))]
        /\ UNCHANGED <<onError, verdict, failed>>
     \/ ~Loads(Selected(files)) /\ LoadFailed(h, "loadGlobal")
  /\ UNCHANGED <<env, knobPath, wire>> /\ WorldUnchanged

LoadProject(h) ==
  /\ \/ /\ Loads(files["project"])
        /\ Goto(h, "loadProject", "compile")
        /\ cfg' = [cfg EXCEPT ![h] = Overlay(@, files["project"])]
        /\ onError' = [onError EXCEPT ![h] =
             IF Active(env[h].override) THEN @ ELSE OnErrorDecision(cfg'[h])]
        /\ UNCHANGED <<verdict, failed>>
     \/ ~Loads(files["project"]) /\ LoadFailed(h, "loadProject")
  /\ UNCHANGED <<env, knobPath, wire>> /\ WorldUnchanged

\* Variant: only config.GlobalOnError is asked.
LoadOnErrorGlobalOnly(h) ==
  /\ Goto(h, "loadOnError", "emit")
  /\ FailWith(h, "load", GlobalOnError(files))
  /\ UNCHANGED <<env, cfg, knobPath, wire>> /\ WorldUnchanged

\* onErrorAfterLoadFailure: the files are read again, by now they may differ
\* from those that failed to load.
LoadOnError(h) ==
  /\ \/ /\ GlobalOnError(files) = "deny"
        /\ Goto(h, "loadOnError", "emit")
        /\ FailWith(h, "load", "deny")
     \/ /\ GlobalOnError(files) # "deny"
        /\ Goto(h, "loadOnError", "statKnob")
        /\ UNCHANGED <<onError, verdict, failed>>
  /\ UNCHANGED <<env, cfg, knobPath, wire>> /\ WorldUnchanged

StatKnob(h) ==
  /\ knobPath' = [knobPath EXCEPT ![h] = FirstPresent(files)]
  /\ \/ /\ FirstPresent(files) = "none"
        /\ Goto(h, "statKnob", "emit")
        /\ FailWith(h, "load", "abstain")
     \/ /\ FirstPresent(files) # "none"
        /\ Goto(h, "statKnob", "readKnob")
        /\ UNCHANGED <<onError, verdict, failed>>
  /\ UNCHANGED <<env, cfg, wire>> /\ WorldUnchanged

ReadKnob(h) ==
  /\ Goto(h, "readKnob", "emit")
  /\ FailWith(h, "load", ReadableKnob(files[knobPath[h]]))
  /\ UNCHANGED <<env, cfg, knobPath, wire>> /\ WorldUnchanged

\* The zero-rule check of the fail-closed override, then engine.New.
CompileEngine(h) ==
  /\ \/ /\ cfg[h].rules = {} /\ Resolve(env[h].override) = "deny"
        /\ Goto(h, "compile", "emit")
        /\ FailWith(h, "empty", onError[h])
     \/ /\ ~(cfg[h].rules = {} /\ Resolve(env[h].override) = "deny")
        /\ \/ Goto(h, "compile", "evaluate") /\ UNCHANGED <<onError, verdict, failed>>
           \/ Goto(h, "compile", "emit") /\ FailWith(h, "engine", onError[h])
  /\ UNCHANGED <<env, cfg, knobPath, wire>> /\ WorldUnchanged

Evaluate(h) ==
  /\ Goto(h, "evaluate", "emit")
  /\ \/ /\ verdict' = [verdict EXCEPT ![h] = Evaluation(cfg[h].rules)]
        /\ UNCHANGED <<onError, failed>>
     \/ FailWith(h, "engine", onError[h])
  /\ UNCHANGED <<env, cfg, knobPath, wire>> /\ WorldUnchanged

\* Variant: the recover forgets the posture.
PanicAbstains(h) ==
  /\ pc[h] \in Guarded /\ failed[h] # "panic"
  /\ pc' = [pc EXCEPT ![h] = "emit"]
  /\ FailWith(h, "panic", "abstain")
  /\ UNCHANGED <<env, cfg, knobPath, wire>> /\ WorldUnchanged

\* The deferred recover: the posture known at the point of failure.  It runs
\* once; a panic in the answer it gives itself kills the process.
Panic(h) ==
  /\ pc[h] \in Guarded /\ failed[h] # "panic"
  /\ pc' = [pc EXCEPT ![h] = "emit"]
  /\ FailWith(h, "panic", onError[h])
  /\ UNCHANGED <<env, cfg, knobPath, wire>> /\ WorldUnchanged

Emit(h) ==
  /\ Goto(h, "emit", "done")
  /\ wire' = [wire EXCEPT ![h] =
       Written(env[h].stdout, Encode(env[h].harness, verdict[h]))]
  /\ UNCHANGED <<env, onError, cfg, knobPath, verdict, failed>> /\ WorldUnchanged

\* The harness gives up on the hook (its timeout), or the machine does.
Killed(h) ==
  /\ pc[h] \notin {"done", "killed"}
  /\ pc' = [pc EXCEPT ![h] = "killed"]
  /\ UNCHANGED <<env, local>> /\ WorldUnchanged

-----------------------------------------------------------------------------
(* migrate.Run, writing its default target, and the user's editor *)

\* Settings are read and the old policy is backed up under a name no hook
\* reads; an unreadable policy, or no globs at all, ends the command here.
MigrateStart ==
  /\ migrate = "idle"
  /\ migrate' = IF files["legacy"].kind = "unreadable" \/ MigDeny \cup MigAllow = {}
                THEN "ended" ELSE "backedUp"
  /\ UNCHANGED <<files, edits, env, pc, local, hist>>

\* os.WriteFile truncates the live policy ...
MigrateTruncate ==
  /\ migrate = "backedUp"
  /\ migrate' = IF \E h \in Hooks : pc[h] = "installWrite" THEN "mixing" ELSE "writing"
  /\ files' = [files EXCEPT !["legacy"] = EmptyPolicy]
  /\ hist' = [Both(hist, Promise([files EXCEPT !["legacy"] = Migrated])) EXCEPT
                !.closed = @ /\ migrate' = "writing"]
  /\ UNCHANGED <<edits, env, pc, local>>

\* ... and fills it in place, with a hook's install in between perhaps.
MigrateWrite ==
  /\ \/ /\ migrate = "writing" /\ migrate' = "writing"
        /\ \E f \in Torn : files' = [files EXCEPT !["legacy"] = f]
     \/ /\ migrate = "writing" /\ migrate' = "ended"
        /\ files' = [files EXCEPT !["legacy"] = Migrated]
     \/ /\ migrate = "mixing" /\ migrate' \in {"mixing", "mixed"}
        /\ \E f \in Blends : files' = [files EXCEPT !["legacy"] = f]
  /\ UNCHANGED <<edits, env, pc, local, hist>>

\* Interrupted, or out of disk space: what was written stays.
MigrateCrash ==
  /\ migrate \in {"backedUp", "writing", "mixing"}
  /\ migrate' = IF migrate = "mixing" THEN "mixed" ELSE "ended"
  /\ UNCHANGED <<files, edits, env, pc, local, hist>>

\* A user saves one policy file; not the one `migrate` or a hook is writing.
Edit ==
  /\ edits < MaxEdits
  /\ edits' = edits + 1
  /\ \E n \in FileName, f \in Edits :
       /\ n = "legacy" => /\ migrate \notin {"backedUp", "writing", "mixing"}
                          /\ \A h \in Hooks : pc[h] # "installWrite"
       /\ files' = [files EXCEPT ![n] = f]
  /\ hist' = [Both(hist, Promise(files')) EXCEPT
                !.knob = @ /\ FirstPresent(files') = FirstPresent(files)]
  /\ UNCHANGED <<migrate, env, pc, local>>

-----------------------------------------------------------------------------
Progress(h) ==
  \/ StartUp(h) \/ InstallCheck(h) \/ InstallTruncate(h) \/ InstallWrite(h)
  \/ ResolvePosture(h) \/ ParseInput(h) \/ InputOnError(h)
  \/ LoadGlobal(h) \/ LoadProject(h) \/ LoadOnError(h)
  \/ StatKnob(h) \/ ReadKnob(h) \/ CompileEngine(h) \/ Evaluate(h)
  \/ Emit(h)

HookStep(h) == Progress(h) \/ Panic(h)

MigrateStep == MigrateStart \/ MigrateTruncate \/ MigrateWrite \/ MigrateCrash

Next ==
  \/ \E h \in Hooks : HookStep(h) \/ Killed(h)
  \/ MigrateStep
  \/ Edit

Spec == Init /\ [][Next]_vars

-----------------------------------------------------------------------------
(* Properties *)

\* The variables keep their shapes: files are files, postures and verdicts
\* are decisions of the canonical package, the wire is one an adapter has.
TypeOK ==
  /\ files \in Files
  /\ migrate \in {"idle", "backedUp", "writing", "mixing", "mixed", "ended"}
  /\ edits \in 0..MaxEdits
  /\ env \in [Hooks -> Env]
  /\ pc \in [Hooks -> PC]
  /\ onError \in [Hooks -> {"abstain", "deny"}]
  /\ cfg \in [Hooks -> Config]
  /\ knobPath \in [Hooks -> {"none", "xdg", "legacy"}]
  /\ verdict \in [Hooks -> Decision]
  /\ wire \in [Hooks -> Wire]
  /\ failed \in [Hooks -> {"none", "input", "load", "empty", "engine", "panic"}]
  /\ hist \in [knob : BOOLEAN, valid : BOOLEAN, closed : BOOLEAN]

\* What the harness of h has read, once h has answered.
Answered(h) == pc[h] = "done"
Heard(h)    == Reads(env[h].harness, wire[h])

\* Invoked so that the fail-closed posture was asked for (the word may be
\* misspelt) and a deny can reach the harness.
Strict(e) ==
  /\ e.flags = "ok"
  /\ e.override \in {"deny", "typo"}
  /\ e.stdout = "ok" \/ e.harness = "grok"

\* GATEKEEPER_ON_ERROR=deny, or a misspelt value: whatever fails (the input,
\* either policy layer, the engine, a panic) and whenever the policy turns
\* out to hold no rule at all, the harness reads a deny, in its own encoding
\* and whatever on_error the files set in the meantime.
FailClosed ==
  \A h \in Hooks :
    /\ Answered(h) /\ Strict(env[h]) /\ env[h].input # "otherEvent"
    /\ failed[h] # "none" \/ cfg[h].rules = {}
    => Heard(h) = "deny"

\* GATEKEEPER_ON_ERROR=abstain is honoured over any on_error knob: no failure
\* of the gatekeeper itself denies, or allows, a call.
AdvisoryStaysAdvisory ==
  \A h \in Hooks :
    Answered(h) /\ env[h].flags = "ok" /\ env[h].override = "abstain" /\ failed[h] # "none"
    => Heard(h) = "native"

\* A call no rule matches, under a policy that loaded, is left to the
\* harness's own permission system under every posture: it is not an error.
NoMatchAbstains ==
  \A h \in Hooks :
    /\ Answered(h) /\ env[h].flags = "ok" /\ failed[h] = "none"
    /\ cfg[h].rules \cap {"allow", "deny"} = {}
    => Heard(h) = "native"

\* A hook that got past its flags is read as an allow only if one load
\* without failure found an allow rule and no deny rule for the call.
AllowNeedsRule ==
  \A h \in Hooks :
    Answered(h) /\ env[h].flags = "ok" /\ Heard(h) = "allow"
    => failed[h] = "none" /\ "allow" \in cfg[h].rules /\ "deny" \notin cfg[h].rules

\* on_error = "deny" in the global file, which stayed the selected one and
\* decodable throughout, is applied to a load failure even when that very
\* file, or the project overlay, is what does not load; and to unparseable
\* input as long as the file's rules are valid.
ReadableKnobProtects ==
  \A h \in Hooks :
    /\ hist.knob /\ ~Active(env[h].override) /\ pc[h] \in {"emit", "done"}
    /\ failed[h] = "load" \/ (failed[h] = "input" /\ hist.valid)
    => verdict[h] = "deny"

\* If no complete version of any policy file would, alone, have allowed the
\* call, and the template (if one is installed) names a deny before an allow,
\* then no hook allows it: not one that reads `migrate`'s output or the copy
\* of the template half written, by one hook or by several, nor after a
\* writer died or ran out of disk on the way.  `migrate` and an install
\* writing at the same time end the promise: their texts can blend.
TornPolicyNeverAllows ==
  hist.closed =>
    \A h \in Hooks : Answered(h) /\ env[h].flags = "ok" => Heard(h) # "allow"

\* The pipeline implements HookContract.
Contract == INSTANCE HookContract WITH
  strict <- [h \in Hooks |-> Strict(env[h])],
  faulty <- [h \in Hooks |-> failed[h] # "none"],
  answer <- [h \in Hooks |-> IF Answered(h) THEN Heard(h) ELSE "none"]

\* One answer per call, no allow after a fault, a deny after a fault of a
\* strict call: the abstract specification, step by step.
ContractSpec == Contract!CSpec

=============================================================================
