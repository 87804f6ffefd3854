# Formbar: models and proofs of the form runtime

Formbar is a form engine: a store with transactions, synchronous and
asynchronous validation, a submit lifecycle, plugins and middleware, a
declarative layer with actions, an expression service and React bindings, and
the scripts that release it. Its core (`packages/core`) runs on one JavaScript
thread, and everything difficult in it comes from that thread being handed over
at awkward moments: a validator's promise settles after the data has changed, a
store subscriber calls the form in the middle of the handler that is notifying
it, a reset arrives while a handler holds the submit lock. The release scripts
meet the other kind of difficulty: processes that crash, writes that fail and
land all the same, and others who write to the same places. These modules model
those hand-overs and failures, check them with TLC and prove the most important
results with TLAPS.

Source paths below are relative to the repository; `core/` stands for
`packages/core/src/`, `decl/` for `packages/declarative/src/`, `demo/` for
`apps/demos/src/runtime/` and `release/` for `scripts/release/`.

## 1. Inventory

| Component | State it keeps | Operations | What makes it correct |
|---|---|---|---|
| **Asynchronous validation coordinator** `core/validation-coordinator*.ts` | run tokens, the automatic lane of each validator, the foreground slot, generations, revision, lifecycle | schedule on write or blur, `validateAsync`, `validateCandidate`, `validateSnapshot`, cancel, reset, dispose | no verdict on old data is shown; results are honest; flags match the work; everything ends |
| **Submit handler** `core/submit-handler.ts`, `submit.ts` | lock (`active`), generation, `meta.submission` | `submit`, `reset`, `dispose`, race with abort and timeout | one handler at a time, called only on validated data; an aborted run is silent; the lock is released by its owner |
| **Form lifecycle** `core/form-runtime.ts`, `form-disposer.ts`, `plugin-initializer.ts` | activation, disposal, handles of plugins and middlewares | `setValue`, `dispatch`, `markTouched`, `reset`, `activate`, `deactivate`, `dispose` | every handle is released once; writes are reported to the coordinator; an operation leaves store, coordinator and submit handler in agreement |
| **Store and transactions** `core/store.ts`, `transaction.ts` | state, open transaction, listeners, owned mode and its stamps | `transaction`, `commit`, `subscribe`, prepared commits, metadata and issue publications | atomic commits; every listener is told, in order; a stamp vouches for the content |
| **Action pipeline** `core/pipeline.ts`, `middleware-runner.ts` | none between calls | middleware, plugin hooks, validators, veto, rollback | a vetoed or failing action changes nothing |
| **Scoped async scheduler** `core/scoped-async-*.ts` | pending lanes per instance, emissions, foreground publication | schedule, observe, publish, revoke, reset, deactivate | what is shown is owned and describes the present row |
| **Bound and guarded submit** `core/bound-submit-*.ts`, `guarded-submit-*.ts`, `final-generation.ts`, `attempt-issues.ts` | attempt, final generation, receipts | prepare, validate, publish, retire | the handler gets what both validators judged; an attempt's issues never outlive it |
| **Field metadata and arrays** `core/field-api.ts`, `array-helpers.ts`, `field-meta-shift.ts` | `fieldMeta` | array edits, meta shift | metadata follows the item it describes |
| **Paths, policies, issues** `core/path-*.ts`, `field-policy.ts`, `validation.ts` | none | pure functions | normal forms, ownership |
| **Action executor** `decl/action-executor.ts` | a lane and a queue per action node, status shown to observers | execute, queue, replace, cancel, reset, dispose | one run per node; every intent is answered |
| **Declarative runtime** `decl/runtime*.ts` | snapshot, ownership of omitted values, repeaters | observe, expand, project | derived snapshot equals the state's |
| **Kalada V1 host** `decl/validators/kalada-*.ts` | snapshot revision, installed actions, operation fences, submission lock | install, dispatch, write, submit, dispose, revoke | what is sent was judged and is present; answers are true |
| **Demo data strategy** `demo/kalada-demo-*.ts` | draft, revision, issues, validation run, scoped run | set, reset, validate, omit, submit | the host's contract with the Kalada runtime |
| **Release tooling** `release/*.ts` | claim files, trace, tags and releases outside | publish a candidate, push tags, create releases | one PUT per package; every write accounted for; no release without its package |
| **Expression service**, **rule plugin**, **React bindings**, **schema renderer**, **compilers and authoring** | see PROJECT.json | | |

How they interact: the form runtime calls the store (commit, then synchronous
notification of subscribers), and only then tells the coordinator of the
mutation. The coordinator writes issues and the `validating` flags back to the
store, which notifies subscribers again, and subscribers may call the form at
each of these points. The submit handler runs the pipeline, commits, asks the
coordinator for a foreground run on the snapshot, and calls the host's
`onSubmit`. A definition-bound form submits through the guarded path instead: a
candidate is validated by both kinds of validators under generations that any
competing call advances. `reset`, `dispose` and `deactivate` abort all of them.
The declarative layer turns activations of action nodes into runs with a
concurrency policy. The Kalada host does the same on snapshots of a store that
is not the core's. The release scripts share nothing with the forms.

What is hard: (a) two interleavings at once, event-loop tasks and calls nested
in notifications; (b) staleness, since every continuation after an `await` must
ask again whether it still counts; (c) aborts that arrive before, during and
after a promise settles; (d) the atomicity of multi-step operations that notify
between their steps; (e) for the releases, crashes and lost answers.
PROJECT.json lists each place under `hazards`, with the properties that watch
it, or why none does.

## 2. Modules

```
AsyncVerdicts                  what users of a form are promised
      ^ implemented by
ValidationCoordinator          coordinator + its writes to the store + form calls
      ^          ^
      |          ValidationCoordinatorProofs   TypeCorrect, Freshness, OneRun, StatusShown,
      |                                        LanesRestarted, VerdictsImplemented
SubmitHandler                  submit lifecycle composed with the coordinator
      ^ SubmitHandlerProofs    OneHandlerAtWork, AbortedRunsStaySilent,
                               HandlersFollowValidation

FormStore <- FormRuntime       store; pipeline, reset and lifecycle on top of it
      ^ FormRuntimeProofs      FormInvariant, GuardsVouch, EverybodyIsTold,
                               MutationsAreReported, TransactionsAreIsolated,
                               DeliveriesOnlyAdvance, HandlesAreReleased
ScopedAsync                    scoped validators of field instances
      ^ ScopedAsyncProofs      ShownStaysOwned, FreshStaysFresh, NothingStaleIsPublished
BoundSubmit                    definition-bound submit and its guards
      ^ BoundSubmitProofs      HandlerIsJudged, AcceptedIsUnchanged,
                               AttemptsAreKeptApart, RevisionVouched
ActionExecutor                 concurrency of declarative actions
      ^ ActionExecutorProofs   ShownIsRunning
KaladaHost                     Kalada V1 runtime on the demo's data strategy
      ^ KaladaHostProofs       SubmissionsAreJudged, SubmissionsAreSentOnce,
                               ValidationsEndThemselves, AnswersStayTrue, QueueStaysServed

RcPublication <- ReleaseTags   packages to npm; tags and releases after them
      ^ ReleaseTagsProofs      OnePut, TraceComplete, ProvedInOrder, Backed, Together
```

`A <- B` reads "B extends A". Each component has an `MC` module with the
constants TLC needs.

### ValidationCoordinator

Models the class `ValidationRuntime` (`core/validation-coordinator.ts`), the
result logic of `settleForeground` (`validation-coordinator-support.ts`), and
the calls of `form-runtime.ts` that reach them.

| Variable | Code |
|---|---|
| `automatic`, `automaticPaths`, `active`, `generations`, `foreground`, `foregroundGeneration`, `currentRevision`, `lifecycle`, `disposed` | fields of `ValidationRuntime` of the same names |
| `tokens` | the live `RunToken` objects. JavaScript identity becomes the pair of lane and generation handed out |
| `data` | the data and UI state: a version counter. Properties only ask whether two snapshots are the same |
| `issues` | per validator, the version of the data its published issues judge |
| `validating`, `fieldValidating` | `meta.validation.validating` and the `isValidating` field flags |
| `storeDisposed` | the store has let its subscribers go |
| `stack` | handlers that are in the middle of their work because they are notifying |

*Interleaving.* A handler that does something after a notification is split
there: it leaves a frame on `stack`, and `Return...` finishes it. While the frame
is `open`, a subscriber may make any call (to the depth `MaxDepth`). Tasks and
microtasks run only when the stack is empty. Timers fire only when no microtask
is queued, and a delivered promise is continued by its awaiter before anything
settles (`TimerTurn`, `NothingDelivered`).

*Operations.* `SetValue`, `SetUiState` (commit, notify, then
`ReturnChanged` = `onMutation`), `Blur` (`onBlur`), `ValidateAsync`,
`ValidateCandidate`, `AbortSignal`, `Reset`, `Dispose`, `Deactivate`; the tasks
`FireTimer`, `Settle`, `TimeOut`; the continuations `ResumeAutomatic`,
`ResumeForeground`, `ResumeStale`, `ResumeCancelled`, `ResumeRejected`,
`ReturnAutomatic`, `ReturnPublished`, `ReturnSettled`, and `TakeResult`, by which
the caller reads the result.

*Abstractions.* Verdicts are named by the version they judge, not by their
text. The promises of a foreground run's validators are settled by one step,
the last of them. Several increments of `foregroundGeneration` within one step
are one increment. `blur` is the scheduling part of `markTouched`: the write of
`touched` commits first and changes nothing the coordinator compares.

### AsyncVerdicts

The abstract specification: data, the issues in state and the promises of
explicit runs, with no token, lane, timer or notification in it. Issues can only
become verdicts on the data of that moment; a promise settles once, and
`completed` requires that the verdicts it stands for are shown and on current
data. `ValidationCoordinator!Verdicts` is the refinement mapping: the foreground
tokens are the promises, and a candidate run shows no verdict.

### SubmitHandler

Models the class `SubmitRuntime` (`core/submit-handler.ts`), without a bound
submit, together with the coordinator it drives. A submission is named by its
generation. `runs` holds the pending ones, `activeSubmit` is the lock `active`.
The caller's turn is `Submit` (marks the run, notifies), `ReturnSubmitting` (the
submit transaction commits), `ReturnPipelined` (the coordinator hears of it, the
gates are called), `ReturnGating` (their issues are committed, validation of the
snapshot starts); then come `RefuseValidated`/`CallHandler`, `HandlerSettles`,
`FinishHandler` and `ReturnCompleting`. `ReturnRefused` stands for a veto, an
exception or a run aborted from the start. `ResetForm`, `DisposeForm` and
`DeactivateForm` are the form's operations, the coordinator's part included. What
the synchronous validators say of a version of the data is a nondeterministic
Boolean (`valid`), and the issues in the state are tracked as three kinds of
errors: synchronous, per async validator, and of gates and handlers.

### FormStore and FormRuntime

`FormStore` models `store.ts` and `transaction.ts` with the small writers built
on them. A published state is named by its publication; `data` and `value`
tell the identity of its data branch from the contents, because owned mode
compares the one and vouches for the other. `stamp` is the triple of counters
`_write`, `_epoch`, `_failure`; `activeTx` is the depth of the call that owns
the open transaction. Notification outside owned mode is the recursive walk over
the live set of listeners (`DeliverNext`, `EndNotify`), in owned mode the drain
with its rounds and its limit (`DrainNext`, `NextRound`, `EndDrain`,
`Overflow`). The writers are `CommitDraft`, `UpdateLegacy`, `UpdateOwned`,
`WriteMetadata`, `PublishIssueOnly`, `CommitPrepared`, `EnableOwnership`.
`owed`, `seen`, `receipt` are history: what each listener has yet to be given,
what it was given last, and a stamp somebody captured. An overflow leaves every
call on the stack up to the innermost frame that catches (`Catches`): a callback,
whose caller guards it, or the teardown of `dispose`, which `CallbackBoundary`
runs.

`FormRuntime` puts the calls of `form-runtime.ts` on top: `Dispatch` opens the
transaction of an action, `Evaluate`, `ReturnEvaluate`, `CommitAction`,
`AfterAction`, `Report` take it through the pipeline, and each hook in between is
a callback frame that may make any call and then lets the action go on or
throws (`Reject`). `Reset`, `Activate` with `InitNext`, `Deactivate` and
`Dispose` do the same for the lifecycle, one plugin or middleware at a time.
`held` counts acquisitions minus releases of each handle. An overflow that leaves
an action drops its report to the coordinator, and one that leaves a deactivation
or disposal the releases it had yet to make: `StoreStep` records the first by
clearing `unreported`, the second in `interrupted`, so `MutationsReported` and
`HandlesReleased` except these two (item 12 of section 6).

### ScopedAsync

`ScopedAsyncScheduler` and its execution, foreground runs and observation, in
an owned store. `pending`, `runs`, `emitted`, `publishing`, `life`, `gen` are its
fields; `value`, `array`, `write`, `failure`, `shown` are what it reads from the
store. `BeginEvent` is `onEvent` up to the revocation that notifies,
`Schedule` what follows. `FireTimer`, `Answer`, `EndAnswer` are an automatic run;
`StartForeground` to `FinishForeground` an explicit one, with the staging of
ownership before the publication and its rollback when the store refuses it.

### BoundSubmit

`submitBound` and the guards around it, run by run: `Preflight`, `Commit`,
`Gates`, `Candidate`, `BeginSync`, `SettleSync`, `BeginAttempt`, `StartAsync`,
`Answer`/`TimeOut`/`ResumeCancelled`, `SettleAsync`, `CompleteAttempt`, `Outcome`,
`Receipt`, `Handle`, `Called`, `Answered`, `Failing`, `Release`. A run whose `pc` is in
`Waiting` has awaited. What the guards compare is kept per run: revision, state
identity, content, the baseline of retained issues, and the four generations
(`beforeSync`, `beforeAsync`, `ownSync`, `ownAsync`). `SameState`, `Current`,
`SameBaseline`, `FinalCurrent`, `CanSubmit` are the guards.

### ActionExecutor

`DeclarativeActionExecutor`: `lanes`, `active`, `queue`, `status`,
`resetToken`, `disposed` are its fields, a lane being named by the intent that
made it. `Start`, `Pending`, `Drain`, `Finished` are the synchronous pieces of
`start`, `run`, `finish` and `drain` between which observers are told;
`Invoke`, `InvokeReset`, `TakeResult` are microtasks; `CancelNext` and
`CancelEnds` are `cancelAll`, lane by lane, each of which tells observers.

### KaladaHost

Two halves of one protocol: the Kalada runtime of `packages/declarative`
(snapshots, installed actions, operation fences, submission lock, policies,
dispose, revoke) and the data strategy of the demo host it runs on (revision,
validation run, scoped run, issues, omission, submit). An operation is a record
of `op`: the revision its action was installed with (`frame`), the revision its
fence accepts (`fence`), its phase and its answer. `Start`, `Perform`,
`PerformArray`, `PerformSubmit`, `Take`, `Run` are the synchronous turn;
`Publish`, `ResumeSubmit`, `ResumeOmission`, `SettleFinal`, `SubmitOmission`,
`Sent`, `Release`, `Finish` its continuations. Only the version of the draft is
kept (`edits`), with the version each verdict saw.

### RcPublication and ReleaseTags

`RcPublication` models `runProtectedRc` and `traceDisabledRc`, jobs of a workflow
run on some host: `Claim` (the exclusive claim file), `Prove`, `Look`,
`Exchange`, `Put`, `PutAcknowledged`/`PutFails`, `Check`, `Final`, and `StopJob`
at any point, a crash or an exit. `registry`, `shown` and `inflight` are npm: what
it holds, what reads show, and PUTs that may still land (`Land`) after they were
reported as failed. `ForeignPublish` and `MainMoves` are the environment.

`ReleaseTags` composes it with `applyPlan`: several appliers wait for npm
(`AwaitNpm`), read tags and releases one by one (`Read`), tag locally, push all
tags in one atomic push (`PushTags`), check again, create releases one by one
(`CreateRelease`) and wait for them to be listed. Every write may fail with or
without having landed (`StopApplier`), an applier is run again (`Rerun`), and
others write in between (`Meddle`).

## 3. Runs

| Run | Question | Instance |
|---|---|---|
| CoordinatorSafety | all safety properties of the coordinator and the refinement of AsyncVerdicts | a field validator on change, a form-level one on blur, two disjoint paths, every call but deactivate, subscribers nested once; 0.8M states |
| CoordinatorLiveness | do runs end and promises settle, with reset, deactivate and abort listeners that call the form? | one path, two validators |
| SubmitRuns | handler, silence and liveness of submissions, with calls also from subscribers, gates and handlers | one field validator, every call of the host, two submissions |
| FormSafety | notification, isolation, stamps, reports and handles, when every hook, observer and subscriber may make any call | a deferred form, one plugin, one middleware, two subscribers, five calls, six frames; 3.8M states |
| AsyncSafety | is what scoped validators show owned, fresh and complete? | one plain field and one row that comes and goes, three calls, two refused publications |
| BoundSafety | what the handler of a bound submit receives, what is accepted, and that every run ends | two contents, three calls of any kind |
| ActionSafety | status and answers of actions under every policy | a custom action and the reserved reset, three intents |
| KaladaSafety | what is sent, how often, and what the caller is told | four actions under two declarations, with and without omission, three calls, one waiting intent |
| ReleaseSafety | does a publication that crashes anywhere leave the registry, the trace, tags and releases in order, and do reruns finish? | two packages, a protected and a traced job of one run, one applier, one failure, one meddler |
| AsyncLostChange, ActionFifo, SubmitGap | disagreements between code and documents, section 6 | the smallest instance that shows each |

Every property of a passing run has a mutant in PROJECT.json: a plausible mistake
in one of the modelled definitions under which that run fails. The mutated forms
stand beside the definitions, marked `Mutated:`.

**Bounds.** `MaxGeneration` bounds the calls of the coordinator: a call starts
only below it, and every call that matters consumes a generation. Three suffice
for the shapes that go wrong, namely an old run, the call that supersedes it and
a call nested in that call's notification. `MaxDepth` bounds nesting: callbacks
inside callbacks in ActionExecutor and KaladaHost, frames elsewhere; a call
inside a notification is always reached. `MaxCalls` is the same idea for the
modules without generations: three calls are a run, what disturbs it, and what
disturbs that. `MaxSubmits` and `MaxIntents` bound submissions and intents; two
submissions are one that loses the lock and one that takes it, three intents one
that runs and two in the queue. In SubmitHandler the host asks for one foreground
run at a time, and for `validateAsync` and `validateCandidate` only from the event
loop (`Asked`, `Reentrant = {}`); the coordinator's own runs have no such limit.
`MAX_OWNED_NOTIFICATIONS` is 2: one delivery to each subscriber, so that the limit
of the drain is reached by the first publication made from within it. `MaxFailures` bounds applier failures (a dry run counts as one, since
it ends like a stop), `MaxMeddling` the writes of others; the crashes of
publication jobs need no bound. Two validators are needed for lanes that
interfere: one with a field and one at form level differ in every clause of
`Triggered` and `InScope`. The proofs of section 5 do not depend on any bound.

Deadlock is not checked: a form that is disposed, a release that is done, or an
instance whose bounds are used up, has nothing left to do.

## 4. Properties

Coordinator:

- `FreshPublication`: issues that appear in the state judge the data the state
  holds at that moment.
- `OneRunPerValidator`: no two live runs work for the same validator.
- `StatusMatchesWork`: the flags agree with the work in flight at every point
  where user code can look. (Under `deactivate` they do not; see section 6.)
- `WritesKeepLanes`: a write never loses another field's pending validation.
- `ImplementsVerdicts`: the refinement of AsyncVerdicts.
- `RunsEnd`, `PromisesSettle`: everything that starts validating stops, every
  promise handed to a caller settles.

Submit handler: `OneHandler` (one handler that has not been told to abort),
`HandlerAfterValidation` (called only after its own validation, on the snapshot
that was judged), `AbortedRunsAreSilent` (a run that lost the lock publishes
nothing), `SubmitsEnd`.

Store and lifecycle: `NobodyIsOwed` (every subscriber was given every state
published while it was subscribed, the last one in owned mode),
`DeliveriesAdvance` (never an older one), `Isolated` (nothing is published under
an open transaction), `ReceiptsVouch` (a stamp that still matches vouches for
the content), `MutationsReported` (the coordinator hears of every content before
control returns to the host), `HandlesReleased`.

Scoped validators: `ShownIsOwned` (every issue shown can still be revoked),
`FreshAtRest` and `NoStalePublication` (no issue about anything but the present
content), `ChangesJudged` (every change gets a verdict).

Bound submit: `HandlerJudged` (the content the handler gets is present and was
judged by both validations), `AcceptedUnchanged` (a success is reported only of
unchanged content), `AttemptsKeepApart`, `RevisionVouches` (a succeeded attempt
of the present revision is about the present content), `BoundSubmitsEnd`.

Actions: `StatusMatchesRun`, `IntentsSettle` (no promise waits for anything but
a handler of its node that is still at work).

Kalada host: `SendsWhatWasJudged`, `SendsOnce`, `AnswersAreTrue`,
`RunsEndThemselves`, `QueueServed`.

Release: `OnePutPerRun`, `ProvedBeforeNext` (no package is written while an
earlier one lacks its proof), `TraceAccounts` (the trace names every package
that may have been written), `TagsTogether`, `ReleasesAreBacked`,
`ReleaseConverges` (what a failed applier left behind never blocks the next).

**Fairness.** Everywhere, code on the stack runs to its end and queued microtasks
run. `FairSpec` assumes weak fairness of the returns, and of the timers,
settlements and continuations of each lane (the event loop reaches every queued
task). That a validator's promise settles is an assumption about the host: an
explicit run has no timer of its own in the code, so a validator that never
answers does keep it pending. `FairSubmitSpec` assumes in addition that
`onSubmit` settles or is timed out, which is what `timeouts.submit` does.
`FairAsyncSpec` and `BoundSpec` likewise let every validator and handler answer
or be timed out. `ActionSpec` assumes nothing of handlers: they may never end, and
`IntentsSettle` says exactly what may then wait. `FairTagsSpec` assumes that
reads and writes end, that npm and GitHub come to show what they hold, and that
somebody runs a stopped applier again; failures are bounded. No fairness is assumed of
calls of the host, of subscribers or of the publication jobs.

## 5. Proofs

All proofs hold for every value of the constants that the named assumptions
allow, and for every number of calls, runs, jobs and failures.

### The coordinator

From `ConfigAssumption` (fields are paths, triggers are the two events, `NONE` is
none of the values and begins no token identity); the refinement also needs
`StatusAssumption` (`NONE` is no status).

*Type correctness* (`TypeCorrect`). `TypeOK` is not inductive. Two facts are
missing, and `IInv` adds them. A lane that is taken remembers the path that
triggered it (`PathsKnown`), or a write could reschedule a lane with no path.
And an active token is always one of the live ones; to keep that when the caller
takes a settled result, `Identities` says that tokens and frames carry
generations already handed out, that active tokens are uncancelled and
undelivered, and that the token of a run in its last projection is active no
longer. A fresh token is then never one that a frame still refers to. The proof
has one lemma per kind of step (call, return, task), one step per action, and
lemmas for what actions share: `CancelType`, `ScheduleType`,
`StartForegroundType`, `FinishType` and their counterparts for `Identities`.

*Freshness* (`Freshness`). The revision does not identify the data: between the
commit of a write and `onMutation` the data is new and the revision old, and a
subscriber can start a run there. What is invariant (`Fresh`) is that as long as
no handler is at that point, every run of the current revision whose validators
have been called was given the current data. Handlers at that point are on the
stack, and publishing needs an empty one. Each step then either keeps tokens and
data, raises the revision above every token's, or enters such a handler
(`FreshKept`). The hypothesis `~AbortCallbacks` excludes abort listeners that call
the form during `reset`; without it the theorem is false, as item 4
of section 6 shows.

*One run per validator* (`OneRun`). `Lanes` says that an active run holds its
lane (`automatic` or `foreground` names its token) and that a foreground and an
automatic run share no validator. A lane holds one token, so two runs of a
validator could only be one of each kind. Every step either takes runs away
without taking lanes from those that stay (`LanesKept`), or starts runs after
it has cancelled what they supersede. No hypothesis is needed: it holds under
deactivation and abort listeners too.

*Flags* (`StatusShown`). Steps that change the work project it (`Projected`),
the others leave the tokens that the flags are computed from (`NothingToShow`).
The hypothesis `Projecting` is that nobody deactivates the form and abort
listeners do not call it: `deactivate` projects nothing, and a run started by an
abort listener inside `reset` is active under flags that were just cleared.

*Lanes* (`LanesRestarted`). `onMutation` schedules every lane that has work, and
what it schedules is a token, never `NONE`.

*Refinement* (`VerdictsImplemented`). Every step of the coordinator is one of
AsyncVerdicts or changes nothing it speaks of (`Implements`), under `Told`:
- a frame finds the run it waits for where it left it (`Attends`), and a frame of a
  run that has its answer is the first on the stack, since answers are taken
  with an empty one;
- a token has a status exactly when its promise is delivered (`Decided`), so that
  no promise is settled twice;
- what a foreground run has published stays in the state as long as the revision
  does not change and no write is about to change it (`Shown`).

The hard step is `ReturnSettled` with the result `completed`: its frame is alone on
the stack, so no write is half done; the last look (`isSettledCurrent`) finds the
revision of the run; so what it showed is still there and judges the data. The
publications are `Judge` because of `Fresh`, whose hypothesis the theorem keeps.

### Submissions

`OneHandler` is not inductive: a frame on the stack that is about to release the
lock would let a second submission start beside a handler, and two frames of one
run would advance it twice. `SubmitInv` of SubmitHandlerProofs adds what rules
that out:

- the frames of submissions fit (`StackFits`): each stands for a pending run that
  is at the frame's stage, and no run has two;
- a run whose `onSubmit` is at work holds the lock (`LockHeld`);
- while a frame is about to release the lock (`completing`), no handler is at
  work (`NoRelease`): handlers are called by tasks, and tasks wait for the stack.

The frames of the coordinator are of no submission, so its steps only have to be
shown to leave at most one handler and enter at most one (`Moves`); nothing
about tokens, lanes or the types of frames is needed. The constants are bound by
their assumptions only, among them `~AbortCallbacks`, which SubmitHandler declares.
`OneHandlerAtWork` follows because the lock is one value; `AbortedRunsStaySilent`
because the form's `reset` touches only the run that holds the lock, and every other
outcome is published by `Complete`, for its own run and only if that is current.

`HandlersFollowValidation` (`HandlerAfterValidation` for every configuration)
speaks of both halves of the module, so its invariant does too (`JointInv`):

- *Tokens* (`TokensFit`): their generations have been handed out, and no two tokens
  were given the same generation of a validator (`VersionsApart`).
- *Frames* (`Answers`): a foreground run between its publication and its result has
  the first frame on the stack. So no answer is read, and nothing else is
  published, before its result is known.
- *Issues* (`Shown`, `Standing`): a foreground run of this lifecycle that has
  published, or has completed and waits for its caller, finds its snapshot's issues
  in the state; and once it has completed, no answer that waits to be
  continued has the current generation of a validator it covered. No validator can
  settle in that time either: results are read before that (`NothingDelivered`).
- *Runs* (`RunsInv`): a validating submission awaits a token of its own, of its
  snapshot and of all validators, in the present lifecycle as long as it holds
  the lock; without a token its verdict is not `completed` unless there are no
  validators; and gates that failed left an issue in the state.

`Standing` is what carries a verdict across the microtask between the settled
promise and `validateRun`. Writes in that time do not hurt: they replace data and
schedule runs, but issues change only by publication or with the lifecycle, and
then the lock is gone too. Each step is shown to go on with every old token
(`Goes`, `Remains`) or to begin new ones (`Begins`), and likewise with runs
(`RunGoes`); `CoordGrows` covers all steps that cancel or register runs.
The property says nothing of data written after the snapshot was taken:
finding 1 of section 6 is about those.

### The definition-bound submit

`BoundSubmitProofs`, from `BoundAssumption` and `AttemptAssumption` (an attempt is
not `NONE`). `BoundInv` says, besides types, what the guards rely on without
looking:

- a run's claim, and the certificate it may become, is about an error that was
  found on the write the run started from and may be omitted (`ClaimHolds`);
- an attempt that succeeded is of a run past the completion of its attempt, and
  that run found nothing bad in either validation (`AttemptJudged`);
- an attempt of the present revision is about the present content, unless a write
  is still on its way to the coordinator, in a `clear` or `report` frame of the
  stack (`AttemptDated`, `Due`).

`LegitKeeps` is the one lemma every step that only takes runs along goes through;
`Goes` is a run going on, `Told` one that learns of a cancellation. The steps
that change the attempt are proved one by one. `RevisionVouched` follows since
nothing is due when the stack is empty. For `HandlerIsJudged` and
`AttemptsAreKeptApart`, `OwnSteps` shows that a run changes its stage by its own
steps only; the guard of `Handle` with the invariant gives the first, and the
second looks at each write of the attempt. `AcceptedIsUnchanged` needs no invariant:
only `Answered` reports a success, and it looks again before it does.

### The actions

`ActionExecutorProofs`, from `ActionAssumption` and, in the theorem itself,
`~AbortListeners` (disagreement 15 shows what happens without). Who runs, who owns
a key and what a key shows are three variables, and between the steps of a
cancellation no two of them agree: `cancelAll` first takes the lanes from all keys,
then cancels them one by one, and observers told of each may execute, reset or
dispose. `ActionInv` says who still has to put it right:

- a lane that runs without being its key's is one a cancellation on the stack
  has yet to reach (`Held`);
- a key that shows a run it does not have waits for such a cancellation, or for the
  frame that shows it idle (`Owed`);
- until then nobody else takes the key (`Freed`), since `execute` is refused while
  a cancellation is under way;
- the stack is nested that way (`Under`): a cancellation waits for observers and
  for cancellations they start, which know that they are inside one, so that
  `cancelling` stays set until the outermost ends.

Steps that cancel nothing go through `FitKeeps` or `ClearKeeps`; when no
cancellation is on the stack the invariant says that keys, lanes and statuses agree
(`Clear`), which is the theorem `ShownIsRunning`.

### The form

`FormRuntimeProofs`, from `StoreAssumption` and `RuntimeAssumption`. Calls nest here
without any discipline but the one the code imposes: every observer, hook, plugin
and subscriber may call the form, which may publish, which calls subscribers. The
invariant `FormInv` therefore speaks of the call stack:

- which frame may lie on which (`Rides`, `Fits`): only a callback lies on a frame
  that waits for one, and what it calls lies on it;
- whoever is owed a state has been published to by a notification that is still in
  progress and has yet to visit it, or by the drain, which will look at it once more
  (`Told`). Two notifications of one listener may be in progress, an inner and an
  outer one, and owe it different states;
- at most one draft is open, it belongs to the innermost action on the stack, and
  `activeTx` is that frame (`Exclusive`), unless a malformed update has left a draft
  open for ever: this is why a rollback never takes somebody else's draft;
- a content that is committed and not yet reported has an action on the stack that
  is past its commit and will report it (`Announced`);
- the last steps of a disposal find the form disposed, and a disposed store has let
  its subscribers go (`Disposal`);
- a stamp that still matches was taken when the content was the present one
  (`Vouched`), and nobody has been given a state from the future (`Given`).

Only the exceptions make this hard. A veto, a throwing hook and an overflow drop
frames from the middle of the work, so `Rejecting` and `Unwinding` show what
survives: the remaining stack is a prefix, its top catches, and nothing that was
dropped was the only one to owe a listener something (the drain that overflowed
excepted) or to report a content. `EverybodyIsTold`, `MutationsAreReported` and
`GuardsVouch` read the invariant off at rest. `MutationsAreReported` supposes that
no write carries malformed issues, as the run does. `TransactionsAreIsolated` needs no
invariant, only that each way of publishing refuses an open transaction or is its
commit; `DeliveriesOnlyAdvance` needs `Given`.

`HandlesAreReleased` rests on a second invariant, `ResourceInv`, and on `FormInv`. It
balances what was handed over against what will be called: `held` of a disposer or
of a middleware is the number of times it is attached to the form (`Attached`) plus
the number of times it occurs in what the deactivations and disposals on the stack
have left to call (`Load`, over `Carriers`, the frames that initialise or release,
with their depths). An interruption may drop such a frame, and then `held` is only
bounded from below: that is enough for "never released twice". A subscription is held
while it is attached or a deactivation is to call it (`Unsubscribing`); releasing it
twice is harmless, so it is not counted. The rest says which handles can still be
attached: what an inactive deferred form has left, a deactivation on the stack is
about to detach (`Detaching`), nothing is disposed of while active (`Stopped`), and an
eager form is never deactivated and keeps its middlewares until the disposal
(`Permanent`). It is an invariant because `initializeFormResources` asks `isActive`
before each part and after each `onInit`, and because `deactivate` and `dispose` detach
a list before they call its first entry. Without `Detaching` a plugin whose `onInit`
deactivates the form could leave a disposer behind; without the count a second
disposal could call one again. Most steps only move frames that hold nothing
(`Steady`); those that move a handle show that both sides of the balance change by
the same amount (`Balanced`), from lemmas on how often something occurs in a sequence
that is appended to, joined, reversed or consumed (`TimesJoined`, `TimesReversed`,
`TimesTaken`).

### The scoped validators

`ScopedAsyncProofs`, from `AsyncAssumption` and `NoneIsNoEmission` (an emission is
not `NONE`), for `AsyncSpec`: notifications may be refused, but do not overflow
(disagreement 12). All three properties follow from `AsyncInv`:

- what was stamped with a write vouches for the content at that write, and no stamp
  is ahead of the store (`Vouched`, `ForegroundOf`): this is what the comparisons in
  `current`, `ForegroundSemantic` and `NewToken` rely on;
- a frame that is about to schedule what it observed in `BeginEvent` is either
  outdated (its generation is not the scheduler's) or still true, and then
  everything stale has been revoked (`Stands`). A subscriber's write breaks this for
  a moment: until its own event begins, which the stack knows (`Heading`). A reset
  under way has outdated all of them, so it may replace the state;
- a reset on the stack means that nothing is known any more, although the state is
  still the old one; otherwise state and emissions agree (`Ownership`);
- one notification delivers everything, so that at most one callback is on the
  stack, and what is entered above it is a call it made (`Fits`, `Open`).

Steps that leave data and issues alone go through `QuietKeeps`, those that emit
through `EmitsKeeps`, those that forget through `ClearKeeps`.

### The Kalada host

`KaladaHostProofs`, from `KaladaAssumption` alone: any policies, any calls, observers
and callbacks that call the host at any point. All five properties of the run follow
from one invariant, `KaladaInv`:

- an operation whose fence is the present revision was asked for with the present
  draft, at the present number of submissions; if its validators have been given the
  draft it was this one, and if they have answered, its verdict is what the host
  shows (`Dated`). Fences are never ahead of the revision, so that one step of
  `revision` invalidates all of it: this is why the code publishes a revision with
  every change, and `SentUnpublished`, which does not, breaks it;
- while a submit callback is on the stack, the submission under way is counted
  already and not yet published (`Base`); the callback was called by a task, so its
  frame is the outermost;
- an operation knows what it did: `Told` relates phase, commit and outcome;
- no operation has two frames, and a frame finds its operation in the phase it left
  it in, whatever ran between (`Sits`, `StandsNow`);
- an intent that waits has an active sibling, and the lock is held by a submission
  that has yet to end (`Waited`, `Lock`).

Most steps only cancel operations or drop intents (`TouchKeeps`), move one operation
(`MoveKeeps`, `GoKeeps`) or add one (`GrowKeeps`). The three action properties are
proved with the step that could break them: `CommitKeeps` for what is sent, and
`StrikeKeeps` for a validation that is taken out of the store by the abort of its
operation.

### The publication of a release candidate

The first part of `ReleaseTagsProofs`, from `RcAssumption`. The invariant `RcInv` describes a job
by its record: the PUTs it has issued lie behind it, the one it is at excepted
while it waits or checks (`PutsBehind`); everything behind it is proved
(`ProvedBehind`), which stays true because what is published and attested never
changes (`Grows`); the trace names the open package as uncertain (`Unsettled`) and
accounts for the rest (`Accounted`); who works or has written holds the claim of
its run (`ClaimHeld`, `OneHolder`). From it follow the types, `TraceComplete`,
`ProvedInOrder`, and `OnePut` under `OneHostPerRun`: the claim is a file of one
host, and two hosts that serve the same run would each create their own.

### Tags and releases

The second part of `ReleaseTagsProofs`, from `TagsAssumption` as well. `PublicationRuns` shows that
the composition implements the publication, so its theorems carry over. The
invariant `TagsInv` says what an applier knows in each phase (`ApplierInv`): past
npm, that every package is published by these workflows; past its reads, that a
package it does not tag itself is tagged already; past the push, that all are.
Nothing of this is ever taken back (`TagsGrow`). `Backed` and `Together` follow,
for any number of appliers, reruns and failures.

*Only model-checked.* Every safety and action property that a passing run checks
has a theorem. The liveness properties (`RunsEnd`, `PromisesSettle`, `SubmitsEnd`,
`BoundSubmitsEnd`, `ChangesJudged`, `IntentsSettle`, `ReleaseConverges`) stay with
TLC: fairness and ENABLED are outside what the proof system handles.

## 6. Disagreements found

Three have a run with the expectation `violation`; PROJECT.json quotes the
documents.

1. Without async validators, a write right after `submit()` replaces the issues
   that should have stopped the old snapshot, and the handler is called with it
   (SubmitGap).
2. An observer told of the end of an action run executes the action before the
   queue is drained, and overtakes the intents that wait (ActionFifo).
3. A subscriber that sets a value while the scoped issues of another field are
   being revoked makes the scheduler forget that the other field changed
   (AsyncLostChange).

The models show the following too; an instance of the module with the named
property or calls finds each, and no run is spent on them.

4. `reset` aborts work before it commits the initial state. An abort listener
   that calls `validateAsync` there gets its verdict on the old data published
   on the new (`FreshPublication` with `AbortCallbacks = TRUE`).
5. `deactivate` during a submission leaves `submission.status` at `running`, and
   without one leaves `validating` set (`StatusMatchesWork` with `deactivate`).
6. A run that reports its outcome clears the lock after the notification. A
   subscriber that resets and submits again loses its lock
   (`submit-handler.ts:166`).
7. A run aborted during the submit transaction still runs its gates and appends
   their issues to the reset state. `AbortedRunsAreSilent` excepts these issues.
8. A reset inside an observer of a reset is observed by nobody
   (`ResetsObserved`, FormRuntime).
9. `dispose` called by a hook inside a transaction throws before any handle is
   released (`DisposalCompletes`). `HandlesReleased` excepts it.
10. A write whose issues are malformed throws between the start and the end of
    its transaction and leaves it open for ever (`ResetPossible`, with
    `MalformedUpdates = TRUE`).
11. A field blurred while `validateAsync` is under way makes that promise reject,
    although `validateAsync` is said never to throw for cancellation
    (`NeverThrown`, ScopedAsync).
12. A notification that overflows while scoped issues are published leaves them
    in the state without an owner (`ShownIsOwned` under `OverflowSpec`). One that
    overflows while an action publishes what it committed leaves the coordinator
    without news of it (`MutationsReported`, with `Left({})` in `StoreStep`).
13. What a plugin writes during a bound submit supersedes the validation of that
    submit, with nobody else calling (`PluginWritesAccepted`, BoundSubmit).

Read in the code, beyond the models:

14. `submit` called inside a transaction takes the lock in `createRun`, whose
    publication throws outside the `try`; the lock is never released
    (`submit-handler.ts:367`). `startForeground` loses its token in the same way
    (`validation-coordinator.ts:260`).
15. An abort listener that executes its action again leaves the status at `idle`
    while the new run is active (`action-executor.ts:225-227`;
    `StatusMatchesRun` with `AbortListeners = TRUE`). A custom handler is called
    by its microtask even when its run has been aborted (`178-181`).
16. A new workflow run can never prove versions that an earlier run published,
    since the signature must name this run's `invocationId`
    (`rc-signed-existing.ts:126`), while `rc-protected.ts:87` tells the operator to
    stop and obtain a new run.
17. A form validation that publishes while a scoped validator is pending drops
    the scoped verdict (`kalada-demo-scoped.ts:26`); `docs/kalada-v1-migration.md:88` and `176`
    name only edits, reset, replacement, revocation and disposal as cancelling.
18. An `onSubmit` that throws leaves the committed operation reported as `stale`
    (`kalada-private-submission.ts:51`); one that resets synchronously gets
    `submitted` set on the fresh draft (`kalada-demo-lifecycle.ts:141-143`). A `replace`
    submit whose cancellation tells a listener that submits overwrites the lock
    without cancelling the listener's operation
    (`kalada-prepared-runtime.ts:89-92`). The demo's apply-filters may report
    `stale` after its event was dispatched.
19. A subscriber that calls an array helper between the write and
    `updateFieldMeta` shifts metadata in the wrong order
    (`array-helpers.ts:41-43`); indices out of range, `insertValue(-1)` or a
    `moveValue` past the end, shift data and metadata differently. Overlapping
    repeater intents restore an old snapshot of the row keys
    (`repeater-node.tsx:129-131`).

For 4 and 5 CoordinatorSafety leaves out `deactivate` and abort listeners, and
CoordinatorLiveness puts them back for the properties that survive. For 14 the
models make no such call inside a transaction.

The claim file of a publication is local to its host. `rc-attempt-fence.ts:1-4`
says so itself; the instance has one host, the theorem says `OneHostPerRun`. The
publication scripts are archived by the policy of `docs/npm-trusted-publishing.md`
and no workflow calls them; their tests are kept, and the models were read with
those.

## 7. What is not modelled, and why

- *Coordinator and submit handler:* owned scheduling mode, the scoped runner
  inside the coordinator (ScopedAsync has it), abort listeners run by anything
  other than `reset`, calls inside an open transaction, `afterSubmit` hooks, the
  argument a subscriber is called with (it reads the state), the text of issues.
- *FormRuntime:* hook time limits, transforms, how issues are merged, and option
  checks; the copying and freezing of owned branches.
- *ScopedAsync:* a projection that throws, the receipt failure stamp of automatic
  runs, validators that call the form, stage changes, deadlines of run timers.
- *BoundSubmit:* dispose and deactivate, refused publications and their stamp,
  stage changes, submit inside a transaction, abort listeners, issues returned by
  handlers, overflow, the proof of the adapter.
- *ActionExecutor:* the array plans of the reserved actions, availability of
  nodes, calls made by `getNode` and `attach`, registry normalisation.
- *KaladaHost:* node guards, the blur trigger, the drop policy in the instance,
  evaluation of payloads, the reset action, several hosts on one store, row
  tokens and array algorithms, abort listeners of handlers and validators,
  exceptions of listeners. A validator's settling and its publication are one
  step. No liveness is claimed; `QueueServed` covers lost entries and a lost lock.
- *Release tooling:* plans, guards, evidence files and packing, which are reads
  and comparisons of files.
- *Field metadata, paths, policies, issue normalisation, declarative validators,
  schema compilers, authoring tools:* sequential functions over data, with table
  tests that fit them better than a state machine.
- *Expression service:* evaluation by an external library is synchronous (a
  promise is an error), and its lazy observation re-reads at every notification.
- *Rule plugin:* synchronous, inside the pipeline callback that FormRuntime leaves
  free. The rule session keeps its conclusions when the action that fired it is
  vetoed; what it then reports depends on the external engine.
- *React bindings, renderer, editor, demos:* rendering and packaging; their
  concurrency is React's.

What would come next: the liveness of the Kalada host, and the parts of the
coordinator and of the submit handler named above.
