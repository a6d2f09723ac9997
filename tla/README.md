# QQ Guardian in TLA+

QQ Guardian moderates QQ groups through a OneBot provider.  It is one Node.js
process: JavaScript runs one turn at a time, so nothing is preempted, but every
`await` lets other handlers, timers and requests in.  What is hard in this code
lies there: state read before an await and used after it, calls whose outcome
is unknown, deadlines that pass meanwhile, a process that dies between two
writes, a teardown that meets a boot.  The modules here model those parts at
the granularity of turns; TLC checks them on small instances and TLAPS proves
what matters most for every instance.

In every module **one action is the code between two awaits** (or, in
`ShadowMigration`, `SelfUpdate` and the save of `Configuration`, between two
atomic file operations), and a crash falls between actions.  A provider call is
a pair of actions, or more: started, then answered, refused, or never answered
although QQ did it.

## The system

| Component | State it keeps | What makes it correct | Modelled by |
| --- | --- | --- | --- |
| Named locks (`core/locks.ts`) | map from name to the last promise of a chain | one holder per name, FIFO, the map never forgets or leaks a chain | `NamedLocks`, `FifoMutex` |
| Join-request admission (`modules/approval`) | `approval_records`, statistics, the sync loop | a request is routed once and counted again only where the process died, an acknowledged decision stands, a penalised applicant is never let in by a rule | `Approval` |
| CAPTCHA gate (`modules/captcha`) | `captcha_sessions`, handlers waiting on locks | only earned admissions, the attempt budget, no session stuck | `Captcha` (on top of `Approval`) |
| CAPTCHA expiry sweep | in-flight set and slots | bounded concurrency, ends whatever the provider does | `CaptchaSweep` |
| Punishments (`modules/punishment`, the pardon commands, the join pipeline) | `punishment_records`, blacklist row | no path leaves the blacklist threshold unnoticed | `Punishment` |
| Threat intelligence (`modules/intel`) | feeds and their digests, the rules in use, the refresh in flight | a revoked feed stops being enforced, the newest policy is fetched | `Intel` |
| Accounts and sessions (`modules/auth`, the auth and users routes) | users, tokens, rate-limit buckets, the recovery file | the last super administrator stays, a login is of the account that was checked, a refresh token is spent by its use | `Accounts` |
| Configuration manager (`core/config`, its writers in `api` and `groups`) | configuration in force, configuration of the runtime, the file | the next boot accepts the file, a secret of the environment is never written, an update touches only what it names | `Configuration`, `LegacyConfig` |
| Self-update (`modules/update`) | downloaded archives, plugin files, backups | what was verified is what is installed, a half-applied release can be undone | `SelfUpdate` |
| SnowLuma client (`platform/snowluma/client.ts`, `transport.ts`) | sockets, retry loop, timer, pending calls, two queues | a lost connection is recovered, calls do not outlive theirs, events of one connection in order | `SnowLumaClient` |
| SDK client (`sdk-client.ts`) | the SDK's client, redial timer, ingress flag | after a policy close it does not stay deaf | `SdkClient` |
| Provider factory and standalone host (`factory.ts`, `snowluma.ts`, `router.ts`) | active, connecting and superseded transports, buffered events | the native transport is never given up, a shutdown leaves nothing open | `Standalone` |
| OneBot port (`runtime/host.ts`, `onebot-provider.ts`, `provider-telemetry.ts`) | host in use, calls in flight, status override | no call through a retired host counts for the new one, a false status ends | `OneBotPort` |
| Guarded HTTP (`runtime/safe-fetch.ts`) | one call: URL, credentials, deadline, body | no forbidden address, no credential for another origin, every call ends | `SafeFetch` |
| Lifecycle (`lifecycle.ts`) and curfew (`modules/curfew`) | boot state, timers, listeners, mutes held | idle is clean, no mute outlives Guardian | `Curfew`, `Lifecycle` |
| Shadow migration (`migration/`) | lock file, journal, configuration, database and WAL | nothing saved is lost, no mixed pair is served, Guardian comes up in the end | `ShadowMigration` |
| Risk, event dispatch, audit, statistics, schema conversions, logging, web console, scripts | - | - | not modelled, see below |

They interact in three ways.  **Locks**: captcha handlers hold
`locks.captcha(id)` and take `locks.approval(flag)` inside it; penalties of one
member share `locks.punishment`; installations share `locks.update`.
**Events**: a request routed to CAPTCHA emits `CaptchaRequired`;
`ConfigChanged` re-arms the timers of intel and admission sync.  **Shared
tables**: the hourly maintenance, the captcha reconciliation and the pardon
commands write rows without the lock under which others read them, and the
routes of the API check an account or a configuration before an await and write
it after.  These unlocked writers are in the models, because most of the
hazards are theirs.

## Modules

* `NamedLocks` keeps the representation of the code: a lock exists only as the
  chain of `previous` promises, and the map holds the tail.  `FifoMutex` is
  what callers rely on, a queue per name, and `ImplementsFifoMutex` maps one to
  the other: the queue of a name is its active calls in the order in which they
  arrived (`QueueOf`).  The other modules use locks as `FifoMutex` (or any order
  of waking, which includes it).
* `Approval` has one task per invocation of the service in flight: routed by
  the policy, decided by an operator, by the CAPTCHA, or started by the
  admission-sync loop.  A request is counted in one transaction and recorded in
  another; `Crash` falls between actions and between these two.  Its unlocked writers are the hourly expiry and the
  CAPTCHA's reconciliation.  `qq`, `sent` and `acks` are QQ itself and the
  history of acknowledged decisions.
* `Captcha` EXTENDS `Approval` and replaces its free CAPTCHA operations by the
  handlers of the service: issuing under the limit, delivery, routing and
  processing of replies, expiry.  `CaptchaCrash` falls between actions and after
  the first write of one that commits twice (a kill while a challenge is issued
  leaves what the reconciliation of a message, followed by a kill, leaves too).
  `RefinesApproval` says that every step of the
  composition is a step of `Approval` or leaves it alone, so the theorems about
  `Approval` speak of the composed system as well.
* `CaptchaSweep` is about the sweep alone: how many rejections run, which, and
  that a hung provider stops neither a sweep nor the following ones.
* `Punishment` models one member of one group with concurrent mute, kick, ban,
  revocation, pardon and return to the group.  Each place that records a kick is
  an action of its own (`Kicked`, `Banned`, `KickedAgain`, `AutoKicked`), since
  each checks the blacklist threshold for itself, or has to; the check is best
  effort, and `Dies` may come between the record and it.  `excused` remembers
  that a check failed or was cut off, or that an operator took the member off
  the list, until the next check.
* `Intel` has the single-flight refresh with the callers that join it, the
  policy that changes under it, the timer, the reconciliation and what the
  join handler enforces.  A document is named by its digest.
* `Accounts` splits each route at its one await, scrypt: a login, a new
  password and the bootstrap read the table, hash, and go on with what they
  read.  A password stands for its hash, a token for its row and its claims.
* `Configuration` is cut down to the fields that constrain one another or have
  several writers; a partial update is a function on the fields it names.  The
  commit and its rollback, the probe of patterns, the temporary file and its
  rename are the steps of the code.  `LegacyConfig` is the conversion of an
  older file, by what it does with each kind of field, over one boot after
  another; its report is that of the manifests of all of them.
* `SelfUpdate` has GitHub and the disk as actors: a release may be republished
  and a file replaced between any two steps.  An archive is its list of
  entries; `apply.ts` replaces file after file, and may fail or die in between,
  also while it rolls back.
* `SnowLumaClient` has the sockets as actors: their events arrive in any order
  the platform allows between the continuations of the connection loop.
  Payloads are reduced to the call a frame answers, bytes to frame counts,
  backoff delays to "the timer fires some time", and `incomingGeneration` to
  the socket it was captured for.  `SdkClient` does the same for the fallback
  transport, with the SDK's own reconnection as an actor.
* `Standalone` is the process around them: `SnowLumaStartupTransport` with the
  transports it selects, hands over to and forgets, the event buffer of `main`,
  signals and shutdown.  A shutdown that finds no bound server and nothing
  booted has nothing to wait for, so it closes the client in the same action
  (`BeginShutdown`); otherwise `RouterClosed` and `ClientCloses` come later.
* `OneBotPort` counts what a host is asked and answers across its replacement,
  and what `getProviderTelemetry` concludes from it.  Of an error only what the
  telemetry does with it is kept: refused credentials, a broken connection, or
  anything else.
* `SafeFetch` is one call from validation to the last chunk of the body, with a
  resolver and a server that may answer each question differently.
* `Curfew` is the scheduler (tick, stop, start) and `Lifecycle` EXTENDS it with
  boot, teardown and cleanup, which wait for it.  The synchronous steps of
  cleanup before and after its one await are one action each.
* `ShadowMigration` models the migration of every boot from its lock file to
  the released lock, together with what comes before (a legacy installation)
  and after it (Guardian runs, saves, is stopped or killed, upgraded again).
  Contents are a schema number and a stamp; `form` keeps files of equal content
  and different bytes apart, since the code compares checksums.

The `MC*` modules give constants to these for TLC.  Independent components
share an instance: a variable `scene` is chosen in the initial state, and only
the component it names moves.  Within a scene nothing of the component is left
out, except where the `MC` module says so; the scenes of one component differ
in which of its dimensions is large.

## Runs

| Run | Instance, scene by scene | What it shows |
| --- | --- | --- |
| `runtime` | 4 calls on 2 names; 3 sessions, 2 workers; boot and teardown in every overlap with the curfew of 1 group; the curfew of 2 groups | exclusion and FIFO refinement; the sweep is bounded and ends; idle is clean, mutes are lifted, teardown ends, the curfew keeps trying |
| `moderation` | 1 request, sync loop and 2 more tasks, 2 clock ticks, 1 crash; 2 operations in flight on one member (any, beside one that records or revokes a kick), thresholds of 2, 1 tick, 1 death; 2 feeds, 2 digests, 4 policies, 2 callers, 2 policy changes | routing, decision and expiry races; escalation on every path, also where a death or a failed check cuts one short; revoked feeds and new policies under a refresh |
| `captcha` | 1 request, 2 handlers, 2 attempts, 1 crash; 1 applicant with 2 requests, up to 2 sessions older than the limit, limit 1 | issuance, replies, expiry and manual decisions at every await; refinement of `Approval` |
| `provider` | 3 sockets with 2 frames and 2 sockets with 3; supervisor with 2 SDK transports, 3 drops, 3 events; SDK client with 4 mishaps; port with 2 hosts, 2 calls; a download with 2 redirects and 2 chunks, 2 policies | recovery, ordering, no leaked socket; fallback; deafness and false status end; addresses and credentials stay within the policy |
| `administration` | 2 administrators, 2 requests; 1 account whose tokens rotate; an account deleted and another created while the first logs in; 2 boots on an empty table; 2 configuration requests and 3 commits; 2 releases, 2 files, 4 archives, 1 event on GitHub, on disk or a crash; every combination in an older file | the tables and files administrators, updates and boots change together |
| `shadow_migration` | 2 processes whose takeovers of a stale lock do not overlap, 3 releases, 2 crashes, 2 failures, 1 edit and 1 commit each | crash and failure at every file operation |
| `pardon`, `rearmed`, `stale_lock`, `stale_takeover`, `stops_cleanly`, `events_overlap` | expected violations | the findings below |

Every type invariant, and every strengthening that a proof uses, was checked
over the same instances before it was proved; they are not repeated among the
properties of the runs, which are kept for what could really be wrong.

**Bounds.**  The hazards are races of two parties over one object, so one
request, member, account or session with two or three tasks meets all of them;
a second request is there where a limit counts requests, a second group where
one transition interrupts another, a second file where a release can be half
installed, a second redirect where a chain can come back to its origin.  A clock
needs two ticks: one to reach a deadline, one to pass it.  Counters that the
code does not bound (`MaxTime`, `MaxClock`, `MaxCrashes`, `MaxFrames`,
`MaxSockets`, `MaxDrops`, `MaxEvents`, `MaxSdkMishaps`, `MaxHosts`,
`MaxPortErrors`, `MaxChanges`, `MaxCommits`, `MaxIds`, `MaxTokens`,
`MaxPunishTime`, `MaxRecords`, `MaxDeaths`, `MaxWrites`, `MaxFailures`,
`MaxRelease`) are cut off in guards, each named where it is declared.  Three
sockets allow a replacement to be replaced; two crashes in `shadow_migration` allow one during the recovery from
the other, and two failures one during the restoration that another caused;
six tokens are three logins.  Where deadlock is not checked the bounded system
stops by design.

**Fairness.**  The event loop runs every continuation (WF on resumptions and on
a booting process), intervals keep firing (WF on sweeps, ticks and the refresh
timer), calls carry deadlines (WF on acknowledgement or failure, WF on the
progress of a fetch, whose own timer is part of it), and FIFO locks serve a
waiter although others come and go (SF on its step).  An attempt that is
retried for ever succeeds some time: a fetch of the request list (SF on
`SweepFetches`), a dial of the SDK (SF on `SdkOpens`; without it a provider
that stays away keeps the client deaf for good reason).  Events keep coming and
the console keeps asking for the status (WF on `RecordProviderEvent` and
`GetProviderTelemetry`), which is what `StatusRecovers` needs: the override is
dropped by the next of either.  In `CaptchaSweep` and `SafeFetch` the other
side is *not* fair where their own end is concerned.  Members, operators, QQ,
GitHub and crashes are never fair.  `SnowLumaClient`, `Punishment`, `Accounts`,
`Configuration` and `SelfUpdate` state safety only: `RecoveryPending` says that
a disconnected client always has a retry under way, which needs no fairness.

## Findings

* `pardon` - the unban and unmute commands revoke what is recorded at that
  moment, outside the punishment lock; a penalty in flight is recorded after
  the pardon and re-applied at the next join.
* `rearmed` - a `ConfigChanged` while cleanup waits for the curfew re-arms
  timers that nothing clears.  With `SavesDuringCleanup = FALSE` (run
  `runtime`) cleanup is complete.
* `stale_lock` - a restart that gets the pid recorded in its own dead lock file
  (a container) refuses to boot until somebody deletes the file.  With
  `ReusedPids = FALSE` the lock recovers (`BootsInTheEnd`).
* `stale_takeover` - two boots that find the same stale lock can both take it:
  the second renames away the lock the first has just created, and both migrate.
  Nothing in the code keeps takeovers apart, so everything shown of migrations
  has the hypothesis that they do not overlap (`TakeoversOverlap = FALSE`).
* `stops_cleanly` - after a fallback to the SDK the native transport stays open
  to come back; a shutdown closes the selected transport only, and the native
  one reconnects for ever.
* `events_overlap` - the handler the supervisor gives a transport returns at
  once, so the ordered queue hands over the next event while the previous one
  is still handled.

### Observed while modelling

No run is spent on these: most are spoken of by no document or asserted by a
test, and of the others a property of a passing run says how far they go.  Where
the model of the component keeps what an item is about, it has the behaviour
too; some items lie below the models (a response header, the text of an error,
a file name).

* Admission: the statistics of a request commit before its record does, so a
  process that dies in between leaves a count without a record, and the next
  sweep routes and counts the request again, although the comment at
  `approval/index.ts:98` says that it is counted exactly once.  `RoutedOnce`
  bounds it: one count per death, and never two records.
* CAPTCHA and moderation: a correct answer that waits for a lock is approved
  after the deadline of the request itself; a kill between the captcha row and
  its challenge leaves the request to expire unasked; revoking the longer of two
  overlapping mutes leaves QQ muting; a lifting of the curfew that was done but
  not answered leaves the group marked muted, so a window that re-opens does not
  mute again.
* Migration: an activation interrupted with both files in place and met by the
  *next* release is refused without being restored (last disjunct of `Refused`).
* Provider: a native connection that drops is replaced by an SDK one in use,
  although `docs/architecture/snowluma-sdk-fallback.md:138` and the comment at
  `factory.ts:40` say that a live connection is never switched
  (`test/snowluma-transport.test.ts:276` asserts the switch); a native transport
  that recovers while a handover is pending leaves the SDK one selected;
  repeated drops leave superseded SDK transports behind; `close(1009)` is
  refused by the native WebSocket, so the socket of an oversized frame is dropped
  from the books and stays open, where `docs/deployment/snowluma.md:573` has it
  terminated (`OneLiveSocket` leaves that one socket aside); when `close(1009)` of
  the SDK throws, ingress stays blocked while connected, until the next
  reconnection; a router closed while the address of its host is looked up binds
  nevertheless; its timeout callback sets a header after the headers were sent
  (`router.ts:314`).
* Port: a call that returns after `clearRuntimeHost` turns a completed action
  into a `TypeError` (`host.ts:68`), so a caller takes it for failed; the two
  classifiers of errors ask in different orders whether one is of the connection
  or of the protocol; the resolution of the first host of a download lies outside
  its deadline.
* Configuration: an update that is refused because its save failed has changed
  the configuration in force, and the next save persists it
  (`core/config/index.ts:183`); `POST /groups/:groupId` writes back a group it
  read before the pattern probe, and so loses an update committed meanwhile, and
  the two ends of a curfew set that way may coincide; a pin cannot be removed
  through `POST /config`, which merges; `bootstrapGroups` promises not to throw
  (`groups/index.ts:165`) but the merge into the configuration can.
* Update: a process that dies between two files of a release leaves a mix that
  no boot repairs (its backups are complete, `MixIsRecoverable`); a leftover
  `.unverified` file blocks later downloads of that version.
* Accounts: a login checks the password against the row it read, hashes, and
  issues tokens for that row (`modules/auth/index.ts:279`).  A change of the
  password that commits meanwhile, by its owner or by an administrator, revokes
  the sessions that exist; the login with the old password then adds one, which
  survives.  What such a login cannot do is end in another account
  (`LoginIsOfItsAccount`).

## Proofs

Assumptions are the `ASSUME`s of the modules, which TLC evaluates in the runs.
Each proof module shows that an invariant of its own is inductive, with one
lemma per action (or per class of actions), and derives the properties from it.

* `NamedLocksProofs`, for any calls and names: the map's tail, the chain of
  predecessors and the arrival order agree; every earlier call of a name that
  is not done lies behind the predecessor.  Mutual exclusion, FIFO order and
  `MapNamesTheTail` follow.  Mutual exclusion alone is not inductive: it needs
  to know that a call whose predecessor is done has *nobody* unfinished before
  it.  `LocksAreQueues` is the refinement of `FifoMutex`.  No variable of the
  code holds the queue, so it is defined from the arrival order (`InOrder`, by
  the position of each call among the active ones), and the lemmas about lines
  say what an arrival and the departure of the first do to it
  (`InOrderAppend`, `InOrderTail`).  Lines are finite because each step adds at
  most one call (`LinesFinite`), so the set of calls need not be.
* `ApprovalProofs`, for any requests, tasks, deadlines and number of crashes:
  `IndInv` relates a task in the critical section to the row it works on, the
  rows to what QQ acknowledged, the counts of a request to the deaths of the
  process, and the sync loop to its task; `RoutedOnce`,
  `AckedDecisionStands` and `PenalisedNeverAutoAdmitted` are its consequences.
  Actions that write rows share `NewRowInd` and `SetStatusEffect`.
  Its second half is about the composition with `Captcha`, for any applicants,
  limits and distinct rows of an older version.  `StepRefines` shows each step
  to be one of `Approval` or a stutter, so `IndInv` holds here too
  (`CaptchaRefinesApproval`).  `CaptchaDecisionEarned` and `AttemptBudget` are
  not inductive: a handler between the answer and the acknowledged decision
  must be known to decide what the session says (`DecisionsFollowAnswers`), an
  open session nobody decides on to have an attempt left (`AttemptsLeft`), and
  a reply that waits for the lock of a decided session to find it closed
  (`LateRepliesDropped`).  `CaptchaIndInv` joins them with `IndInv`.
* `RuntimeProofs`.  The sweep, for any sessions and workers: slots, worker
  entries and rejections in flight are one set, also for the rejections whose
  deadline has passed; hence `InFlightBounded`.  Curfew and lifecycle, for any
  groups and any failures: state, boot and cleanups agree (`TasksCoherent`);
  whatever is held is owed to a boot under way or to a cleanup that still has
  to release it (`HeldIsOwed`); the curfew is run or stopped by somebody
  (`CurfewOwned`); a mute whose action was answered is on record
  (`MutesKnown`).  `NoMuteOutlivesGuardian` follows, and `IdleIsClean` when no
  configuration is saved during a cleanup, the hypothesis that run `rearmed`
  shows to be needed.
* `AccountsProofs`, for any names, handlers, boots, limits and lifetimes: the
  tables agree (rows are numbered by the sequence, a session is anchored in the
  account and the login it came from, a login that hashes holds the row of an
  account of that name or of none any more) and `OneUnspentPerLogin` is inductive
  with it; `LoginIsOfItsAccount`, `LastAdminStands` and `OneRefreshPerLogin`
  follow.  The crux is the login that hashes while accounts are deleted and
  created: its id must not be given away again, which the sequence of the table
  and the immutable name guarantee.  The theorems are about the empty tables
  `AccountsSpec` starts from; the run starts from tables that satisfy the same
  invariant, so that small bounds reach further.
* `AdministrationProofs`.  The configuration, for any fields, bodies, requests
  and commits: what is live could be loaded again (`LiveLoads`), the temporary
  file of a save under way is what is live (`SaveIsLive`), and what a request
  remembers of a generation is what that generation would become
  (`ConfigRequestOK`).  The last is the crux: between its validation and its
  commit a request holds a candidate, and only the comparison of generations
  makes it that of the configuration it replaces.  `NextBootAccepts`,
  `SecretsStayApart` and `UpdateIsLocal` follow.  That normalising and merging
  yield complete groups is proved from the shapes of the bodies
  (`IsUpdate`, `IsPartialGroup`).  The legacy conversion: what it writes is
  canonical, so a second boot does not convert again and the report stays that
  of the conversion (`LegacyInd`); `NothingSilentlyDropped` holds for every file.  The self-update, for any
  releases, files and archives: while files are replaced a backup holds all of
  what they were, and it is known which file is of which version
  (`ApplyingSound`); `MixIsRecoverable` and `AppliesWhatItVerified` follow, and
  `ResultIsTrue`: an update that reports "installed" or "restored" is right
  about every file.
* `ModerationProofs`.  The feeds, for any sources, policies and callers: a rule
  in use is one that the policy of the last reconciliation allows, whatever was
  downloaded since, hence `RevokedNeverEnforced`; the refresh in flight has
  exactly one owner (`EveryWaitIsAnswered`).  Penalties, for any number of
  operations, thresholds and deaths: rows are complete (`PenaltyInd`), each of
  the places that record a kick checks the threshold or excuses it
  (`CheckNotices`), and revocations only lower the number of active kicks
  (`FewerKicks`), hence `ThresholdBlacklists`.
* `ProviderProofs`.  `SnowLumaClient`, for any sockets, frames, calls and
  attempts, and whatever `close(1009)` does: the socket that opens is the
  current one and the loop's; a loop that ends without a connection knows that
  it must return; frames and events ascend, and queued events are of the present
  connection.  `RecoveryPending` needs all of it: a close event may come before,
  between or after the continuations of the loop, and in each case exactly one
  of timer, loop and flag promises the retry.  `Standalone`, for any SDK
  transports, losses and events: while the connection loop runs nothing is
  selected and no fallback is under way, so what it selects replaces nothing;
  hence `NativeIsNotGivenUp`.  `SdkClient`: each step that ends one way of
  reconnecting a deaf client leaves another (`SomebodyReconnects`, the safety
  half of `DeafnessEnds`), and nothing outlives `close()` (`ClosedForGood`).
  `OneBotPort`: hosts are numbered as they come, so a new one starts without
  calls, and a call of an earlier host can only make the count of calls in
  flight too low (`NeverOvercounted`).  `SafeFetch`, for any resolver, server,
  hosts and number of redirects: a call without an answer is at a URL its policy
  allows, and one that carries a credential is at the origin it was given for
  (`Abides`); what a connection used is what was judged, whatever the resolver
  says next.
* `ShadowMigrationProofs`, for any processes, releases, writes, crashes and
  failures, provided two takeovers of one stale lock do not overlap (the
  hypothesis `~TakeoversOverlap` of each theorem, which the code does not
  provide: run `stale_takeover`).  `NothingLost` says nothing of how far an activation
  has come, so `IndInv` adds what each place of the migration relies on
  (`Relies`), the agreement of lock file and holder, the origin of backup and
  candidate, and that nobody works under the lock while another is past the
  migration.  The steps of one process fall into a few classes (an interrupted
  activation, a staging, a move that leaves files and journal alone, a running
  Guardian, the operator); each class has a lemma, each action then shows only
  what is relied on where it goes.

Every safety property of the passing runs is a theorem.  Some theorems state
what no run lists, because they are what a property of the runs rests on:
`EveryWaitIsAnswered`, `ResultIsTrue`, `SomebodyReconnects`, `ClosedForGood` and
`NeverOvercounted`.  They and the strengthenings were checked by TLC over the
instances of the runs before they were proved.

The assumptions that the proofs of `Configuration`, `LegacyConfig`,
`SelfUpdate` and `Intel` need say two things: that the marks for "absent",
"ill-formed" and "torn" are no real values, and what the bodies of requests may
hold, which is what the routes parse (a list of patterns is a list, a name a
name), ill-formed fields included.

**Only model-checked**: all liveness and everything with ENABLED, which are out
of the prover's reach (`SweepNeverHangs`, `StopsInTheEnd`, `CurfewKeepsTrying`,
`LatestPolicyIsFetched`, `StaleSessionCloses`, `DeafnessEnds`,
`StatusRecovers`, `EveryFetchEnds`, `BootsInTheEnd`), and what depends on
induction over data.

## Not modelled

* Risk scoring and the regular-expression worker: a pure score over messages and
  an external model.  `Punishment` takes its verdict as an input, and
  `Configuration` that of the pattern probe.
* Event dispatch: it routes an event to one of the services above; the order of
  events is that of `SnowLumaClient` and `Standalone`.
* Audit and statistics: append-only tables nothing else decides on.
* The content of the schema conversions of the database; when they run and what
  is activated is `ShadowMigration`.
* The HTTP provider (one request per call) and the reverse WebSocket provider (a
  second client state machine, left for later); the request handling of the
  router between listen and close.
* Welcome messages and monitoring, one provider call each; command parsing and
  cooldowns; expiry of blacklist rows and the global blacklist.
* Logging, the web console and the installation scripts: output, user interface
  and shell.

What would come next: the reverse WebSocket provider; a composition of
`Standalone` with two full transports in place of its abstract ones, and the
proof that each is one; the same for the modules that use locks and
`FifoMutex`.

`PROJECT.json` holds the map from definitions to source lines, the hazards with
the properties that watch them, and for each property a mutation of the code
under which TLC finds it violated.
