# KubeMemos-EKS in TLA+

KubeMemos-EKS runs Memos (a Go server with a React client) on EKS, with a
PostgreSQL database in RDS whose password is rotated by a Lambda function and
carried to the pods by External Secrets and Reloader. These modules model the
parts of it that concurrency, failure and ordering make hard: the rotation and
its delivery, the tokens and the cache of the server, and the web client. The TLC
configurations check them on small instances, and TLAPS proofs state what holds
for every value of the constants. `PROJECT.json` maps each definition to the
lines it models, and lists runs, mutants, hazards, findings and theorems.

    tlc -workers 2 -config MCRotation.cfg MCRotation
    tlapm CredentialRotationProofs.tla

## Inventory

Paths are relative to the repository.

| Component | State | Operations | What is hard | What makes it correct |
|---|---|---|---|---|
| Rotation Lambda, `src/lambda_function.py`, `infra/modules/secret-rotation` | staging labels and versions of the secret, password of the database user | four steps, each several calls to Secrets Manager and PostgreSQL | at-least-once invocation, overlap, kill between calls, late repeats | some label always names the password; contract with readers; rotations complete |
| Secret delivery, `kubernetes/my-chart`, `kubernetes/helm-values/stakater-reloader.yaml`, `scripts/secret-rotation.sh` | Secret `memos-dsn`, pod template annotation, pods and their DSN | hourly or forced refresh, reload, rolling update, container start | three asynchronous controllers behind the rotation | pods end up on the current password, reloads are never premature |
| Tokens, `memos/store/user_setting.go`, `server/auth`, `auth_service.go`, `user_service.go` | one row per list in `user_setting`, a cache per process, cookies | sign in and out, refresh, create, delete and use a personal access token | read-modify-write through a cache, goroutines, two replicas | acknowledged changes are neither lost nor undone |
| TTL cache, `memos/store/cache/cache.go` | `sync.Map`, atomic `itemCount` | Set, Get, Delete, Clear, Close, cleanup loop | two structures updated apart | count equals entries, bound kept |
| Store caching of users and instance settings, `memos/store/user.go`, `instance_setting.go` | caches by id and name | get, list, update | fills that race updates | no stale entry after a write |
| Migrator, `memos/store/migrator.go` | schema, schema version | init, migrate, version checks, demo seed | crash between commit and version, two replicas | each migration applied once, no downgrade |
| Server start and stop, `memos/server/server.go`, `cmd/memos/main.go` | secret key of the instance, background goroutines | start, shutdown | two replicas on an empty database | all replicas sign with one key |
| User service, `user_service.go` | users, settings, notifications | create, update, delete | check then act on the first user | one administrator by default |
| Memo service, `memo_service.go`, `store/memo.go`, `store/attachment.go` | memos, relations, attachments, inbox | create, comment, update, delete | multi-statement updates without a transaction | no dangling relation or attachment |
| Runners, `memos/server/runner` | attachment links, memo payloads | refresh in batches | whole-payload writes, paging while rows change | links stay valid |
| Scheduler and cron, `memos/plugin/scheduler`, `plugin/cron` | jobs, goroutines, channels | register, start, stop, run | locks held over channel sends, restart | stop waits for jobs, no deadlock (no server code imports them yet) |
| Session of the web client, `memos/web/src/connect.ts`, `auth-state.ts`, `contexts/AuthContext.tsx`, `pages/SignIn.tsx` | access token per tab, refresh cookie per browser, current user, OAuth state | load, call, refresh and retry, sign in, out and up, OAuth callback, redirects | many requests, several tabs, answers after a sign-out | the session is kept, a tab acts for the user it shows, no page waits forever |
| Memo editor, `memos/web/src/components/MemoEditor` | reducer per editor, drafts in local storage, one debounce, dialogs, the textarea | type, upload, save, link, locate, complete | timer against submit, retry after half a save, late answers, two handlers of one key | composed once is posted once, no draft resurrected, no text lost |
| Theme and locale, `web/src/hooks/useUserTheme.ts`, `utils/theme.ts` | setting, local storage, document | choose, save, follow the system | three copies changed apart | what is saved is shown |
| Instance settings forms, `web/src/components/Settings`, `contexts/InstanceContext.tsx` | settings, copies, drafts | fetch, edit, save whole settings | stale drafts | a save changes what was edited |
| Lists and account forms, `web/src/components/Settings`, `UpdateAccountDialog.tsx` | lists, dialogs, calls | create, update, delete, fetch | lists fetched under other calls, stale copies | lists settle on what is stored |
| Filters, explorer, calendar, `contexts/MemoFilterContext.tsx`, `layouts/MainLayout.tsx`, `components/ActivityCalendar` | URL, filters, profile, statistics | filter, navigate, count | two effects that write each other's source, answers out of order | URL and filters agree, the explorer counts the memos listed |
| A memo in the query cache, `web/src/hooks/useMemoQueries.ts`, `components/MemoActionMenu`, `components/MemoContent` | list and detail copies, mutations, tags | tick, pin, archive, delete, react | optimistic updates, rollbacks, fetches under way | the page settles on the memo stored |
| Paged lists, columns, inbox, `pages/Attachments.tsx`, `components/MasonryView`, `pages/Inboxes.tsx` | pages by offset, distribution, messages | load more, delete, deal out, archive | lists that change under paging, timers with old lists | nothing twice, skipped or hidden |
| Filters, markdown, RSS, file server, identity providers | none shared | parse, render | data only | not modelled |
| VPC, EKS, CI pipelines | none at run time | provision | declarative | not modelled |

Interaction: the Lambda function writes the password and the labels; External
Secrets reads AWSCURRENT and writes the Secret; Reloader reads the Secret and
patches the Deployment; a container reads the Secret when it starts; the server
reads and writes PostgreSQL through per-process caches; the client holds tokens
the server issued, and copies of what it stores in contexts, the query cache,
drafts and the URL, each refreshed in a way of its own.

## Modules

| Module | Models |
|---|---|
| `CredentialContract` | abstract: what rotation promises its readers |
| `CredentialRotation` | the Lambda function, call by call, with Secrets Manager and the database |
| `SecretDelivery`, `Deployment` | extends the contract with the operator, Reloader, Deployment and pods; the Deployment's numbers |
| `RotationToPods` | composes `CredentialRotation` with the cluster of `SecretDelivery` |
| `CredentialRotationProofs` | the theorems about rotation and the cluster behind it |
| `UserTokens` | refresh and personal access tokens through cache and database |
| `UserTokensProofs` | its theorems |
| `TtlCache` | the store's in-memory cache, step by step |
| `TtlCacheProofs` | its theorems |
| `ClientTokens` | the tokens of one browser, the interceptor and the server's sessions |
| `ClientSession` | extends it with contexts, pages and redirects of every tab |
| `ClientSessionProofs` | its theorems |
| `MemoEditor` | editors of a tab: reducer, drafts, save |
| `EditorDialogs` | the dialogs to link a memo and to pick a location |
| `EditorText` | keys in the textarea: two popups and the completion of lists |
| `ClientPreferences` | theme and locale |
| `MCEditorProofs` | the theorems about the editors, the dialogs and the preferences |
| `MCTextProofs` | the theorems about the text, and the types of every part of `MCEditor` |
| `InstanceForms` | the forms for the instance settings |
| `ListForms`, `AccountForms` | the sections that list things; the account's dialogs |
| `MemoFilters`, `MemoExplorer`, `ActivityCalendar` | filters and URL; the explorer beside a list; its calendar |
| `MemoCache`, `MemoTags` | one memo in the query cache; its tags as client and server find them |
| `PagedLists`, `MasonryLayout`, `Inbox` | lists by page, lists in columns, messages |
| `MCRotation`, `MCToPods`, `MCDelivery`, `MCTokens`, `MCCache`, `MCSession` | instances for TLC |
| `MCEditor`, `MCPages` | compose the other client modules for TLC |
| `MCPagesProofs` | the theorems about the forms, the lists, the inbox, the filters, the explorer and its calendar |
| `MCMemosProofs` | the theorem about memos in the cache, by page, in columns and their tags |

### CredentialRotation

An execution of the function is a record: `pc` names the call it makes next,
`token` and `step` the event, `current`, `previous` what it read, `conn` the
version it logged in with. One action is one call to Secrets Manager or to the
database with the local code up to the next one, so everything that another
execution could change in between can change. A version stands for its password:
`put_secret_value` writes the two once and together, and refuses a token that
holds another value. `target` keeps of a secret which account it names: the
secret outlives the database (it is created in the bootstrap layer), so
AWSPREVIOUS may name a host that is gone or belongs to another deployment.
`LoginSucceeds` and `LoginRefused` stand for `get_connection` with its SSL
fallback; a good login may fail for other reasons.

Secrets Manager is external. It starts a rotation when none is in progress,
delivers a step when the steps before it succeeded, and may deliver it again
later. `StartRotation` also requires that executions past the staging check
serve the version that is now AWSCURRENT: the function's timeout is 30 seconds
(`infra/modules/secret-rotation/main.tf:53`), and an execution of an older
rotation would have to survive a whole rotation after its own. Executions of the
last rotation may still run.

`SwitchRotation` is `RotationEnabled` going off and on, which makes the handler
refuse steps half way through a rotation.

### SecretDelivery

The rotation appears as the contract only (`Rotate` is `ContractNext`). `Fetch`
and `Sync` are one reconcile of the ExternalSecret, apart so that the secret can
move on in between; `Fetch` is enabled at any time and so covers the hourly
interval and the forced sync of `scripts/secret-rotation.sh`. `Reload` compares
the Secret with what the pod template notes. `ScaleUp` and `ScaleDown` are the
rolling update with `maxSurge: 1` and `maxUnavailable: 0`; the Deployment has no
readiness probe, so `Available` counts a container that merely started. `Boot`
is `main.go` up to the first query: `sql.Open` does not connect, `Migrate` does,
and the process ends when it fails. `linked` says that a pod can reach the
database: while its DSN is good the pool reopens connections, afterwards it lives
on the open ones until `Disconnect`.

### RotationToPods

The same cluster behind the function itself. `password`, `current` and `spent` are
read off the state of `CredentialRotation`, and a step is one of the function, of
Secrets Manager and the database, or one of the cluster (`ClusterNext`), so that a
reconcile or the start of a container may fall between any two calls.

### UserTokens

A row of `user_setting` is a set of token ids, or absent (`NoRow`). Each process
has a cache entry per key, or none (`Miss`). A request is a handler with the
store call it is in: `Get` (cache), `Query` and `Fill` (database, then cache),
`Upsert` (the whole list), `CacheSet`. Handlers chain store calls as the code
does: RefreshToken checks, adds the new token, removes the old one. `Expire`
stands for the TTL, eviction, and the moment in which `Set` has deleted an entry
and not stored the new one. `UpsertFails` covers a write that failed and one that
was applied but whose confirmation was lost when the request's context ended. The
variables `stored`, `added`, `removing` and `removed` only remember; no action
reads them.

Left out: expiry of tokens and the archived-user check (a further reason to
refuse), webhooks and the general settings (same store functions on other rows),
and the sharing of the cached slice between overlapping appends (a data race
whose outcome, one id overwritten by another, is a lost update again).

### TtlCache

An entry is its expiration; values do not matter to the cache. Each access to the
`sync.Map` or to `itemCount` is one action, so every method interleaves with the
others and with the cleanup goroutine. `Range` visits keys in any order and reads
each when it visits it, as `sync.Map` allows. `Subtract` is the last step of Get,
Delete, cleanup and cleanupOldest, which all take what they removed off the
counter at the end. A Get that finds a live entry, or none, changes nothing and is
no action. `Clear` stores zero whatever it removed; only goroutines in `Clearer`
call it, and none in the store does.

The map and the counter agree only up to what goroutines have in hand: `Ahead(p)`
is what the counter is too high by on account of p, and `Drift` what is left
unexplained: the counter less the entries and less `InHand`, which has a pair of p
and a number for each of them, so that a sum over goroutines is the cardinality of
a set and can be reasoned about without a fold. `raced` remembers that a goroutine added or removed an entry another
had looked at and was about to act on (or that `Clear` wiped out what others had
in hand). Without that, `Drift` stays zero in every state, whatever overlaps.
`Close` is called once, by `Shutdown`, and requests may outlive it.

### ClientTokens and ClientSession

Tabs share the refresh cookie; each has its access token in memory and a copy in
its sessionStorage. A call of a page is a record in a slot of its tab: sent,
refused (`Unauthorized`), waiting for the tab's one refresh, sent once more. The
refresh is two steps, `Rotate` at the server and `RefreshAnswered` in the
browser, so a page load, a sign-out or another tab can come in between. `task`
is what the tab is busy with: loading its contexts, a form, a sign-out, a
callback. A full page load (`Visit`) drops what the tab has in memory, router
navigation does not. The server here checks and rotates tokens as
`auth_service.go` does; `UserTokens` has how it stores them.

### MemoEditor, EditorDialogs, EditorText, ClientPreferences

An editor's save is a task whose `pc` follows `memoService.save`: files uploaded
one after the other, the memo created or the stored one read, compared and
updated, then `cacheService.clear`, the invalidated queries, the reset. Typing
continues meanwhile. `Debounced` is the timer of the one debounce all editors
share (`cacheService.ts:10`). `EditorDialogs` has a search sent per pause and
answered in any order, and a position that is debounced, geocoded and named by
effects. In `EditorText` a key runs through the handlers in the order they were
registered, each with the text of the DOM and the state of the last render. In
`ClientPreferences` a choice is applied, stored and sent at once, and the hooks'
effects run when the copy of the setting changes.

### InstanceForms, ListForms, AccountForms

A setting is two fields (`part` is the nested customised profile or S3 config),
a draft is the values shown, those it was taken from, and the fields edited.
`refreshedDraft` is what each section does when the context's copy changes: the
general section takes over the profile only (`InstanceSection.tsx:33`), the
storage section everything, the memo-related one nothing. In `ListForms`, `kind`
says which of five sections is mounted; they differ in whether an answer is
added to the list, filtered out of the list a closure holds, or makes the list
be fetched. `AccountForms` compares the form with a copy of the user that is
read at page load only.

### MemoFilters, MemoExplorer, ActivityCalendar

A render takes the router's next location and the filters set since, or not yet;
its two effects are `syncFromUrl` and `syncToUrl`, with their two refs.
`MemoExplorer` has the conditions a page puts on its list beside the queries for
the user whose memos are counted. `ActivityCalendar` builds months and years of
days from the statistics, with the weeks before and after, and the bounds of
navigation.

### MemoCache, MemoTags

Each page has a copy of the memo. A mutation is shown at once on the memo's own
page (`optimistic`), sent, applied, answered or failed, tried again once; its
answer invalidates the lists, its failure puts back the copy taken before it.
Whatever menu, sidebar, task or reaction the page offers is an action. `MemoTags`
runs the client's and the server's scanner over every short line.

### PagedLists, MasonryLayout, Inbox

A page's token is an offset into a list that others change; `whole` is a fetch
of all pages, `more` of the next. The timer of `useMasonryLayout` deals out the
list and columns it was set with. The inbox keeps a list it does not fetch again
after a message was archived or deleted.

## Runs

| Run | Instance | Shows |
|---|---|---|
| `rotation` | 5 versions (3 rotations, one foreign version), 1 execution, 2 faults | without overlap: AWSCURRENT is the password of the database between rotations, and AWSCURRENT or AWSPENDING within one; the function implements `CredentialContract`; each rotation completes |
| `rotation_overlap` | the same versions, 2 executions, 1 fault, symmetry | with overlap: types, `Recoverable`, `AltersOwnAccount` |
| `to_pods` | 2 versions and a foreign one, 1 execution and fault, 1 replica and 1 surge pod, 1 release, 1 crash | behind the function, call by call, reloaded pods have the password they were reloaded for; the Deployment comes to rest connected |
| `delivery_downtime` | the contract for the function; 2 replicas and 1 surge pod | violated: see findings |
| `tokens` | 3 tokens, 2 browsers, 1 process, 1 request at a time, 2 faults, symmetry | acknowledged additions and removals survive; the cache accepts nothing the database never held |
| `tokens_replicas` | 2 processes, 1 request at a time | violated: see findings |
| `tokens_overlap` | 1 process, 2 requests | violated: see findings |
| `cache` | 2 keys, 2 goroutines (one may Clear), limit 1, entries that expire after one tick | counter and bound exact unless a look went stale; eviction of the oldest; Close returns |
| `cache_overlap` | the same without Clear | violated: see findings |
| `client_session` | 2 tabs, 2 users, 3 refresh tokens, in four scenarios | sessions, sign-outs and OAuth states survive any interleaving; each page appears in the end |
| `client_editor` | a home, a comment and an edit editor, 2 saves; 7 steps of the dialogs; 6 keys; 3 events of the preferences; 1 fault | what was composed is posted once and as shown; drafts follow; late answers do not stay; one handler answers a key; what is saved is shown |
| `client_pages` | each of the other eleven client parts with 2 to 6 clicks and a fault | saves change only what was edited; what is shown settles on what is stored |

Bounds. Three rotations are the fewest in which a late execution can meet labels
that have all moved on (AWSCURRENT, AWSPREVIOUS and AWSPENDING are then three
versions newer than its own), and the mutant of `Recoverable` needs two; two
executions are enough for every race of one execution against the labels.
`MaxFaults` bounds killed executions and refused good logins; one is enough to
make set_secret try AWSPREVIOUS although AWSCURRENT is right. One version more or
two faults with two executions passed as well (609 thousand states). In
`to_pods`, one rotation and one release give three pod templates in flight, and a
call of the function may fail; with two replicas, a crash or a release (223 and 900
thousand states), and, for the invariants, two rotations (758 thousand) passed as
well. Three tokens are one
session refreshed while another exists.

In `cache`, a limit of one and two keys make every second Set evict; three keys
(1.3 million states with symmetry) and two different times to live (10.9 million)
passed as well. `MaxTime` is 1, so an entry is live or expired, and entries with
different expirations exist. `MaxDrift` keeps Set, Get and Delete from beginning
when the counter is already further off; the cleanup and Clear always may.

The scenarios of `client_session`: two tabs of one user; another user who signs in
while the first is signed in; one tab and the identity provider with failing
calls, on an instance that allows no public memos; a new instance and its first
user. Three refresh tokens are two rotations after a sign-in, which is what two
tabs need to overtake each other twice. In `client_editor` and `client_pages` the
modules keep to their own state (drafts, queries, the URL: no variable is
shared), so `part` picks the one that moves and the run is the sum of their
instances, not the product. Two saves are a save and its retry, or two editors at
once; one call may fail, before or after the server acted. `MaxEvents`,
`MaxClicks` and the like bound what the user does; answers are not bounded. The
calendar shows 1999 to 2003, with a leap year and every first weekday.

Symmetry is used only in runs without liveness properties: created versions,
executions, and tokens are interchangeable.

Fairness. `CredentialRotation`: an execution that runs makes its next call (weak,
per execution), and the step Secrets Manager waits for is delivered again and
again (strong: an execution must be free for it, which others may prevent for a
while). Nothing is assumed of kills and refused logins except that they are
bounded. `RotationToPods`: the same of the function; the operator and Reloader, and
for each pod the Deployment and the kubelet, keep reconciling (weak), as control
loops do. `UserTokens`
states safety only. `TtlCache`: the runtime schedules the cleanup goroutine and the
caller of Close (weak); `select` chooses at random when the ticker and `stopChan`
are both ready, so the loop does not choose the ticker forever (strong).
`ClientSession`: the server answers the calls a page load waits for, or they
fail (weak, per tab); the user may do nothing, or reload, forever. The other
client modules state safety only: what they promise is about quiet moments.

### What overlap breaks

`CurrentLogsIn` and `ImplementsContract` hold, and are proved, for executions that
do not overlap.
With two, an execution that stopped between `describe_secret` and
`update_secret_version_stage`, or before ALTER USER, may act after the rotation
ended: `finish_secret` then moves AWSCURRENT back to the version before, or
set_secret sets the password of AWSPREVIOUS. `Recoverable` is what remains, and
is why set_secret tries three versions.

### Findings

* `delivery_downtime`: the only database user gets its new password before the
  new secret is published, and pods learn it at the next refresh (1 h) and the
  rollout after it. Until then no pod can open a connection; README.md:94 asks
  for rotation without downtime.
* `tokens_replicas`: each of the two replicas writes back the token list of its
  own cache, so a sign-in through one deletes the refresh token stored through
  the other.
* `tokens_overlap`: a request that read the list of personal access tokens before
  a deletion writes the deleted token back.
* `cache_overlap`: a Set that overlaps a Delete and another Set of its key stores an
  entry nobody counts; from then on the cache keeps more than `MaxItems` entries.

### What the client gives up

The invariants of the client carry conditions (`mixed`, `stale`, `muddled`,
`overtaken`, `crossed`, `lost`): history variables no action's guard reads, set
exactly when the code does one of the following, which nothing in the repository
promises otherwise. They are worth knowing to whoever changes it.

Editor: text typed while a save runs is lost to `reset`, which also makes the
next memo private; a memo that failed to load (`useMemoInit.ts:54`) leaves an
empty editor whose save replaces it, and text typed while it loads is
overwritten; a comment's draft may come back when the timer of its debounce
fires after `index.tsx:79`, and a draft of one editor is dropped when another
types within the pause (`cacheService.ts:10`); Ctrl+Enter saves every editor
mounted (`useKeyboard.ts:17`); an update sends each field that differs from a
fresh copy, so fields changed elsewhere are put back; a failed save uploads its
files again; the memo's own query is not invalidated after an edit. An older
search may be shown (`useLinkMemo.ts:41`); the browser's position comes over a
picked one (`InsertMenu.tsx:84`), a geocoded name over the user's words
(`InsertMenu.tsx:68`); Enter picks a suggestion while an input method composes.

Settings: the drafts of the memo-related and the general section are not
refreshed and revert what another administrator saved (fields nobody edited
here included); the storage section drops edits when settings are fetched;
`WebhookSection.tsx:50` filters the list of its closure; the SSO dialog closes
when its call failed; `CreateShortcutDialog` creates also when it edits;
`AuthContext` does not see what `useUpdateUser` saved.

Pages: two quick filters can chase each other through the URL
(`MemoFilterContext.tsx:80`) before they settle; the explorer stays with an older
profile (`MainLayout.tsx:37`) and counts normal memos beside the archived ones;
the masonry timer hides memos until the next layout when columns were lost in
between (`useMasonryLayout.ts:45`); a second tick of a task drops the first if it
comes before its answer in a list (`TaskListItem.tsx:58`); a rollback drops a
change made since (`useMemoQueries.ts:112`); an archive's answer navigates after
the user left (`MemoActionMenu/hooks.ts:76`); `EditableTimestamp.tsx:79` saves a
date without its seconds on blur; pages loaded by offset repeat or skip items
after changes elsewhere; an archived message is still listed unread
(`MemoCommentMessage.tsx:78`); the tag scanners differ on `##a` and on tags of
more than 100 characters.

## Proofs

`CredentialRotationProofs` proves, for any set of versions, any number of
overlapping executions and any bound on faults, from `VersionAssumption` and
`FaultsAssumption` alone:

* `TypeCorrect`: `Spec => []TypeOK`;
* `AlwaysRecoverable`: `Spec => []Recoverable`;
* `AltersOnlyOwnAccount`: `Spec => []AltersOwnAccount`.

`Recoverable` is not inductive: a late ALTER USER could set any password its
execution serves, and `finish_secret` drops a label. The invariant `IInv` adds

* `LabelInv`: the labels name versions that were started and hold a value, and
  only the foreign version names another account;
* `AckInv`: a step Secrets Manager saw succeed left its effect. For setSecret of
  the version AWSPENDING the effect is `PasswordSet`: the password is AWSPENDING
  or AWSCURRENT. It need not be AWSPENDING, an overlapping execution may have set
  it back;
* `ExecInv`: an execution past the staging check serves AWSCURRENT, or AWSPENDING
  within a rotation and AWSPREVIOUS between rotations (`ServedVersions`). This is
  where the timeout comes in.

So ALTER USER sets a password that carries a label, and `finish_secret`, which
runs only after setSecret succeeded, leaves the password on the two versions it
labels AWSCURRENT and AWSPREVIOUS, whether it completes the rotation or undoes
it. Most steps touch only the record of one execution; `QuietStep` handles them,
and there is one lemma for each step that does more (start, put, alter, move,
return). TLC checked `IInv` as an invariant of `rotation_overlap` first.

For executions that do not overlap (`Serial`: there is one), where TLC shows that
overlapping ones break them, it proves what readers rely on:

* `SerialCurrentLogsIn`: `Serial => (Spec => []CurrentLogsIn)`;
* `SerialImplementsContract`: `Serial => (Spec => ImplementsContract)`.

`SerialInv` adds to `IInv` that an execution in the middle of a step serves the
rotation in progress (`ServesPending`: only its own finishSecret could have ended
it), and that AWSPENDING is the password once setSecret succeeded, reported or not
(`SetMeans`). The refinement goes step by step: `SetAlter` is ChangePassword of
the contract, or nothing when the password was set before, `FinishMove` is
Publish, and every other step leaves the contract's variables alone.

Of `RotationToPods`, for any pods and replicas and with `DeploymentAssumption`:

* `SerialDelivers`: `Serial => (SpecToPods => ImplementsDelivery)`;
* `ReloadsCurrent`: `Serial => (SpecToPods => []PodsReloadCurrent)`;
* `ClusterTyped`: `Serial => (SpecToPods => []ClusterTypeOK)`.

`SecretDelivery` lets a password change and be published in one step each; that the
function and the cluster together implement it, call by call, follows from the
contract (`StepContract`), and the rest is proved of `SecretDelivery` (`Chain`). A pod
keeps the template it was made from while AWSCURRENT moves on, so the property needs
the whole chain. `OnlyPublished` says that every password in the cluster was
published, so that a new AWSCURRENT is nowhere yet when it appears; `InOrder` says
that nothing behind the Secret is ahead of it: once a template or a pod names
AWSCURRENT, the Secret holds it and the operator is about to write nothing else.
`PodStep` reduces the steps of a pod to what they may make of it.

`TtlCacheProofs` proves, for any keys, goroutines, limit and clock, from
`CacheAssumption`:

* `TypeCorrect`: `Spec => []TypeOK`;
* `EvictsOldest`: `Spec => []OldestChosen`;
* `CounterExact`: `Spec => []CountExact`;
* `BoundKept`: `Spec => []BoundUnlessRaced`.

`OldestChosen` alone is not inductive, for two reasons: the next visit may leave
out a key only because the candidates are full, so `Scan` adds that all keys read
are candidates until there are `Threshold` of them; and a Range must start with
nothing read, so `ScanOf` follows the goroutine from the end of SetWithTTL through
the checks. `VisitScan` is the argument of the algorithm: the candidate replaced is
one that expires last, so whatever stays out expires no earlier than what stays in.
It does not depend on the map, which is why other goroutines cannot disturb it.

For the counter, `CountInv` says of a state that was not `raced` that the look at
the map each goroutine acts on is still right (`LookOf`: the key it will delete is
there, the one it will add is not), that `Drift` is zero, and that the entries
beyond `MaxItems` are no more than the goroutines in `Owing`, which have stored an
entry and have neither removed one since nor found the counter within the limit.
The bound needs the count to be exact: a goroutine stops evicting because of what
the counter says. `HandOfOne` and the lemmas after it count `InHand`.

`MCPagesProofs` proves of `InstanceForms`, for any administrators and bounds:

* `FormsTyped`: `Spec => []TypeOK`;
* `NothingRevertedHolds`: `Spec => []NothingReverted`;
* `EditsKeptHolds`: `Spec => EditsKept`;
* `FormsMove`: `PagesSpec => Spec`, so that these hold of a tab with its other parts.

`NothingReverted` reads a history variable that is set when a call is applied, so
the invariant must say something of drafts long before: in `IInv` every draft,
in a section, in the profile dialog or in a call on its way, is `Sound`: it
differs from the setting it was taken from only in fields marked as edited.
`EditSound`, `ProfileEditSound` and `RefreshSound` show that editing and each way
of taking over a new copy keep it so. `GeneralEdits` adds that the general
section edits no profile, which is why taking over the profile loses no edit;
that and `refreshedDraft` give the action property.

It also proves, of other parts of `MCPages` and for any items, messages and
bounds:

* `AccountKeeps`: `PagesSpec => []ElsewhereKept`;
* `ListsFollow`: `PagesSpec => []ListsSettle`;
* `FiltersFollow`: `PagesSpec => []FiltersSettle`, from `CalendarAssumption` (the
  last year shown is a number).

For the account, the form differs from the tab's copy of the user in `touched`
fields only, and the mask of an update on its way names no others (`AccountInv`).
For the inbox, no list, shown or being read, is ahead of the server
(`NoneAhead`), and what was asked is done or its request is on its way
(`AskedOrDone`). For a section, `ListsSettle` speaks of the end of its calls, and
the invariant of the states between, as long as they are `Orderly` (no call
failed and, but for members, no list was fetched next to a call): one list is
fetched at a time, and but for members while no call is sent (`OneList`); with no
call sent, a list that was read, or the one shown if none is fetched, is the
server's (`UpToDate`); and the sections that take a deleted row out themselves
have nothing else to catch up with (`RowOnly`), which for webhooks needs that the
list their handler closed over is still the one shown.

For the filters, both refs hold the filters of the last render, and those are the
ones of the location rendered or of the one the browser is to be at
(`FiltersInv`); `EffectsSync` follows the effects of a render, of which one
may navigate. For the explorer, the last call of getUser is for the page shown, and
once answered last its user is the one shown (`ExplorerInv`). The calendar needs
little of its state (`CalendarInv`): that it is right is arithmetic, for every year.
`Weeks` counts the days of the months before and after, `Months`, `Ends` and
`OneMonth` show that the months of a year divide it, and `Clicked` and `Clickable`
that what can be clicked in the year's calendar is each day with memos, in its
month.

`MCMemosProofs` proves, for any bounds, page size and tag length, from
`PagesAssumption` and `TagsAssumption`:

* `MemosFollow`: `PagesSpec => []MemosSettle`.

It has four parts, one for each component it speaks of.

A memo in the query cache (`CacheInv`). A list is, or will be, what the server
has: a call acted and its answer will have the list fetched, or it is being
fetched, or it is there; one that is not shown may first have to be fetched
(`CacheLists`). While calls on the memo's own page come one by one, its copy is
the server's, or the copy kept for a rollback is (`OwnCopy`). The last tick on
its way carries the tasks the user wants, and with none on its way the server has
them (`TasksWanted`); the memo's own copy has them all along (`OwnTasks`), which is
where a second tick takes its text from.

A list by page (`PagesInv`). The pages loaded, and those a fetch of all of them
has so far, are the first of what is stored, and the token is where the rest
starts (`StartOf`); a next page that was read is the one at that token.

Columns (`MasonryInv`). `Dealt` says that the first memos of a list are in the
columns, each once; `Distributes` shows it of `distributeItemsToColumns` for every
list and number of columns, since the shortest column is always one of them
(`Shortest`). `Covered`: what is shown is such a list, as long as the one there is.

Tags, for texts of any length. From any place on, the client's scanner yields a
segment for each tag after it and no other tag (`Scanned`), the server's a tag at
each hash that has a name (`ServerScanned`), and the texts between the client's tags,
which are visited again, have no more (`NoMore`).

Sequences and scans of any length need induction. The library's theorem takes the
property as an operator, which none of the provers can instantiate; `Least` takes a
least element from the order of the numbers (`WFMin`), and `Inducted` says of a
*set* with zero and successors that it has every number, which they can. A
recursive function is first shown to satisfy its equations (`FromIs`,
`ServerIs`, `DealerSolves`): functions up to each length exist, by
`Inducted`, and what `CHOOSE` picks is one of them.

`UserTokensProofs` proves, for any tokens, browsers, processes, overlapping
requests and faults, from `TokenAssumption`:

* `TokensTyped`: `Spec => []TypeOK`;
* `OnlyStoredAccepted`: `Spec => []AcceptedWasStored`;

and for one process and one request at a time (`Alone`), where TLC shows that
overlapping requests break them:

* `AddedIsKept`: `Spec => []NoTokenLost`;
* `RemovedIsGone`: `Spec => []RemovedStaysRemoved`.

The first two follow from `Good`, which says what a request has in hand at each
point: a list it read was stored, the list it will write is of issued ids, and a
refresh that went on was accepted. For the other two, `Kept` and `Gone` say where
a token has to be, or must not be, for the property to survive every later step:
in the row, in what is cached and in the list a request holds. `KeptStep` and
`GoneStep` show that they do survive, even among overlapping requests, as long as
they hold for all of them; it is at the end of an addition or a removal, where they
begin, that `Alone` is needed (`KeptBegins`, `GoneBegins`). A removed token is
outside the other list too, since the ids of the two lists are apart (`Apart`), and
nobody writes the row between an upsert and the refresh of the cache (`WroteRow`).

`ClientSessionProofs` proves, for any tabs, users and scenarios, from
`ScenariosAssumption` and `MaxTokensAssumption`:

* `SessionTyped`: `Spec => []TypeOK`;
* `SessionStays`: `Spec => []SessionKept`;
* `StaysSignedOut`: `Spec => []SignedOutStays`;
* `StateAcceptedOnce`: `Spec => []StateUsedOnce`;
* `ActsForShown`: `Spec => []ActsAsShown`.

`StepKinds` reduces the steps of a tab to a few shapes (a call moves, a refresh is
answered, a page is left, somebody signs out), and each invariant is shown for the
shapes. `SessionInv` adds to what is checked that the number of an answer under way
is nobody else's (`Undelivered`) and that a sign-out that met no refresh leaves
nothing to come back (`Nobody`). `OAuthInv` says that a stored state was never
accepted and one tab stores it. `UserInv` says for each phase of a tab's task which
of user, token, copy and call have to agree (`Knows`); it is weaker while the
context is asking whom the token is for.

`MCEditorProofs` proves of `MemoEditor`, for any bounds on what users do, from
`BoundsAssumption`:

* `EditorTyped`: `Spec => []TypeOK`;
* `SavesAsShown`: `Spec => SavedAsShown`;
* `PostsOnce`: `Spec => []CreatedOnce`;
* `AttachesOnce`: `Spec => []AttachedOnce`;
* `DraftsFollow`: `Spec => []DraftFollows`.

`StepShapes` reduces the steps to what they do to editors and saves. The types
need `Room`: saves that have yet to upload are few enough for their files' numbers
to be in range. `Copies`: a save that read the memo after the last write has it as
it is. `OnceInv`: the text an editor shows has a save only while the editor is
saving or closed, a text has one save, and a post belongs to a save that wrote.
`Apart` and `Traced`: each file belongs to one save, which took it to one memo, and
an editor that has loaded the last write shows all of the memo's files but those
removed in it. `Act`, `PendingIs` and `DraftIs`: an editor that waits for a save
shows it, the shared debounce holds the text of the editor it is for, and every
other editor has its text as its draft, or has just cleared it after its save.

It also proves, of the other parts of `client_editor` and for any bounds:

* `DialogsSettled`: `PartsSpec => []DialogsSettle`;
* `SavedIsShownAlways`: `PartsSpec => []SavedIsShown`;
* `SystemFollowed`: `PartsSpec => []FollowsSystem`.

For the dialogs, the last search under way is for the text in the dialog, or the
results are its own (`Searched`), and a placeholder the user did not write is the
last name there was (`LastNamed`). For the preferences, `Listening` says that the
listener is there when the setting is "system" and not when it is another theme;
`ShowsSaved`, that a tab whose calls did not overlap or fail has one call under
way, whose choice is applied already or is what the fetch will bring.

`MCTextProofs` proves, for any bounds (`PartsAssumption`, which says they are
numbers):

* `EnterAlwaysOne`: `PartsSpec => EnterDoesOneThing`;
* `EditorPartsTyped`: `PartsSpec => []PartsTypeOK`.

`EnterDoesOneThing` compares the words of the text before and after, in their
order: a fold (`FlattenSeq`) over the lines, of which `Settled` keeps the plain
words (`filtered`). Both are recursive functions on sequences of any length, so
their equations are shown first, and `KeptJoined` and `WordsAppend`, what they make
of two sequences put together, by `Inducted` as for the tags. With these,
`CutInTwo` gives that a line broken at the cursor has the words it had, and
`KeptWithout` that completing takes out a word that was not a plain one. `TextInv`,
which is inductive, adds to the types that a cursor joined to a word has one before
it. The types of the other parts follow from their own; the dialogs' need that what
was asked first is answered with a place that was asked for (`FirstAnswered`).

Only model-checked:

* `RotationCompletes`, `PodsReconnect`, `CloseReturns`, `LoadsEventually`: liveness
  under fairness;
* `PartsTypeOK` of `client_pages`: some of its ranges (the page offsets and the
  counters of the lists) are those of the bounds in `MCPages.cfg` and are not meant
  for every value of the constants. The invariants the theorems rest on state the
  types they need themselves.

## Not modelled

* The schema migrator, the instance's secret key, the creation of the first user,
  the cascades of the memo service and the presign runner: server code whose
  hazards are listed in `PROJECT.json` at their lines. The migrator's depend on
  the SQL of each file; the others are single check-then-act or read-then-write
  windows of the kind `UserTokens` has.
* Scheduler and cron: libraries no code of the server imports.
* Server-side handlers behind the client: the client modules have what the server
  stores, accepts and refuses as environment.
* Rendering (markdown, maps, image preview, UI kit, translations), parsing
  (filter expressions, RSS), the file server, identity providers: transformations
  of data without interleavings of their own. The proto types are generated.
* Terraform and CI: declarative configuration.
