# Verification of apcore-toolkit-rust

TLA+ modules that model the toolkit's stateful and decision-making code, TLC
configurations that check them on small instances, and TLAPS proofs of the
results that matter most. Source paths below are relative to `src/src/`.

## The system

The toolkit has two halves. `auth/` obtains and keeps an OAuth credential:
configuration and endpoint discovery, a device login (RFC 8628) run as a poll
loop, a client that caches, persists and refreshes what the login returned, and
a credentials file shared by processes. The rest turns descriptions of an API
(an OpenAPI document, binding files, a framework's own scanner) into a list of
modules, completes and renames them, and writes them out (YAML, Rust stubs, a
registry, an HTTP proxy, tables and text).

| Component | State it keeps | Operations | Hard behaviour | What makes it correct |
|---|---|---|---|---|
| Device grant, `auth/grant.rs` | clock, deadline, interval, polls, request in flight | `run`, `request_device_code`, `poll` | callbacks and hooks take time, answers race the deadline, lost answers, `slow_down` | polls are spaced and paced; the countdown shown is the one kept; the verdict is the server's; it ends |
| Dispatch, `auth/parse.rs`, `auth/grant.rs` | none | `read_field`, `classify`, `dispatch` | three layers of aliasing and a hook | every dialect is read as meant |
| Credential client, `auth/client.rs`, `auth/token.rs` | cache; the record in the store | `login`, `ensure_valid`, `refresh`, `forget`, `logout`, header factories | awaits between load, exchange, save and cache; token rotation; crashes | the store never strands a spent refresh token; the cache serves only what was persisted |
| Credentials file, `auth/store.rs` | the JSON document, temporary files | `load`, `save`, `clear` | several processes and threads, process death, power loss, failed writes | a reader sees a whole document; the file is one atomically replaced document |
| Configuration and discovery, `auth/config.rs` | the configuration | `validate`, `discover_with`, `merge_metadata`, `store_key` | candidates that fail in different ways; documents that name somebody else, or change | no request goes where neither the caller nor the issuer sends it; a record is found again |
| Requests and encoding, `auth/request.rs`, `auth/encoding.rs`, `auth/parse.rs` | none | `prepare_request`, parameter builders, form and base64 encoding, body decoding | order of defaults, extras, client authentication and hook | the server reads what was meant, and the secret travels one way only |
| Transport, `auth/transport.rs` | HTTP client | `post`, `get` | timeouts | the environment of the three above |
| HTTP proxy writer, `output/http_proxy_writer.rs` | the request in flight; the registry | `write`, `execute`, `execute_cancellable` | cancellation, response and tick ready together; placeholders, percent-encoding | cancellation wins and drops the request; a call is a request to the operation that was scanned |
| Registry writer, `output/registry_writer.rs` | the registry | `write` | one module fails, the others go on; handlers and streams | results tell what is registered; the allow-list holds |
| YAML writer, `output/yaml_writer.rs` | the output directory | `write` | names that collide, an I/O error mid-batch, process death, power loss | no module overwrites another; a file is whole or absent; a result verified is a file that a loose load takes |
| Rust writer, `output/rust_writer.rs` | the output directory | `write` | ids that fall on one path, a write that fails | what a result names holds that module |
| Verifiers, `output/verifiers.rs` | none | `run_verifier_chain` | a verifier panics | stops at the first failure; what it passes a loose load takes |
| Binding loader, `binding_loader.rs` | none | `load`, `load_with_pattern`, `match_binding_pattern` | one bad file in a directory, links and nested directories, a writer at work in it | all or nothing |
| Display resolver, `display/resolver.rs` | none | `resolve` | several layers of precedence, sanitised aliases | a surface says what its binding says; the names are usable |
| Scanner helpers, `scanner.rs` | none | `deduplicate_ids`, `filter_modules` | invented suffixes collide with ids to come | ids are distinct, the first keeps its own |
| OpenAPI scanner, `openapi_scanner.rs`, `openapi.rs`, `http_verb_map.rs` | none | `scan`, `deep_resolve_refs`, id and alias derivation | hooks; cyclic references; names nothing is left of | ids are distinct, schemas say what their references say |
| AI enhancer, `ai_enhancer.rs` | none | `enhance` | a model that fails, is unsure or answers garbage | nobody's words are overwritten; a failure stays with its module |
| Target resolution, `resolve_target.rs` | none | `resolve_target` | another parser of the same string | the allow-list judges what is resolved |
| Formatting and view models, `formatting/`, `tui_view_model.rs` | none | `modules_to_view_model`, `format_module(s)`, `format_schema`, `to_markdown`, `format_csv`, `format_jsonl` | escaping, truncation, grouping, filters | a reader finds what was put in, at its module |

Interactions: the client calls the grant (`login`), the transport and the store;
the grant calls the transport, the clock and sleep seams, the hooks and the
consumer's callbacks; several clients, in one process or in several, share one
store. Scanners hand a list of modules to the enhancer, the display resolver and
the writers, each of which takes it by value: between them nothing runs
concurrently. Writers, loaders and registries of different processes meet in one
directory. The HTTP proxy writer takes the client's header factory.

## Modules

    DeviceLogin        what a device login promises (abstract)
      ^ refined by
    DevicePoll         one run of the grant, beside its server
      extends Dispatch how a response is read and what it makes the loop do
    DevicePollProofs   theorems about DevicePoll

    TokenClient        the credential's life: calls, clients, store, cache, server
    TokenClientProofs  theorems about TokenClient
    AtomicDocument     one document, replaced atomically (abstract)
      ^ refined by
    FileStore          the credentials file: inodes, names, descriptors, syncs
    FileStoreProofs    theorems about FileStore

    Discovery          from a configuration to the requests of a client
      extends Requests what a request carries, and where from
        extends Encoding  bytes: forms, base64, bodies
    DiscoveryProofs    theorems about Discovery; extends TextLemmas

    HttpProxy          one proxy call: request, cancellation, timers
    HttpProxyProofs    theorems about HttpProxy

    BindingSet         a directory of documents that appear whole (abstract)
      ^ refined by
    YamlWriter         a batch written to a directory, with its failures
      extends Bindings names, documents, verdicts: what the writer and the loader share
    Loading            extends YamlWriter: another process reads the directory
    Targets            extends Bindings: allow-lists, and what a target resolves to
    Deployment         Loading and Targets, and the registry writer
    DeploymentProofs   theorems about Deployment, YamlWriter, Loading and Targets
      extends TextLemmas texts cut and joined, numerals, orders, folds, recursion

    Catalogue          the list of modules, and the stage it is at
    Names, References  ids and aliases out of texts; schemas that refer to one another
    Scanner            extends Names: what every scan goes through
    OpenApiScan        extends Scanner, References: what is made of an operation
    ProxyWriter        extends OpenApiScan: the request a module and its inputs make
    Enhance, Display, RustWriter   one stage each, over the list
    Stages             the three of them, in any order
    StageProofs        theorems about Scanner, Stages, ViewModel and Csv; extends TextLemmas
    ViewModel, Surface             a table, a text of the list
    Csv, Tabular, Markdown         CSV, JSON and Markdown out of data, and read back
    Toolchain          all of these composed; and a caller's own data formatted

    MC*                the instances TLC checks

### Dispatch and DevicePoll

`Dispatch` is pure: a decoded body is a function from wire names to values, a
body neither decoder accepts is `None`, and a field whose value the reader does
not take is present with value `None` (so that it still hides the later
spellings, as `find_map` over the names does). `ReadField`, `Classify`,
`NextInterval` and `DispatchResponse` follow `read_field`, `classify`,
`next_interval_from` and `dispatch`. The hook is a constant operator, the
aliases constant functions.

`DevicePoll` has one action per stretch of code between two places where time
can pass: an await, a callback, a hook. `Authorized` fixes the deadline, before
`on_user_code`; `EnterPoll` is its return; `GoToSleep`, `WakeUp`, `Send`,
`Receive` and `Dispatched` are one turn of the loop; `GiveUp` is each of the
checks of the clock. `Tick` may come between any two of them. The server is
the environment: it decides (`Decide`), answers as it decided or with garbage,
slows any poll down, and the network fails before or after it has answered.
A transport future ready at the very instant of the deadline is dropped by the
code, and here: `Receive` needs `Elapsed < deadline`, read after it.

What the server meant by a response is the constant `Dialect`; the responses
are any that say so. `demand` is the server's own rate limiter, which moves
with each `slow_down` it sends whether or not the answer arrives. `since`,
`promised` and `missed` are history variables the properties speak of.

### TokenClient

Each await of a call and each lock of the cache is a step: `Load`, the exchange
(`Exchange`, then the server's `Grant` or `Refuse`, or `Lose`), `Receive`,
`Save`, `Cache`; `Clear`, `Uncache`. Refresh tokens are numbers, and the server
keeps the set it still accepts: a refresh with rotation replaces one, a server
that does not rotate leaves it out of the answer. A store operation is one
step; `FileStore` justifies that for one process and shows where it stops being
true. `abandoned` collects the refresh tokens that died and whose successor no
call is going to store (a crash, a failed save, a lost answer, a withdrawal),
which is what the code cannot help; `persisted` collects what the store held.
What the header factories hand out (`AuthHeaders`, `AuthHeaderFactory`) is read
off the cache by the properties.

### FileStore

Files are inodes with a content that is blank, torn or a whole document. A
descriptor keeps its inode when the name moves, `rename` goes by name, `open`
truncates what the name holds. A write may stop half-way (the directory may not
be made, too), a process may die at any step, and at a power loss every file
that was not synced is damaged and renames the directory had not settled may be
undone.

### Discovery, Requests and Encoding

A URL is `[scheme, host, path]`, the parts the code tells apart: the scheme and
host `is_secure_endpoint` and `origin_of` cut out, and the segments of the path
discovery appends to. A program is launched, discovers or not, builds a client
and sends requests of every kind; then it quits and another configuration is
launched over the same store, while the server's documents may have changed.
`Ask` is one candidate of `discover_with`: an answer that cannot be used, that
names another issuer or that fails the request moves on or stops as in the code;
`Merged` is `merge_metadata`. `Requests` is the order in which parameters,
extras, the client's authentication and the `transform_request` hook (a constant
operator) are laid over one another. `Encoding` is what bytes they become and,
separately, how a server reads a form and Basic credentials: `Authenticated`
compares what the server reads with what the configuration says. When to poll
and what races there are is in the modules above; here an answer stores, keeps
or clears a record.

### HttpProxy and ProxyWriter

A call is one task and what may wake it. A poll of the task is a run of actions
from `"check"` (from `"inner"`, when the Context has no token) until it is
parked or has ended: the token is looked at (`CheckFirst`), the request future
is polled (`Prepare`, `Vet`, `Send` on the first poll, `PollRequest` later),
its result waits for one more look at the token (`Recheck`), or the polling
timer is polled and, when due, reset (`PollTick`). `Cancel` may come between any
two of these and wakes nobody, since a core token has no waker: only the timer
brings the task back. Time passes while the task is parked with nothing due, and
while the synchronous auth factory works; that is, the executor polls a woken
task at once, which is what `CancelPrompt` presupposes. The client's timeout
counts from `Send` and spans the body. In this module path placeholders are a
set of names, and so are the inputs; inputs that are not an object (`None`)
forward nothing, as in the code. tokio's rounding of timers is left out.

`ProxyWriter` has the other half, without time: `new`, `write` (which modules
get a proxy, and the registry that may hold an id already) and the very path,
query and body that a module's metadata and its inputs make, with the two
placeholder syntaxes, their substitution and percent-encoding. The path is then
what reqwest makes of the URL it is put into (`RequestedPath`, external): a
segment `.` is dropped and `..` takes the one before it along. As values are
encoded byte by byte but for unreserved characters, no other part of the parsing
touches them. `CallsReachOperations` reads the request back as a server would,
and says that it reaches its operation just when no path parameter is `.` or `..`.
`base_url` is left out, and what `..` would do to a path of its own.

### Bindings, YamlWriter, Loading, Targets and Deployment

`Bindings` is pure: the document a module becomes (`build_binding`), the name of
its file (`SanitizeFilename`, and the choice of one this batch has not used,
with a suffix where it must), what the verifiers make of a file, and what the
loader rejects, loosely and strictly, and makes of the rest. Texts whose
characters matter are sequences of one-character strings, and a file name stands
for itself and `.binding.yaml`.

`YamlWriter` is `write`, a step for every system call that can fail: `CreateDir`,
`Claim` (which refuses a symlink), `CreateTemp`, `WriteTemp`, `SyncTemp`,
`Rename`, `SyncDir`, `Verify`; the failure of any step up to the rename leads to
`RemoveTemp` and ends the batch with an error. `Crash` stops the process anywhere.
At a `PowerLoss` each name shows its current content or the one the directory
had on disk, and what was not synced is damaged. `vouched` and `excused` are
history variables: which names hold what the verifiers passed, and which
temporary files were left by a failed removal or a death. One batch is written
at a time: two at once would share a temporary name.

`Loading` is `load_with_pattern` in another process. The directory is walked one
entry at a time (`Visit`: the pattern, recursion, which never enters a linked
directory, the cap on nesting, and whether there is a file at the path at that
moment), the list is sorted and counted (`Sort`), and then one file at a time is
read, each of which may hold what the writer has just put there. The writer, its
death and a power failure come between any two of these, so that the list may
be of no one moment. Which entries the operating system returns is what POSIX
says of `readdir`: a name that is there throughout once, one that comes or goes
meanwhile or not, in any order; that a name whose file is replaced by a rename
counts as there throughout is an assumption on the file system. `looked` keeps the
files there throughout the listing and those there at some time of it, of which
`LoadComplete` speaks: nothing of the first may be left out, nothing outside the
second taken. Any failure fails the whole load.

`match_binding_pattern` is modelled with its two cursors, and `Fits` is the reference it is compared with: over all short patterns and names by an
assumption of `MCDeployment`, and over all there are by a theorem. Names are
spelled in `Alphabet`, which gives characters the order of their codes.

`Targets` is the allow-list of the registry writer and `resolve_target`, two
readings of the same string. `Deployment` adds the registry writer: `WriteNext`
for each module loaded, with its dry run, handler and stream factories, the
streaming flag that is cleared when there is no stream, the check of what
apcore's registry holds afterwards and the custom verifiers. The registry is
apcore's: it refuses an id it holds, and may refuse a module on its own account.

### Toolchain and what it composes

`Catalogue` is the list of modules and the stage it is at. A scan comes first;
then `enhance`, `resolve` and the Rust writer's `write`, each at most once and in
any order; at last proxies, a table or a text. The program ends there, or where
a stage has failed.

- `Names` is what is made of texts: `normalize_module_id`, `derive_module_id`,
  the legality check, `generate_suggested_alias`, `sanitize_mcp_alias`.
- `Scanner` is what every scan goes through: the frame of `scan`, with its check
  of the version, its walk over the operations, `filter_modules`, and a warning for
  each id that is not a legal one; and `deduplicate_ids`, one module per step. What
  digits a number has is a constant operator. `ScanModule` takes whatever module an
  operation is made into, and puts it on the list with its id normalised.
- `References` is JSON schemas as objects, arrays, references and scalars:
  `resolve_ref`, `resolve_schema`, `deep_resolve_refs` with its depth, and the
  input and output schemas. `Conveys` is the reference definition: keyword by
  keyword, what a schema says with its references followed.
- `OpenApiScan` is what `scan` makes of an operation, with the three hooks of
  `ScanOptions` as constant operators: `ScanOperation` is `ScanModule` of that.
- `Enhance` is the enhancer's configuration, the gaps of a module, what the
  prompt asks for, the call, the fences and the JSON of the answer, the
  confidences (in tenths), clamping and escape sequences, and the merge.
  `RepliesTo` is the set of answers a model may give. The history keeps what
  each module said before.
- `Display` is `resolve`: per surface, which source names and describes a
  module, and what aliases are refused, replaced or sanitised.
- `RustWriter` is `write`, one stub per step, any of which may fail. A stub's
  text is the module it stands for.
- `ViewModel`, `Surface`, `Csv`, `Tabular` and `Markdown` are what is
  shown: which rows, order, groups, cells and fields; the blocks of each style;
  escaping, truncation and depth. Each of the last three comes with a reading of
  what was written, by RFC 4180 or as Markdown is read. What stands in a cell is
  a constant of `Csv`, which `Tabular` fills with `csv_cell`: the writing of JSON
  is recursive, and `Csv` is to be proved about.

## Runs

| Run | Question | Bounds |
|---|---|---|
| `device_poll` | Is one login paced, spaced, honest, and does it end, and implement `DeviceLogin`? | second of 2 ticks, so that deadlines fall inside a second; two answers, so that a lost or garbled one meets a second poll; time to twice the longest lifetime it must outlast; clock starting at 0 or 1 |
| `token_client` | Do store and cache stay sound when two processes race? | two clients, one call each, any sequence of operations, three issued tokens: one to store, two to race for; no time passes, and `refresh` exchanges an unexpired token all the same |
| `token_client_alone` | Is a client alone exact between calls, and does every call return? | time to 3 with lifetimes inside the skew, outside it and none |
| `token_client_race` | Is only a spent credential discarded? (no, with two calls) | as `token_client` |
| `token_client_skew` | Is what `ensure_valid` returns valid for the skew? (no) | one client |
| `file_store` | Do the files implement `AtomicDocument`, through deaths, failed writes and power losses? | two processes, one key, two values, four inodes: target, its settled predecessor, two temporaries |
| `file_store_threads` | Does a reader see a whole document when two threads of one process write? (no) | as above, one process |
| `http_proxy` | Is cancellation prompt, does it win and precede sending, does a call end? | every distribution of two names over placeholders and inputs; a method with a body, one without, one unsupported; a timer period of 2 and a timeout of 5, so that the timer re-arms twice before the timeout and the two fall at different instants; the factory may take one unit |
| `deployment` | Are reports true, is what was verified loadable, is a load complete, are registrations true and allowed, and does the directory behave as `BindingSet`? | one batch, one load; batches whose ids fall on one name; directories as an earlier batch, a crash, a link or a person left them, with nested directories, links to a directory and to nothing; a recursive strict load of all bindings, a flat one of a pattern that matches temporary files too, one of a single file; as many files as the cap, fewer and more |
| `discovery` | Do requests go where they may, carry what the server reads as the client, and does each client find its own records? | launches without a bound over a store of two issuers; candidates that fail, cannot be used, name another issuer, or speak for this one; URLs secure and not, on the issuer's origin and off it; values with bytes that must be encoded |
| `toolchain` | Twelve properties of what each stage makes of the list, of what the others left | four documents, two framework batches, six sets of scan options, each stage at most once, in any order |
| `toolchain_siblings` | Does what stands beside a reference stay? (no, at the top of a parameter) | as `toolchain`, one document |

`toolchain` asks, by stage: `IdsDistinct`, `NamesKept` and `IllegalIdsWarned` of
`Scanner`, `RefsFollowed` of `OpenApiScan`, `AuthoredKept` of
`Enhance` (what somebody wrote is never replaced by a model's words),
`ToolNamesUsable` of `Display`, `FilesHoldTheirModule` of `RustWriter`,
`CallsReachOperations` of `ProxyWriter` (the request a call makes is one to the
operation scanned, with every input in it once, unless a path parameter is a dot
segment; the inputs have reserved characters, dot segments, texts that only look
like them and empty ones, in a segment between others and in the last),
`RowsGrouped` of `ViewModel`,
`ListingTrue` of `Surface` (what is printed of a module is the module's, and no
parameter's line stands under another), `TablesReadBack` of `Tabular` and
`MarkdownShowsAll` of `Markdown` (an object whose nested objects come last reads
back in the shape it has just when no heading would be below the sixth level; the
data nest up to eight objects, some with their last headings on that level, some
with values in the place of headings, some with headings past it).

The bounds cap what is counted and nothing else: past its cap a counter's action
is disabled. `MaxElapsed`, `MaxAnswered`, `MaxTime`, `MaxIssued` and `MaxFactory`
are of this kind; so are `MaxBatches = 1` and `MaxLoads = 1` of `deployment`: a
second batch multiplies the states beyond use, and what it would meet, a
directory that an earlier batch has left, with names of its own and a torn
temporary file, is among the initial ones. `MaxSuffix = 6` bounds the numbers
`deduplicate_ids` tries, beyond what the batches need.

Other constants are limits of the code, lowered so that they are reached:
`MaxDepth = 3` (16 in `openapi.rs`: a cyclic schema doubles with each level, and
3 has a reference beneath a keyword beneath a reference), `MaxAlias = 16` (64),
`MaxFiles = 2` and `MaxNesting = 2` of the loader, `MaxPathLength = 8` (512),
`MaxShownDepth = 2` (3), `MaxExact = 8` (2^53), `MaxWhole = 6` (10^15),
`MaxDepthHardCap = 7` (32; headings stop at the sixth level, which objects in
objects reach below it), `Longest = 30` and `LongestWithin = 12` of Markdown's
cells, `DescriptionLimit = 8` and `DocumentationLimit = 12` of the enhancer.
`MaxDuration` stands for the largest `Duration`. In `FileStore` the inodes are
symmetric: no action prefers one, they are model values, and no property names
one. No temporal property with fairness is checked under symmetry.

Pure parts with an inverse or a reference are compared over bounded inputs by
assumptions: `MatchBindingPattern` over all patterns of four characters and
names of four (`MCDeployment`), the encoding of forms and the decoding of bodies
(`FormsAreRead`, `BodiesAreTold` of `MCDiscovery`).

Deadlock is checked in every run but the two of `Toolchain`, whose program ends
when it has put its modules out or a stage has failed. A finished login and a
finished proxy call stutter (`Ended`); in the other models there is always a
call to start, a program to launch or a power failure to come.

The type invariants of `DevicePoll`, `HttpProxy` and `Discovery` are proved
rather than checked. `DocumentWhole` is a consequence of `ImplementsPromise`
in `file_store`, and stands by itself in the run that violates it.

### Fairness

`DevicePoll`: the clock advances (`WF(Tick)`) and the executor polls the task
when its sleep, its response or its watchdog is due (`WF(LoopStep)`). The
server and the network owe nothing, so `Terminates` is the loop's own doing: it
rests on the watchdog timer beside each request, and on the deadline checks.

`TokenClient`: a call under way proceeds (`WF(CallStep(c))`): a store operation
returns, and a request is answered or the HTTP client's timeout fires. Crashes,
starts and time are not fair.

`HttpProxy`: the task, when it is woken (`WF(TaskStep)`), the polling timer, the
client's timeout and the clock. The server and the network owe nothing, and
nobody need cancel: `CallEnds` is the work of the client's timeout.

The other modules are checked for safety only: their calls are loops over a
finite list, and what could keep them from ending (a cycle of references) shows
as a wrong result at the limit that cuts it.

## Proofs

`DevicePollProofs` proves, for every value of the constants that satisfies
`ScaleAssumption` (a second is a positive number of ticks, the RFC constants
are naturals), `PollAssumption` (bounds and defaults are naturals, timeouts are
integers, `None` is none of the responses or verdicts) and `WireAssumption` (an
`interval` or `expires_in` that is present and readable is an integer, which is
what `read_i64` returns):

- `TypeCorrect`: the type invariant, with `ReplyInHand` as its strengthening (a
  response is there exactly where it is dispatched on).
- `PollsAreSpaced` and `CountdownIsHonoured`, from the inductive invariant
  `LoopInv`. `PollSpacing` speaks of the moment of sending; what carries it
  there is `TimingInv`: a sleep ends at least an interval after the last answer
  *or* at the deadline, and a poll is prepared only in the first case.
  `CountdownInv` ties the whole seconds shown to the ticks kept.
- `OutcomeIsHonest`, `TokenIsNotDiscarded` and `PaceIsHonoured`, from
  `ProviderInv`, with `DialectUnderstood` as their hypothesis: it is a
  statement about the configuration, which no proof can give for every
  provider, and `device_poll` checks it of every response of one
  (`RepliesUnderstood`). `PaceInv` needs the case of a
  backoff in hand and not yet applied, and the monotonicity of `NextInterval`.
- `GrantImplementsLogin`: the grant refines the abstract login.

`HttpProxyProofs` proves, for every value of the constants that satisfies
`ProxyAssumption` (period and timeout are positive, the factory's bound is a
natural) and `NoneAssumption` (`None` is no result and no status), with no
assumption on the methods, the names or the server:

- `TypeCorrect`, which includes that a result is held exactly where the token is
  looked at once more, and that the timer lies at most one period ahead.
- `CancellationWins` and `CancelledIsNotSent`. A request is sent only where the
  token was just looked at, or there is none; between the factory's return and
  that look nothing else runs on the task, but another thread may still cancel.
  `SendInv` says what is so at each such place.
- `CancelIsPrompt`, from `ArmedInv`: a parked task with a token has an armed
  timer or is woken, and the timer is due within a period of the cancellation,
  so that the clock cannot pass it. What puts the timer there is `FreshCancel`:
  past a look at the token that found nothing, a cancellation that has come since
  is of this very instant, because the task does not let time pass before it parks.
- `InputsAreForwarded`: the request sent partitions the inputs. The runs check
  the same of very requests (`CallsReachOperations`).

`DiscoveryProofs` proves, from `DiscoveryAssumption` (the shapes of URLs,
configurations and answers), the first two for every hook:

- `RequestsGoWhereTheyMay`. `TargetsTrusted` is about a request; what carries it
  there is the history of an endpoint: `EndpointSource` (an endpoint in hand is
  the caller's, or one declared by an answer that speaks for the issuer, with a
  warning when it is off the issuer's origin), `BuiltSecure` (a client is built
  only over checked endpoints), `AskingFresh` and `OnlyMetadata` (until then
  nothing has changed, and nothing but metadata was requested), and the lemma
  `CandidatesOnOrigin`.
- `ClientsFindTheirRecords`, from `KeysAreOwners`: a key in use is the identity
  its owner knows. It needs `NothingDiscovered`: without an issuer the key is
  the token endpoint, which discovery must not have filled in.
- `ServerReadsTheClient`, for hooks that leave the parameters and the
  `Authorization` header as they are (`HookKeepsCredentials`; a hook may do
  anything, and one that drops the client's id does), from `ParamsAssumption` (texts
  are sequences of bytes, and no two names of parameters have the same). Its
  inductive part is short: `SentIsPrepared` and `BuiltHasSecret` say that a
  client's request was made by `PrepareRequest` from a configuration that passed
  `validate`. The rest is about bytes. A text is decoded to what it was before it
  was encoded (`EncodedIsDecoded`, by induction over the text: an escape is read
  whole and none begins within another) and holds none of `&`, `=` and `:`; so a
  form is cut at its own separators and nowhere else (`FormsAreReadBack`), and so
  is a Basic header (`CutOnce`). `Base64IsRead` reads a text back three bytes at a
  time; `Sextets` and `Triples` are its arithmetic.

`StageProofs` proves, of `deduplicate_ids` alone (`DedupSpec`), from
`DedupAssumption` (batches are lists of modules; a number is digits), for every list
and whatever digits a number has, `NoTwoModulesShareAnId` and `NoNameIsLost`. The strengthening
is `BookkeepingOK`: the ids given out are exactly those of the list, what is
still to come is among the originals, and an original nobody has come for yet
is not given out, which is why a first module always finds its own id free.

It proves of `StagesSpec`, where enhancer, resolver and writer come in any order
over any list of modules, from `DisplayAssumption` (bindings are of names that
are texts):

- `AuthorsWordStands`, from `AuthorsKept`: at every moment of an enhancement, and
  after it, each module is `Kept` beside what its author wrote. The enhancer is
  the only stage that touches what the property compares (`KeptShown`), and it is
  asked of each module once; `FilledKeeps` follows one answer through the merge,
  for every answer, also one with escape sequences, or with confidences for what was
  not asked.
- `EveryToolHasAName`, from `NamesShown`: what a module shows stays usable when
  gaps are filled after the names are given, because the enhancer adds to the
  metadata and leaves `display` there (`MetadataPut`). `Mended` says what
  `sanitize_mcp_alias` makes of every text that its character class can mend, and
  `RefusedUnmendable` that a refusal is for one it cannot.
- `StubsAreTheirModules`, from `StubsHold`, whose hypothesis is that the ids are
  distinct at first, as `NoTwoModulesShareAnId` leaves them. `PathsDiffer`: ids without
  empty segments have different paths, since the path has just their segments
  (`PathIsParts`) and those determine the id (`SplitInjective`).

All three rest on `ModulesKept`: the list has the modules it had, in their places.

It proves of `PipelineSpec`, a scan with the stages in any order after it:

- `IllegalIdsAreNamed`, whatever module an operation is made into, as long as it
  has an id that is a text, and warnings (`IsScanned`). References, which are
  resolved by recursion, are thereby outside: `OpenApiScan` only chooses the
  modules. `PipelineInv` says that ids are spelled in the characters
  `normalize_module_id` leaves from the first module found to the last stage,
  that what is to be warned of has been when the scan ends, and, because the
  enhancer builds its list anew, that the list it was given has the same ids and
  warnings enough. `NormalizedIs` says what normalising leaves of any text,
  `SuffixedSpelled` that a number appended is spelled so too, `AllAreWarned` that
  the last pass of a scan misses no id, one that was just renamed included, and
  `FilledAdds` that filling gaps takes away no warning.
- `IdsStayDistinct`, from the same invariant: neither the frame of a scan nor a
  stage undoes what `deduplicate_ids` did.

And of `TableSpec`, where a table of any list of modules is asked for with any
options, from `ViewAssumption` (characters have codes of their own; columns and
palettes are lists), `ReaderFindsRows`. The modules are any whose texts are made of
characters that have a code (`IsShowable`). A table is sorted by rank:
`RowsOrdered` says that keys, forwards or backwards, with the place for a tie,
put the rows in a row, and `RankedIs` that a finite set so ordered is listed whole,
each member once. `GroupsAre` follows the labels, with their repetitions, into the
groups, and `RowsSay` and `ColumnHas` what is written back to what a reader finds,
fields that are left out included.

Of `Csv` it proves `CsvIsReadBack`, for rows with whatever keys and whatever texts in
their cells, of which one has a key: a reader by RFC 4180 finds a line with each
key once, and in each line after it the cells as they were put in. A reader is
followed character by character (`ReadOn`: a text after another is read on from
where the first left it): `QuotedRead` and `PlainRead` are the two ways a cell is
written, `JoinRead` and `LineRead` go by induction over the cells and `TableRead`
over the lines. Without any key the code writes empty lines, which read back as
one empty cell each. Of rows of JSON values it is the CSV half of `TablesReadBack`.

`TokenClientProofs` proves, from `ClientAssumption` (times are integers, bounds
are naturals, `None` is neither, each call has a client), for any number of
clients and calls, with every crash, lost answer and failing store:

- `TypeCorrect`.
- `StoreIsNotStranded`. The property is not inductive: when a call saves the
  answer it holds, the refresh token in it must not have been replaced already.
  `AnswersUnseen` says why: an answer on its way to the store is live or
  abandoned, differs from what the store holds and from what any other call
  carries or presents, so that nobody else can have exchanged it. Most of the
  steps neither store nor receive an answer; `Quiet` says what such a step may
  do, one lemma shows that it keeps the invariant, and another that they are so.
- `CachedIsPersisted`, from `RecordsKept`: what a call is about to put in the
  cache has been in the store.
- `AloneDiscardsOnlySpent` and `AloneCacheIsFresh`, with `Alone` (there is one
  call at a time) as hypothesis, from `InStep`: what the call has read is still
  what the store holds at each place that relies on it. Both are false of two
  calls, which `token_client_race` shows of the first.

`FileStoreProofs` proves, from `StoreAssumption` (`None` is no key, value, inode,
thread or document) and with `OneThreadPerProcess` as hypothesis:

- `DocumentIsWhole`: what is found under the name is complete, through deaths of
  processes, failed writes and losses of power, at every moment. The run
  `file_store_threads` refutes it without the hypothesis.
- `FilesImplementPromise`: every step of the files is a step of `AtomicDocument`
  or none of its business.

The invariant is `FileInv`. `TempsApart` (a temporary name holds a file that no
other name holds) is where the hypothesis is used: a descriptor follows its
file, so another's `open` could truncate it, or its rename publish it.
`TargetsSafe` covers the settled file as well as the one shown, since a power
failure may bring it back.

`DeploymentProofs` proves, from `BindingsAssumption`, `WriterAssumption` (batches
are of modules, what stands in a directory at first is on disk),
`LoadingAssumption` (directories are finite, what the loader may find has
entries in a list and targets that are texts, names are spelled in the
alphabet) and `RegistryAssumption` (prefixes are texts), for all batches,
modules, directories, failures and registry writers:

- `NoTempIsStale` and `VouchedIsLoadable`, from `WriterInvariant`. The second is
  about both kinds of load: a loose one takes every file the built-in verifier has
  passed, a strict one all but those with a schema that is no object
  (`DocumentTaken`). `WorkInHand` says how far the steps of one module have come;
  `TempsAccounted` where a
  temporary file may be; `FilesSynced` that whatever a binding name shows is on
  disk, or has been, without which a power failure could damage what was
  verified.
- `ReportsAreTrue`. `ResultsKept` adds that no name reported is the one at hand,
  which rests on `FreeNameIsFree`: among one more number than there are names
  taken, one is free. That needs `NumeralsDiffer` (distinct numbers are written
  differently), by infinite descent over quotients by ten. `RoundTrip` is the
  other half: the loader makes of `build_binding`'s document the module it came
  from, field by field.
- `DirectoryImplementsPromise`: the refinement of `BindingSet`.
- `RegistryHoldsTheReported`, from `ReportsKept` (the registry holds just what
  `to_module` makes of the module) and `FilesListed`. Its hypothesis
  `FactoryHasNoEcho` only keeps the factory from handing out the very handler
  that stands for none; the property could not tell the two apart.
- `RegistryHonoursAllowList`. The code compares texts, the property components.
  `PrefixByComponents` says that the two agree: a target begins with a prefix
  and a dot, or is it, exactly when its components begin with the prefix's. The
  lemmas about `Split` before it say that a text is the joining of its parts, and
  that what begins one text and ends at a separator begins its parts.
- `MatcherFindsEveryFit`: `MatchBindingPattern` is `Fits`, for every pattern and
  every name. The matcher backtracks to its last star only. `Kept` is the
  invariant of its cursors (since that star one character was taken for each of
  the pattern), `Right` what `match` is to return there: the rest fits from here,
  or it does when the last star takes more. That the stars before the last need
  not be tried again is `LongerSkips` with `FitsAt`: what an earlier star could
  take more, the last one can. A counterexample that comes last in the order of
  the cursors' moves (`Later`) then has none after it, which `MatchStep` refutes.
- `LoadTakesWhatIsDue`, from `ListingSound` (while a directory is listed, what has
  been found was there at some time of it, and an entry come upon that was there
  throughout has been found), `LoadSound` (what was read and what is still to be
  read are together in order and hold all that was due, and nothing that was not)
  and `NamesSpelled`. It cites the theorem about the matcher, and `SortedIs`, which
  says that `Sorted` lists each path once and in order. `Sorted` picks by rank,
  so that lemma needs the order to be total on paths, that is, on sequences of
  sequences of characters: `LexicographicIsTotal`, used twice, and `RankedIs`.

Three means recur in these proofs. Recursive functions are shown to exist and to
satisfy their equations (`Recursion`, `FixedPoint`), from a set that bounds the
recursion. Induction is by a least counterexample (`LeastNatural`, `Induction`),
because the library's induction theorems take an operator, which the provers do
not instantiate. And a sequence, a fit or a split is described by a predicate of
its own (`IsFit`, `IsSplit`, `IsNumeral`), which one lemma derives from the
definition and all others use.

Model-checked only:

- `Terminates`, `CallsReturn` and `CallEnds`: liveness under fairness is out of
  the prover's reach.
- `RepliesUnderstood`: a statement about one provider's configuration.
- `RefsFollowed`, `CallsReachOperations`, `ListingTrue`, `MarkdownShowsAll` and
  the half of `TablesReadBack` about JSON Lines. Most of them are about what is
  computed from schemas, values or texts by `RECURSIVE` operators, which the
  prover does not take.

## Where code and documentation disagree

1. `auth/client.rs:294` clears whatever is stored when `invalid_grant` arrives.
   If another call has replaced the record meanwhile, a live credential goes.
   Found by `token_client_race`; a client alone never does it.
2. `auth/client.rs:205` returns a refreshed credential unexamined, so a server
   whose lifetimes are within the skew yields one that is already expired by
   `is_expired`. Found by `token_client_skew`.
3. `auth/store.rs:226` names the temporary file after the process, so two
   threads share it, and one may rename what the other has just truncated.
   Found by `file_store_threads`.
4. `openapi.rs:65` replaces a top-level `$ref` by its target and drops what
   stands beside it, though the changelog says siblings win at every depth.
   Found by `toolchain_siblings`.

Noted while modelling, with no run. The models do what the code does.

Credentials:
- `auth/grant.rs:686` converts the caller's timeout with
  `Duration::from_secs_f64`, which panics on a finite value beyond the largest
  `Duration`; the documentation says the shorter of the two limits wins.
- `auth/store.rs:297` edits the whole document without excluding other
  processes, so two that save different keys may lose one record;
  `AtomicDocument` therefore promises no order.
- `is_secure_endpoint` (`auth/config.rs:267`) lists `[::1]`, which its cutting of
  the host never yields.
- `decode_component` (`auth/encoding.rs:39`) accepts a sign in an escape (`%+5`).

Scanning:
- `resolve_server_url` keeps a templated URL verbatim where `variables` is absent;
  the comment at `openapi_scanner.rs:284` has it omitted.
- Parameters and bodies given by `$ref`, and parameters of a whole path, are
  passed over; a body schema that is an `allOf`, or a reference to a reference,
  yields no properties; `ref_warnings` looks at an operation's own references only.
- A cyclic schema is expanded to depth 16, which doubles with every level where
  it refers to itself twice.
- A path parameter whose value is `.` or `..` reaches another path than the
  operation's: `percent_encode_path_segment` (`output/http_proxy_writer.rs:222`,
  "encodes exactly the characters that are unsafe in a URL path segment") leaves
  dots as they are, and the URL is rid of such segments when it is parsed.
- A colon within a path segment (`/items:batch`) counts as a placeholder no
  parameter declares, so such an operation cannot be called through a proxy.

Names and overlays:
- `display/resolver.rs:272` writes `metadata["display"]`; the surfaces read the
  module's `display` field.
- The CLI alias that replaces an illegal one is not validated; sanitised MCP
  aliases are not checked against each other; an empty `suggested_alias` in the
  metadata makes an empty alias, which refuses the whole list.
- Ids that differ in empty segments only share a stub file.
- The enhancer's prompt lists confidences of annotation fields only, so a model
  that keeps to it never gets a description, documentation or input schema
  accepted; its block of annotations is written by hand, though
  `ai_enhancer.rs:33` has the template in sync with the struct. `clamp_str` may
  exceed its limit by one character, and `strip_ansi` may leave a sequence that
  its own removals have put together.

Files and registries:
- `output/registry_writer.rs:253` judges a target by what precedes its first
  colon, `resolve_target.rs:125` splits at the last one, so a prefix such as
  `my_crate::module` never matches, not even the target
  `my_crate::module:handler` (line 229 says a target "starts with one of the
  supplied prefixes").
- `binding_loader.rs:3` calls itself the inverse of the YAML writer, but
  `build_binding` leaves out `warnings`, and metadata, schemas or overlays the
  loader does not take are lost.
- `YAMLVerifier` (`output/verifiers.rs:59`) does not look at schemas, so a file of
  a module whose schema is no object is reported as verified and makes a strict
  load of its directory fail (`binding_loader.rs:539`).
- A pattern such as `*` matches the writer's temporary files; files nested deeper
  than 64 directories are passed over in silence.

Formatting:
- `build_groups` (`tui_view_model.rs:725`) lists a row twice for a tag given twice.
- `exclude` of `to_markdown` (`formatting/markdown.rs:24`, "at every nesting
  level") is not applied inside a compact cell, and a list item all of whose keys
  are excluded vanishes; a key after a nested object reads as part of that
  object's section; headings stop at the sixth level (`formatting/markdown.rs:199`)
  though `max_depth` may be 32, so that an object more than five objects deep gets
  the level of the one it is in and reads as standing beside it;
  `render_dict`'s branch for nested bullets is never reached;
  `compact_repr` measures bytes and cuts characters. Texts with line breaks are
  written as they are.
- JSON Lines, and JSON within a cell, send integers beyond 2^53 through a double
  which a CSV cell does not; rows without any key read back as one empty cell.
- `yaml_scalar` (`formatting/surface.rs:515`) leaves `true`, `null` and the like
  unquoted, and a skill's title is never quoted; the tables of a surface do not
  escape `|`; a grouped document's group headings are of the level of a body's
  own; `deprecated` is never shown among a module's behaviour.

## What is not modelled

- The wording of errors, logs, prompts and headings; error and re-export
  declarations; serde's reading and writing of plain data and of JSON and YAML
  text; `enrich_schema_descriptions`; accessors and serializers of result types.
- I/O without a decision of the crate's own: `load_spec`, the reading of a
  directory by the display resolver (a source is readable or not), the transport
  (reqwest), `get_writer`, `is_enabled`.
- Directory modes, Windows and the default path of `auth/store.rs`; a wall clock
  that is set back; the integer width of expiry times; the `parse_response` hook,
  which replaces one body by another and is part of the choice of response.
- Bytes that are not UTF-8 (`from_utf8_lossy`); the escapes within a JSON pointer's
  token (`decode_pointer_token`: tokens are given decoded); regular expressions
  (a predicate the configuration gives).
- Two YAML batches at once in one directory.

What a section above says is left out is left out, too.

## Plan

1. A second batch in `deployment` behind a smaller directory.
2. What is left of the pure code, where a property of it is worth a run:
   `schema_utils`, the serializers, the accessors of the view model.
