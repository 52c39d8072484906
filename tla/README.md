# TLA+ models of mneme-plugin

This directory holds TLA+ specifications of the programs of this repository,
TLC configurations that check them on small instances, and TLAPS proofs of the
theorems that hold for every instance. Every definition is translated from the
code under `src/`, not from its documentation; where code and documentation
disagree, a run shows it (section 6).

`PROJECT.json` lists, in machine-readable form, the components, the runs, the
source lines behind every definition, a mutant of the code for every property,
the hazards, the findings and the theorems.

    tlc -config EngineLauncher.cfg MCEngineLauncher    # one run
    tlapm EngineLauncherProofs.tla                     # one proof module

## 1. The system

mneme-plugin is a marketplace of two Claude Code plugins. `plugin/` (mneme) is
packaging around an engine binary that lives elsewhere: a launcher that
downloads, verifies and runs it, hooks, skills, and helper scripts. `figura/`
turns an HTML document with D2 diagrams into a checked PDF with the help of a
headless Chromium and the `d2` binary. `scripts/` and `.github/` hold the
release automation and the gates.

| Component | State | Operations | Hard because of | Status |
| --- | --- | --- | --- | --- |
| Engine launcher `plugin/bin/launch.sh` | `~/.mneme/bin/<version>/`: the cached binary and temp files named by pid; each run's traps and curl | resolve, sweep orphans, download, verify, chmod, rename, exec; signals | any number of runs share the directory; signals and SIGKILL at any point; curl outlives its launcher | modelled, proved |
| Design-server launcher `plugin/scripts/design-server.sh` | `.melete/server.pid`, `.melete/server.out`, server processes, ports | `start`, `stop`, `status` | the server writes its own pid file; it crashes, hangs, ignores TERM, finds its port taken; invocations overlap | modelled, proved for one at a time |
| CDP session `figura/scripts/cdp-session.mjs` | pending commands, event waits, timers, `#failure`, the browser process and its pipes | `send`, `waitForEvent`, `close`, the callbacks of the pipes and the child | answers race timeouts; the browser dies at any point; answers and events come in one chunk | modelled, proved |
| Browser jobs `measure-diagram.mjs`, `capture-failed-diagrams.mjs`, `print-pdf.mjs` | the job's place, its loopback server, the browser's profile | open, page loop, `finally` | failures at any await; cleanup order; a load event that comes early or late | modelled, proved |
| Version and pin automation `ci.yml`, `release-sync.yml`, `auto-bump.mjs`, `generate-release-pin.mjs` | the main branch, workflow runs | push, test, bump, pin, push by the bot, re-run | two workflows and people push to one branch; runs work on old checkouts | modelled, proved |
| Release gates `validate-manifests.mjs`, `check-release-integrity.mjs`, `release-assets.mjs` | the files of one commit | validate, check, pin, stamp; later the launchers read the pin | several gates each check a part of what an installation needs, by rules of their own | modelled, proved |
| Figura launcher `figura/bin/launch.sh` | `~/.figura/bin/<version>/`, unpack directories named by pid | download, verify, unpack, rename, exec | no trap and no sweep; a pid that is taken again finds a dead run's directory | modelled, proved |
| Figura command line `figura.mjs` and its steps | the PDF, previews, pictures of failed diagrams, the work directory | `check`, `build` | each step can fail after files were removed or written; offsets shift as diagrams are put in; tags are counted | partly; outcome, remedies, pictures and headings proved |
| ERD planner `erd-split.mjs`, `erd-model.mjs`, `erd-d2.mjs` | the plan, the files of `--out` | components, domains, greedy split, writing | what fits does not shrink with the number of tables; earlier plans leave files | modelled, proved |
| Schema readers `erd-source-*.mjs` | none (pure) | psql, Prisma, Rails, TypeORM, manual | inheritance, implied columns and keys, join tables; silence about what is not understood | partly |
| Session token counter `session-tokens.mjs` | a cache file per transcript: offset, seen ids, marks | count, `--mark`, `--delta` | concurrent read-modify-write; half-written lines; a bounded seen set | modelled, proved |
| Design lint `design-lint.mjs`, `design-rules.mjs` | a store of shown findings per session | PostToolUse and Stop hooks | concurrent read-modify-write; hook timeouts | modelled, proved |
| Design etalon checker `check-design-etalon.mjs` | none (pure) | tree, props, bindings, fixtures, HTML | cycles, shared nodes, several folders | modelled |
| Project map `project-graph.mjs` | none (pure) | edges, seeds, label rounds, merges, ids, anchors | order dependence, stale counts, unique ids | modelled |
| Guard mutation prover `prove-guard-mutations.mjs` | the mutated file, the exit code | mutate, run the guard, restore | signals, timeouts, kills, edits from outside | modelled, proved |
| Hooks `hooks.json`, `session-orient.sh`, `diary-due.sh` | none | fail-open wrappers around the engine launcher | hook timeouts cut a launch short | the launcher's killed runs |
| Browser support `browser-locate.mjs`, `loopback-server.mjs` | none | search, version check, serving | a first candidate that is too old hides a good one | partly: the search in `FiguraPreflight`, the server in `BrowserJob` |
| Developer helpers, gates' tests, skills, site | none | tests, prose | | see section 7 |

How they interact: the hooks, the MCP server entry and the skills all start
the engine through the launcher, so several launchers run at once on one cache;
figura's `check` and `build` run `d2` through figura's launcher once to warm
the cache and once per diagram, beside other figura commands of the user, and
then the browser jobs one after another; `erd` reads a schema, plans, measures
and writes D2 files. The launchers read the pins that the release automation
writes and the gates let through. What makes each component correct is stated
property by property in section 3.

## 2. Modules

| Module | What it is |
| --- | --- |
| `EngineCache` | abstract specification: what a launch promises |
| `EngineLauncher` | `plugin/bin/launch.sh`, one action per command that matters |
| `EngineLauncherProofs` | the inductive invariant, the safety theorems and the refinement |
| `DesignServer` | `design-server.sh` and the servers it spawns |
| `DesignServerProofs` | types of everything; the safety theorems for commands one at a time |
| `CdpSession` | `cdp-session.mjs` and the browser; no specification of its own |
| `BrowserJob` | EXTENDS `CdpSession`: the jobs that drive a session |
| `BrowserJobProofs` | the inductive invariant of session and job |
| `ReleaseSync` | main, CI runs and release-sync runs |
| `ReleaseSyncProofs` | types, versions, stamps and bumps of the branch, and the gates, for every instance |
| `Manifests` | the rules of `validate-manifests.mjs` |
| `ReleasePin` | EXTENDS `Manifests`: one commit or release through the gates, and what the launchers read of it |
| `JsonStore` | a small JSON file that processes read and write whole, without a lock |
| `SessionTokens`, `DesignLint` | EXTEND `JsonStore`: the two scripts that keep such a file |
| `DesignRules` | the colors of `design-rules.mjs` |
| `GuardProver` | the prover, its guard, and whoever else edits the tree |
| `SessionTokensProofs`, `ScriptProofs` | the counter; the prover, the lint, the etalon checker and the project map, for every instance |
| `ProjectReaders` | the files of a project and the edges between them |
| `ProjectGraph` | EXTENDS `ProjectReaders`: clusters, ids, anchors, choice of sections |
| `FiguraLauncher` | `figura/bin/launch.sh` over the shared cache |
| `FiguraPage` | what `check` and `build` compute of a document |
| `FiguraTheme` | which themes are valid, and the limits and properties they give |
| `FiguraPreflight` | what a machine must have, and the browser found on it |
| `FiguraBuild` | EXTENDS these four: the two commands, step by step, with their files |
| `FiguraProofs` | the inductive invariants of the launcher, of the commands, of their outcome, of the pictures and of the heading groups |
| `FiguraErd` | `figura erd` from a schema to the files of a plan |
| `ErdProofs` | what a plan covers and which files it leaves, for every schema |
| `TypescriptClasses`, `SchemaTexts` | classes, models and calls, from tokens |
| `ErdSources` | EXTENDS them: the five readers |
| `DesignEtalon` | the checker, both branches |
| `MC…` | instances; `MCRelease` and `MCScripts` are sums: a behaviour picks one of several programs that share nothing and is then one of that program's |

Definitions headed "Mutant" are not part of a specification: each is a
plausible bug of the definition that follows, and the run of the property named
in `PROJECT.json` fails when it takes that definition's place.

### EngineLauncher

A run, its pid, its temp file's name and the file its curl creates are one
value of `Launchers`. `pc` is the next command; `curl` and `curlPid` are the
background download and whether `curl_pid` is set; `tmp` is the set of temp
names in the directories, `content` and `xbit` belong to files (so to an
unlinked file too), `cache` is the file that each version's `cache_bin` names.
`todo` and `victim` are the sweep's loop: the glob is expanded once
(`SweepGlob`), then each name is tested with `kill -0` (`SweepTest`) and
unlinked (`SweepUnlink`) in separate steps. `SpawnCurl`/`RecordPid` are the two
commands `curl … &` and `curl_pid=$!`. `Interrupt`, `Abandon` and `Kill` are
trapped signals and SIGKILL; a killed launcher leaves its curl running.

### DesignServer

Every `start` names the server it may spawn. `pc` walks through `cmd_start` and
`cmd_stop`; each look at the pid file, each removal and each signal is a step
of its own because a server acts in between (`ServerBoot`, `ServerRegister`,
`ServerBind`, `ServerBusy`, `ServerExit`, `ServerCrash`). Ports may be held by
other programs. A request to `/health` is a state of its own (`confirm`, `ask`):
`peer[c]` is whoever has taken it, and the start goes on when it is answered or
the connection breaks, which may never be. `status` has no step: it is the
formula `StatusRunning`, evaluated in every state, for a probe that is answered
(one that is not holds `status` as it holds a start). `Overlap` says whether invocations may run at the
same time, `Prompt` whether a server writes its pid file within the wait of its
start and obeys TERM before the next command.

### CdpSession and BrowserJob

A step is one callback of Node's event loop. Microtasks (the continuations of
awaits) run before the next callback: `Continues` says that one is due. `open`
is the union of `#pendingCommands` and the event waits, `timers` the armed
`setTimeout`s; `Receive` dispatches all messages a chunk completes. The
browser reads `requests`, owes answers and load events, writes them to
`stream` in an order of its own, and dies when it likes. The three jobs share
one skeleton and differ in the number of pages and of commands per page, which
are constants. `Exited` is the end of `close()`: removing the profile may throw,
and what stands after `close()` in the `finally` is then skipped. The build
directory of `printPdf`, removed last, is left out.

### ReleaseSync, Manifests, ReleasePin

`main` is a sequence of commits with the bundles they touch, the version of
every manifest, the stamp of every pin, the pinned engine and the kind of
author. `run[k]` is the CI run of the push that put `main[k]` at the head,
`sync[e]` the release-sync run of engine `e`. A job is a pure function of its
checkout, so the steps are: tests pass or fail; the bump is computed and
pushed, or refused because main has moved; the same for release-sync with its
checkout. Pushes of the bot start no run. Failed runs may be re-run.

`ReleasePin` opens one such job up: `commit` is what is being put together,
`gate` the next command of the workflow, `reasons` why it was turned down. A
release comes as a payload (`Guard`, `GeneratePin`, `BumpPlugin`, `NpmTest`) or
as a commit of a person (`NpmTest`, `CheckReleaseIntegrity`). A file is the
record of the fields that the rules tell apart, with `Lacking` for what is not
there. What passes the last gate must be what both launchers can download and
verify.

### SessionTokens, DesignLint, GuardProver

A run of the counter is stat, load, open, fill: the cache is read before the
transcript is (`Load`), and written by an `Open` that empties it and a `Fill`,
between which others read and write and a kill may strike. The transcript
grows by half lines. A hook of the lint goes through subtract, show, record,
open, write; `TimeOut` is the host's. A read or a write of its store may fail
without a word, the temp directory may be swept, and a session without a usable
id has no store (`None`): nothing is subtracted or recorded. `lapsed` remembers
that the store and what was shown have come apart. The prover is synchronous: a
signal to it is noticed only when its guard has ended, `KillProver` strikes
anywhere, and `OutsideEdit` changes files under it; the write that restores a
file may fail, which ends the prover (`unrestored`).

### ProjectReaders and ProjectGraph

A path is the sequence of its names, a source the sequence of records that the
script's patterns match in it. Edges, seeds, labels and sections are sets and
functions over files. A loop of the code is a loop of steps: `todo` is what it
has still to visit, and a step visits the first of these (`Visits`, `Before`),
since the results depend on the order. So `Spread` labels one file of a round,
`MergeSameSlug`, `MergeSeamed` and `MergeSmall` are one merge each, and what a
loop counts before its first visit (`BeginRound`, `CountSeams`, `CountSmall`)
stays as it was counted.

### Figura

The launcher's processes are `Pids` that are taken again after a run has ended;
`unpack[p]` is the directory `.unpack.<p>`, which a dead run leaves. A command
(`stage`, `verb`) starts a launcher for the warm run and for each diagram,
reads the document once, and walks through measuring, drawing of failed
diagrams, printing, previews and `finally`; `Throw` is an error that is not a
`FiguraError`, `KillCommand` a kill. A document is a sequence of tokens and a
position an index; the code's -1, from which JavaScript searches again at the
start, is 0. `ExtractDiagrams` and `InlineDiagrams` speak of sets of positions:
`Nth` is the k-th of a set, `Picked` the sequence of those alone, so that no
offset shifts. Before the page is laid out, `FiguraPage` gives inline code its
break opportunities, each a mark on the run before it. The search for headings
is a loop of steps as in the code: `FindHeading`, `ExtendGroup` for each heading
that follows at once (`groupEnd` is the variable of that name), `KeepHeading`
for the block after them. A theme that is not valid, a machine without a usable
browser and an unwritable place end a command before it touches a file.
`FiguraErd` grows parts table by table against `fitting`, any set of sets of
tables that fit a page. Its tables keep the numbers of the schema when a subset
is chosen (`Ordered` counts the names before a table instead of sorting), so
that a part is a set of numbers. A reader of `ErdSources` is a function from
tokens to a schema with the set of what it left out.

### DesignEtalon

A page is checked in the order of the code (`next` is `read`, `folder`,
`parse`, `slug`, `registry`, `validate`, `report`, or `html` for a page of that
kind), each step adding its failures; a value of a prop is a literal, a data
path, a token or stray text.

## 3. Runs: what is checked

All passing runs finish exhaustively. The properties are stated in words above
their definitions; this is what the runs show.

| Run | Instance | Shows |
| --- | --- | --- |
| `engine_launcher` | 2 runs, 1 version, fairness (9,752 states) | the cached file is always complete, verified and executable; a sweep never takes the temp file of a run that still needs it; only runs cut short leave files, and what a sweep saw dead is gone after it; the launcher implements `EngineCache`; every started launch ends or becomes the engine |
| `engine_launcher_interrupt` | 2 runs | violation, see section 6 |
| `design_server` | 3 starts, 1 stop, 2 ports, one at a time, fairness (80,396 states) | one live server at most; what is up is registered once its start is over; `status` and `start` report what is so; `stop` leaves no server; every command answers, but for a start whose request to `/health` is never answered |
| `design_server_overlap` | 2 starts at the same time | violation |
| `browser_job` | 2 pages, 2 commands per page, fairness (26,673 states) | a promise is open exactly while its timer is armed; a failed session owes nothing; pages are used only after they loaded and results are complete; a job that ends leaves no browser and no timer, and profile and server only together, when the profile could not be removed; no load event is missed; every job whose browser started ends |
| `browser_job_start` | 1 page, 1 command | violation |
| `release_sync` | 2 bundles, 2 engine releases, 4 commits; or one commit or release out of some thousand (1,995,404 states up to symmetry) | what the workflows push is stamped; no version goes down; the bot's bump leaves no unversioned change; when all is quiet and the last push was green, every plugin change has a version; what passes the gates is installed by the launcher of every bundle that the marketplace lists under its own name, on every platform its pin lists |
| `release_sync_promise` | the same pushes | violation |
| `scripts` | see below (1,248,393 states up to symmetry) | seventeen invariants of eight programs |
| `project_map_covered` | projects where a directory of one cluster holds directories of another | violation |
| `figura_unclosed` | a document whose heading has no end tag, fairness | violation |
| `erd_own_base` | a TypeORM project with a class of its own named `BaseEntity` | violation |

`scripts` is one run over a sum of programs that share nothing:

| Program | Instance | Invariants |
| --- | --- | --- |
| `SessionTokens` | 2 runs at once, 3 lines of 4 kinds (two models, a repeated message, a synthetic one), a mark and its delta, a seen set of one | `CountsAreOfTheirLines`: every message before the cache's offset is counted once, and marks and costs agree; `DenominatorIsNotDisproved`: the window limit is never below what was observed |
| `DesignLint` | 2 hooks at once, 5 files of every kind, edits in between | `NothingIsSwallowed`: a hook that ran to its end leaves no finding unsaid; `RepeatsOnlyAfterALapse`: what it takes for Stop to say something again |
| `GuardProver` | 3 mutations in 2 files, guards that name all or some | `MutationsAreProvenAndGone`: short of a kill, and of a restore that cannot be written, the tree is restored, and exit 0 means that every mutation was proven on an otherwise unchanged tree |
| `ProjectGraph` | every subset of 9 imports over 9 files, of 5 imports without a group directory, of a Rails application's references | `LabelsReachTheirFiles`, `MergesKeepAnchors` |
| `FiguraBuild` | 8 documents, 10 themes, 8 machines, 2 commands, 2 processes, one of them of other commands | `OnlyPinnedD2Runs`, `PreflightSuffices`, `OutcomeMatchesFiles`, `PrintedDiagramsFit`, `RemediesAreNew`, `HeadingsKeepTheirBlock` |
| `FiguraErd` | 4 tables with every subset of 5 relations, and schemas that are refused; 24 sets of options, 5 notions of what fits | `PartsCoverTheSchema`, `OutIsOnePlan` |
| `ErdSources` | 137 schemas and class files that declare one of 32 databases in five notations | `ReadsTheSame`: a schema read without a warning is the database that it declares; with one, every relation shown is true. Outside the instances: a one-to-one over two columns, names given by constants, a TypeORM junction of an entity with itself, lists for the columns of a Rails foreign key (section 6 on each) |
| `DesignEtalon` | trees of three nodes with every wiring, a page for every code of the checker, HTML pages, folders, broken registries | `PassedPagesRender`: the local rules together mean a tree that can be rendered with every fixture |

Why the bounds are enough. Launcher: the actions of a run mention one other
run at a time, so two runs give every pair of places; the proofs of section 5
cover any number. Servers: a start over what an earlier start, a crash or a `stop` left,
and a third start over that; a stale pid file, a stale banner, a live server
and a foreign port meet in every order. Browser: with two
pages a late load event of the first can be taken for the second's; two
commands leave one open while another fails. Releases: three commits after the
first are a change, a racing push and the answer to it; two syncs race each
other. Gates: each proposal breaks at most one rule
of the marketplace and one of a bundle, so that a fault of one may hide that of
the other; each payload combines sums and assets that fit or do not.
Tokens: two overlapping runs over three lines are a lost update, a torn write and a line read by half; a seen set of one forgets
after one message, as the real one does after its size. Lint: two hooks are a
race; each rule has a declaration that breaks it. Figura: a second command
finds what the first left, a second process is another user of the cache and
takes a dead process's pid; the documents have problems of every code. ERD: four
tables are the least with a part that closes, a candidate that goes back and a
second component.

`CHECK_DEADLOCK FALSE` is set where the system rightly stops: all launchers
ended, all commands answered, the job over, the branch at its bound, a script
at its end.

Bounds that exist for TLC only: `MaxId` (exactly the ids a job can use, so it
never cuts a behaviour short; `TypeOK` checks that), `MaxCommits`, `MaxLines`,
`MaxCommands`. `MaxRounds`, `SmallClusterFiles`, `SeamsToMerge`,
`MaxGroupDepth`, `MaxAnchorFiles`, `MaxTerms`, `SeenSize` and `Pages` are
constants of the code, made small so that the instances reach them; the limits
of a page come from small themes.

## 4. Fairness and assumptions

- **Launcher.** A started script keeps executing its commands and a transfer
  ends one way or the other (`WF` of `Step` and `Curl`). Starting runs, sending
  signals and ending the engine are never required. curl has no `--max-time`:
  that a transfer ends is an assumption about the network.
- **Design server.** A command that began keeps executing, but a start only
  while no request of its own is unanswered (`Held`): `health_ok` is `curl`
  without `--max-time`, inside the loop that counts the 30 s. Nothing makes a
  server or a foreign program answer, so `EveryCommandAnswers` excepts a start
  that is held for ever. The ticks are counted where rounds keep ending, so
  giving up is strongly fair: it is possible once a round. A server is only
  required to reach the point where it writes its pid file; it may hang afterwards.
  The passing run assumes one command at a time and prompt servers (`Overlap =
  FALSE`, `Prompt = TRUE`); the overlap run shows what the first assumption
  hides.
- **Browser.** The event loop runs due callbacks and continuations, armed timers
  fire, and a process that was killed or failed to start is reported. Nothing is
  assumed of the browser: it may never answer.
- **Figura.** `FiguraFairness`, which only the hang run uses: launchers keep
  executing, and the command does, strongly, because other commands may take
  the few pids of an instance each time it wants to spawn, which a system has
  enough of. The build that never ends runs all the while; it waits for nobody.
- **The rest.** Only safety is checked; no fairness.

What the models leave out: reuse of pids by the engine launcher and the design
server, and several pid namespaces over one home directory (a `kill -0` that
hits a stranger); the cutting of messages by chunk boundaries
(`#partialMessage`); a load event of `about:blank` that comes after the answer
to `Target.createTarget`; `spawn` throwing synchronously; the version numbers'
major and minor parts; merges with more than one parent (taken as the sequence
of their commits). The token counter's seen set is assumed to be used as its
comment says: the lines of one message are near each other.

## 5. Proofs

Thirty-six of the forty properties that the passing runs check are also
theorems. All proofs are for arbitrary sets of runs, versions, pages, bundles, engines, commits,
payloads, processes, documents, schemas, files and lines, from the assumptions
that the modules name and every run evaluates. Most only type a constant
(`LauncherAssumption`, `ServerAssumption`, `SessionAssumption`,
`JobAssumption`, `PluginIsABundle`, `SomeCommits`, `CommitsAreTyped`,
`PayloadsAreTyped`, `LinesAreLines`, `BoundsAreNaturals`, `WindowsAreNaturals`,
`MutationsAreAList`, `MutationsAreOfFiles`, `FilesHaveKinds`,
`DocumentsAreFinite`, `DiagramsAreDirected`, `SchemasAreTyped`, `FlagsAreTyped`,
`EtalonsAreTyped`, `NamesAreAList`, `RoundsAreNaturals`, `ProjectsAreTyped`,
`DiagramsAreMeasured`, `ThemesAreInWholePoints`)
or keep a placeholder apart from values (`NoEngineIsNone`, `AbsentIsNothing`,
`AbsentIsNoStatus`, `NoStoreIsNoText`). `DocumentsAreWritten` says what a document holds when it is
read: the source of a diagram is all of its `<pre>`, which is how
`extract-diagrams.mjs` matches one, and pictures and print styles are only what
`inline-diagrams.mjs` and `print-pdf.mjs` put in. `DiagramsAreMeasured` and
`ThemesAreInWholePoints` are the model's units: sizes, label fonts and the
numbers of a theme are counted in whole ones of a unit that is small enough, so
that a comparison of the code is one of naturals; a theme may still have
anything where a number should be, and `ValidateTheme` turns it down. Three
theorems or groups have a hypothesis of their own: those of the design server
assume `~Overlap` and `Prompt` (without them the run `design_server_overlap`
violates what they say), `RepeatsNeedALapse` assumes `StoresReadBack`, that what
a hook writes, when the write succeeds, can be read again, and
`HeadingsAreWithTheirBlock` is about documents that are `WellNested`, as seven of
the eight of the run are. In the other one a `<p>` and a `<pre>` are left open
where no heading stands before them, and it is printed: that its heading is kept
is checked, and not proved. (Of one that leaves open what follows a heading
nothing can be asked: it never gets to the printer, as `figura_unclosed` shows.)
The hypothesis is needed: of `<h1></h1><p><div></p></div>` the group would take
a `div` apart.

**Launcher.** `IInv` adds to `TypeOK`: `Sealed` (a file that is executable or
cached holds verified content, its curl is over, and nothing else names it),
`CurlPhase` (what each command of a run may assume about its curl, its pid
variable and its temp file) and `SweepPhase` (which of the dead runs' names the
sweep has still to visit). `CacheVerified` alone is not inductive: a curl that
is still writing to the cached file would break it, and only `Sealed` and
`CurlPhase` exclude one. From `IInv`: `TypeCorrect`, `CacheIsVerified`,
`SweepIsSafe`, `LeftoversBounded`. `LauncherImplementsCache` is the
refinement: initial states map to initial states and each step to a step of
`EngineCache` or a stutter; the rename is the only step that installs.

**Design server.** `ServerTypes` needs nothing. `OneByOne` says that one command
is at work, that one server has a process, which places of a command such a
server is excluded from (`AtStep`: when the pid file is cleaned there is none;
after TERM only the one that obeys it), what a waiting start may see
(`Waiting`): its own server's pid and banner or none; and who may have taken its
request (`Asking`): the server it asks after, or, that one being dead, a program
outside the project. `UpIsRegistered` alone is
not inductive, because a start removes a dead server's file, and only `AtStep`
says that no other server has written it since. From `OneByOne`:
`NeverTwoServers`, `NoServerOutOfReach`, `TrueReports`, `NoServerAfterStop`.
`TrueReports` does not say that the server behind a successful `start` lives:
it may crash before the report, and a stranger on its port answer in its place.
What is proved is that no other server of the project does, and that the pid and
the URL printed are those of its own.

**Browser.** `Clean` ties open promises, timers, the failure flag, the profile and
the server to the place of the job. From it: `DeadlinesHold`, `FailureSettlesAll`,
`JobsEndClean`. `PageInv` adds where each page stands: what the browser has
still to answer, what lies in `stream`, and that there is one load event at a
time, of the page that the browser is at (`Queue`, `Loads`, `AtPage`). It gives `JobTypes` (so
that `MaxId` cuts nothing short), `CommandsReachLoadedPages`, and the action
property `NoLoadIsMissed`.

**Releases.** `Inv` adds to the properties that a tested run is about a valid
commit of main and that a checkout is one (`RunsAreGrounded`). `Growth` is the
heart: a push that lowers no version, is stamped, and bumps exactly what
changed keeps all three properties; the three kinds of push are instances.
That the bump covers everything needs
`VersionsNeverGoBack`: a version introduced after a change differs from every
version before it only because versions grow, and they grow only because a push
must be a fast-forward. From `Inv`: `TypeCorrect`,
`VersionsGrow`, `WorkflowsStamp`, `BumpCoversAll`. `PluginInv` says which runs
have left the plugin with a version, and that a run whose bump was refused has
a later commit behind it: so `PluginChangesVersioned`, whose argument goes down
the branch from its head.

**Gates.** `GateInv` remembers what each gate has established while later steps
rewrite parts of the commit: the pin that `generate-release-pin.mjs` wrote
still holds the payload's version, sums and base after the bump
(`PluginPinned`). The rest is about operators: what the validator says of a
listed bundle (`ListedBundlesAreValid`), and that the two rules for an asset's
name, one in JavaScript and one in `sh`, agree on every platform (`NamesAgree`,
`AssetIsNamed`). So `PinsInstall`.

**Scripts.** The prover: `OneInFlight` and `OriginalIsClean` (the text that a
restore writes back holds no mutation) with `VerdictsAreEarned` give
`MutationsProvenAndGone`. The lint: `NothingUnsaid` follows a finding from the
store to the hook that will say it, whatever other hooks overwrite; as long as
nothing has lapsed, one hook at most is at work (`OneAtWork`) and `StoreIsShown`
ties the store to what was shown. So `NothingSwallowed`, `RepeatsNeedALapse`. The counter: `TokensInv` says of every
readable cache, of every local copy and of every mark that it counts exactly a
prefix of the transcript, whatever cache a run loaded and whatever was torn in
between. A count with a bounded seen set equals one without only because lines
of a message lie near each other; the lemmas that say so are an induction over
the lines. So `CountsAreTrue`, `DenominatorStands`. The etalon checker: a page
without failures is a `CleanTree`, in which an id has one position, a reference
leads to a later one, and each node but the first has one reference. That every
node is met from the first one takes the least position that would not be:
`PassedPagesAreTrees`.

**Project map.** What the readers find are edges inside a finite project
(`EdgesStayInside`), and `Before` is a strict total order of paths, so a best
cluster exists whatever the scores are (`BestExists`). `MapInv` follows files
and anchors together: `AnchoredBy` says that a directory of the seeds anchors
one cluster, the one its files are in, and `MergeKeepsClusters` that any merge
keeps this; while small clusters join others, each one already visited, or
large, is `Lonely`: not small, or without an edge to another
(`MergeKeepsLonely`). So `MergesKeepTheirAnchors`. `LabelInv` says how far the
labels are: after round n a chain of n edges from a seed ends in a labelled
file, labels only pass between neighbours, and while a round has changed
nothing every file it has visited keeps what it has (`Settled`). A round that
ends so has labelled all that is in reach (`SettledFilesAreReached`); otherwise
the rounds are used up. So `EveryLabelReachesItsFiles`.

**Figura.** `OnlyPinnedD2Runs` is not inductive, because an unpack directory may
hold anything a dead run left. `LauncherInv` says for each command of a
launcher what it rests on (`LaunchPhase`): it unpacks only what it verified
itself, and installs only what it unpacked itself, whatever stood there before.
`PreflightSuffices` needs more of the command that waits: `CommandPhase` says
that after preflight a d2 is `Provided`, and `Keeps` that no step of any
launcher takes it away again, since the cache is only ever renamed into. From
`Inv`: `PinnedD2Runs`, `PreflightIsEnough`. `OutcomeInv` is about the command's
own files: which stages the work directory exists in, that an earlier PDF is gone
from the first command of a build on, and that the problems and pictures are of
diagrams that d2 draws. So `OutcomeMatches`. `RemediesHelp` rests on `LaidOut`:
once a document is accepted, every layout in it is one that d2 has.

`PrintedDiagramsFit` looks at a PDF only, but what makes it true happened stages
earlier. `FitInv` carries it there: while no diagram has failed, what is rendered
is the document's diagrams so far; when the page is put together it is all of
them, without a layout problem, under a theme that validates; from then on the
page `Fits`. The step that puts it together is the work (`PageFits`): spans are
disjoint and leave everything else standing (`SpansOfDiagrams`, `PageSkeleton`,
on the ranks of positions in a set), the page's own styles are those of the theme
that gave the limits (`PageStyles`, `Limits`), and no reported problem means
that picture, caption and labels have their place (`NoProblems`, `ApartPixels`).
So `DiagramsFit`.

For headings a document is taken with the partner of each opening tag (`Nests`).
Counting tags then finds the partner: from an opening tag on, an element's tags
before its end do not balance, and at its end they do (`ElementEnds`,
`WholeIsBalanced`). Putting in pictures, break marks and styles leaves a page
that nests when its document does (`TakenNest`, `PageNests`). `KeepInv` follows
the search for every partner function: a group holds whole elements and starts
where the one before it has ended (`Groups`), what lies before the search is
settled (`Searched`), and the group at work reaches from its first heading to the
end of its last (`Grouping`). What is asked of the page when it goes to the
printer is not inductive, since it says nothing of a heading still to come: only
`Searched` knows which headings have been seen, and only `Grouping` that a group
without a block to keep leaves none of them waiting for one. So `HeadingsAreWithTheirBlock`.

**ERD.** `CoverInv` says where every table is: in one part, one waiting group,
the component at work, the part that grows, or reported as too large alone
(`OnePlace`). That components and domains are a partition to begin with comes
from relations leading both ways (`Closed`, `SameComponent`), that a part
follows relations from every candidate having been reached over one (`Joined`).
A subset's tables keep numbers because `Ordered` is a bijection, which is a
count of elements under a total order. So `PlansCoverTheSchema`; `OutHoldsOnePlan`
follows the files of `--out` through removal and writing (`FilesInv`).

Where an argument is an induction over lines, commits or tables, the proofs
take the least element of a set of naturals (`LeastNat`), which the library
gives without an operator parameter.

Only model-checked, and why:

- all liveness (`LaunchEnds`, `EveryCommandAnswers`, `StartedJobEnds`), and
  with it every use of `ENABLED`: out of the proof system's reach;
- `ReadsTheSame`: what recursive definitions of `TypescriptClasses` and
  `SchemaTexts` compute for every input is an induction over data;
- `HeadingsKeepTheirBlock` of a document whose elements do not nest: one is
  checked.

## 6. Disagreements found

| Run | What the code does | What is said |
| --- | --- | --- |
| `engine_launcher_interrupt` | a signal between `curl … &` and `curl_pid=$!` removes the temp file but leaves curl writing it | the launcher's header: a download cut short takes its temp file with it |
| `design_server_overlap` | of two starts at once, one removes the pid file the other's server has written | `src/plugin/scripts/design-server.sh:36-38`: "`start` either reports `already running` or refuses with a remedy, leaving the pid file intact; only DEAD pid files are cleaned up" |
| `browser_job_start` | a browser that cannot be started has no `exit` event; `close()` waits for it for ever | the same file means the start to fail with an error, and the skill says what to do then |
| `release_sync_promise` | a release-sync run whose push is refused is not retried | the README: every engine release bumps the plugin version |
| `project_map_covered` | a section is anchored at a directory that holds another cluster's | the map skill: a cluster whose directories lie under a stored anchor is described already |
| `figura_unclosed` | a heading without an end tag sends the search for headings back to the start, for ever | the document skill: a failed build prints its problems |
| `erd_own_base` | a project's own class `BaseEntity` loses its columns without a warning | figura's README: base classes' columns are read, and what is not understood is named |

Seen while reading, and not made a run (line numbers under `src/`):

- `plugin/bin/launch.sh:97` sweeps the pinned version's directory only; its
  header, lines 12-13, speaks of every start. An earlier version's leftovers stay.
- `plugin/scripts/design-server.sh:100-102`: "server did not answer /health
  within 30s" comes only if each request ends by itself; one that is taken and
  not answered holds `start` (and `status`) past its 30 s, and Ctrl-C is the way out.
- `figura/scripts/measure-diagram.mjs:57`: `openCdpSession` stands outside the
  `try`, so a synchronous failure of `spawn` leaves the loopback server open. So
  does `rmSync` in `cdp-session.mjs:110` when it throws, which is not a
  `FiguraError` either: a job whose work was done ends the command with a stack
  trace.
- `figura/scripts/print-pdf.mjs:228`: an exception while the fonts are awaited is
  not looked at, unlike that of every other command; `BrowserJob` has one rule
  for all of them, and takes it for a refusal.
- `figura`: when `pdftoppm` fails half way, the previews it has drawn stay.
- A bump of figura that loses the race against release-sync waits for the next
  push of a person; syncs handled out of order pin an older engine under a newer
  version.
- `scripts/generate-release-pin.mjs:98-99`: the guard checks every asset at its
  own URL, the pin keeps the first one's base only, and nothing fetches them
  again afterwards; `GatedPinsInstall` is stated for assets that lie together. A
  pin written by hand on one line passes the validator but not the launchers'
  `sed`; two marketplace entries of one name both pass.
- `plugin/scripts/project-graph.mjs:551`: the numbers that make ids unique can
  collide with an id that ends in a number: `a/foo`, `a/foo-2`, `foo` become
  `foo`, `foo-2`, `foo-2`.
- `plugin/scripts/session-tokens.mjs:170`: a message whose lines are further
  apart than the seen set is long is counted twice.
- `figura/scripts/erd-source-typeorm.mjs`: `@Entity` of a constant throws a
  TypeError; a name given by a constant prints `[object Object]` without a
  warning; a one-to-one over two join columns marks each of them unique; the
  junction of an entity with itself has two columns of one name.
- `figura/scripts/erd-source-rails.mjs:216,219`: a foreign key whose `column` and
  `primary_key` are lists becomes one relation from and to a column that no
  table has, where psql gives a relation per pair of columns.
- `plugin/scripts/design-rules.mjs:79`: the `%` of JavaScript keeps the sign of
  its left side, so the second channel of an `hsl` with a negative hue comes out
  wrong, though the sector beside it is corrected.
- `figura/scripts/erd-split.mjs:143`: a table that is too wide is offered what
  hides its longest row. When another row is just as long, the flag does not
  narrow the table; `PartsCoverTheSchema` is stated for rows of different width.
- `scripts/check-release-integrity.mjs`: a bundle whose name is changed to the
  other plugin's in its manifest and in the marketplace passes every gate while
  its launcher fetches other assets, and the pin of a bundle that is not listed
  is not validated; `GatedPinsInstall` is stated for listed bundles under their
  own names.
- `plugin/scripts/check-design-etalon.mjs`: the header's "reported alone" for
  `INVALID-ETALON` and `NO-REGISTRY` does not hold with a page folder's
  failures; no page satisfies a required function prop; a tag of an `Element`
  that is a number or bound is not looked up.

## 7. Not modelled, and why

- How a text becomes tokens or matches (`sourceTokens`, `lineTokens`, the
  patterns of the map, the etalon checker, the lint and the theme): the
  properties worth stating would need the text character by character.
- Types of columns, the address and password of psql; SVG clean-up, the layout
  of reports: numbers and wording that no property tells apart.
- Hooks (`hooks.json`, `session-orient.sh`, `diary-due.sh`): fail-open wrappers
  of the engine launcher; a hook that is timed out is a launcher that is killed.
- The `check-*` scripts, the smoke and end-to-end tests: read for what they
  promise of the components above.
- Developer helpers, skills, site, fonts: no state of their own, or no program.
- The engine and the Melete server: other repositories, modelled from outside
  where they matter.

## 8. Plan

What is left is not safety of a component that is modelled, but its width:

1. `ErdSources`: the readers without recursive operators, so that
   `ReadsTheSame` could be stated of them in a module with proofs.
2. The two hazards without a property in `PROJECT.json`: release dispatches out
   of order, and messages further apart than the seen set is long. The code
   promises nothing about either.

`FiguraLauncher` is not shown to implement `EngineCache`: it has a site without
a pin, reuses pids, and leaves its directories for ever, none of which the
engine's launcher does; `PinnedD2Runs` states what the two share.
