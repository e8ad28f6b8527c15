# A verification development for nav-oversight-agent

The repository holds an agent that investigates the daily net asset value (NAV)
of investment funds: a language model with read-only tools over a DuckDB
warehouse, a policy layer that turns its verdicts into actions, an audit trail,
a Streamlit UI and the generator of the synthetic warehouse. This directory
models the program's control in TLA+, checks it with TLC and proves most of what
is checked with TLAPS.

Paths are relative to the repository root. Each definition that stands for code
is listed with its lines in `PROJECT.json` under `map`.

## 1. The system

| part | source | state | operations | talks to |
|---|---|---|---|---|
| agent loop | `agent/core.py` | the conversation, iteration and token counters, `converged`, `halted_reason`, the tool call log | `run_agent`, `save_agent_run` | API wrapper, dispatcher, policy layer, run store |
| API wrapper | `agent/api_wrapper.py` | attempt, backoff, the process-wide client | `call_messages` | the Anthropic API |
| dispatcher | `agent/dispatcher.py` | the tool registry (constant) | `dispatch`, the adapters, result serialisation | query and computation tools |
| audit log | `tools/_audit.py` | `audit/tool_calls.jsonl`, a write lock | `audit_tool`, `_write_audit` | called around every tool |
| policy layer | `agent/policies.py` | `_OVERRIDES`, `_DEFAULTS` | `reload_policies`, `apply_policy` | `config/policies.yaml` |
| Configuration page | `ui/pages/4_Configuration.py` | widget values per session | edit, save, reload | the rule file, `reload_policies` |
| run store, dashboard | `ui/data_loaders.py`, `ui/pages/1_Dashboard.py` | `audit/agent_runs/*.json`, a ten-second cache | load, latest run per fund, primary severity and action | written by `save_agent_run` and the scripts |
| scripts | `scripts/*.py` | none | record demo runs, generate fixtures, reset to fixtures | run store, agent loop |
| warehouse connection | `tools/_db.py` | path and handle under a lock | `connection`, `set_db_path`, `close_connection` | every query tool |
| warehouse build | `src/nav_oversight/build.py` | `data/nav.duckdb` | unlink, schema, generators, walk, defects | read by the tools |
| NAV walk | `src/nav_oversight/generators/walk.py` | holdings, cash, shares, NAV, fee balances | one step per fund and day | writes the warehouse |
| defect injection | `src/nav_oversight/defects.py` | rows of the warehouse | pre-walk and post-walk mutations | runs around the walk |
| replay | `agent/replay.py` | none | `replay_agent`, `compare_runs` | run store, agent loop |
| computation tools | `tools/computation.py` | none | flat runs, day counts, expected values | called by the dispatcher |

What is hard in it, and what makes each part correct:

* The agent loop leaves its `while` by six ways (three stop reasons, the budget,
  an API failure, the iteration limit), and what it persists is assembled from
  variables each way sets or not. The transcript must keep the form the API
  asks for; log and transcript must agree; the halted reason must be true; a run
  that gave up must still raise an action; the budget must hold up to one
  response; the loop must end.
* The rules live twice, in a file and in two globals, and are changed without a
  lock while other threads of the same process read them. What is saved must
  take effect, no half-written file may be loaded, an edit must change only the
  decisions it is about, and a verdict must be resolved by its most specific rule.
* The run store is written in place, by several processes, and read through a
  cache: what the dashboard shows is old or partial in between. It must show only
  what was persisted, lose no run that nobody touched, show for each fund its
  latest run, and never go back to an older one.
* The warehouse handle is shared by threads and outlives a rebuild; the build
  deletes, creates and fills a file that others may open, and may stop anywhere.
  A process must read one build, and a build must leave nothing behind
  that a later one would take for its own.
* The walk keeps one quantity twice, fund assets and class AUMs, over many days,
  and the injectors rewrite single days of what it wrote, or change tables that all
  funds share. The two must stay together, the tables must roll forward, and in the
  tables of a fund each defect that is seeded for it must be visible, and of those
  of other funds nothing but what the shared tables let through.
* The tools stand between the model and the warehouse with four descriptions of
  one call: the schema, the adapter, the signature, the SQL. The agent must get
  the rows it asked for, know when rows are missing, and never see the truth.

`PROJECT.json` lists these as hazards, each at its line with the properties that
would catch it, and lists the components with what is left out of each.

## 2. Modules

```
Policy  <----- Investigation        (what an investigation promises)
  ^  ^              ^
  |  |              | refinement: AgentLoop!Promise
  |  +--------- AgentLoop <---- MCAgentLoop
  |                 ^---------- AgentLoop_proofs
  +------------ PolicyStore <-- MCPolicyStore
  |                 ^---------- PolicyStore_proofs
  +--Dashboard <-- RunStore <-- MCRunStore
  |                 ^---------- RunStore_proofs
  +------------ Replay <------- MCReplay
  |                 ^---------- Replay_proofs
  +------------ Policy_proofs

Rationals <--- NavWalk <--- Defects <--- MCDefects
    ^                          ^------- Defects_proofs
    ^--------- Computation <--- Tools <--- MCTools
                               ^------- Tools_proofs

Warehouse <--- MCWarehouse
    ^--------- Warehouse_proofs
```

**Policy** holds pure operators: the types of `agent/schemas.py`, rule matching
and resolution (`_matches`, `apply_policy`), the parser of the verdicts block
(`_parse_verdicts`, `_coerce_verdict`) and the stand-in verdict.
`FollowsPrecedence` is the reference definition of the resolution, written
without the buckets of the code: the earliest of the most specific matching
overrides decides, a default only when there is none. A text is reduced to what
the parser finds in it, a confidence is a percentage, or the float that is nearest to
one.

**AgentLoop** is one investigation: `run_agent` with `call_messages`, `dispatch`
and `audit_tool`. `pc` says where the function is:

| `pc` | code | actions |
|---|---|---|
| `loop` | head of the `while` | `LeaveLoop`, `HaltOnBudget`, `BeginCall` |
| `calling` | `call_messages` | `RetryCall`, `FailCall`, `Answer` |
| `dispatching` | the `for` over the blocks | `SkipBlock`, `RejectTool`, `RunTool`, `AnswerTools` |
| `parsing` | iteration check, parser, stand-in, policy | `Conclude`, `Raise` |
| `saving` | `save_agent_run` | `Save`, `Raise` |
| `done`, `lost` | returned; stopped or raised | |

The model and the tools are the environment: a call returns any member of
`Replies`, a tool fails or not, an audit write succeeds or not. `Interrupt` is
the process being stopped. A response comes in one of two forms: plain dicts, as
tests and replays build them, or the SDK's objects.

**Investigation** is the abstract specification: tool calls are made one after
another; then the investigation is abandoned or reports once, and the report
accounts for every call and resolves every verdict by the precedence of the
rules. `AgentLoop!KeepsPromise` says that `run_agent` implements it.

**PolicyStore** is the life of the rules. A step is what no other thread of the
Streamlit process can come between: `write_text` is `Truncate` then `Write`,
`reload_policies` is `ReadBack`, `AssignOverrides`, `AssignDefaults`, and
`apply_policy` is one step for each of its four looks at a global. The page
script runs again at every interaction, so `Rendered` is a part of `Edit`,
`Rerun` and `ClickSave`; its widgets keep their value or take the stored one
(`keeps`), since both occur with keyed widgets. `Restart`, `FailWrite` and
`Import` are the failures and the recovery. `edited`, `before`, `versions` and
`held` are history: no action reads them.

**RunStore** is `audit/agent_runs` between its writers and its readers. A step
is one system call of one process: a save is `Truncate` (as part of `SaveRun`
for a live run, of `Generate` for a fixture or the manifest) then `Write`;
`reset_to_fixtures.py` is `Reset`, which lists, then `Unlink` for each file;
`load_all_runs` is `BeginLoad`, which lists, `ReadNext` or `FailLoad` for each
file in the order of the names, and `EndLoad`, which stores the list in the cache
and renders it. `Hit` renders the cached list. The ten seconds of
`@st.cache_data` have no clock: `Expire` may come at any time, and so the model
covers every duration, but does not say how old a page is at most. `Stop` and
`Restart` end a writer's process or Streamlit's. `version`, `persisted` and the
`due` part of a list are history: a list is due the files that were whole when it
was begun, with the versions they had. Streamlit computes one entry of a cache
once at a time; that is taken from how the library behaves, as is the sharing of
the cache by the sessions.

**Dashboard** holds what the pages compute from a list of runs, as the loops of
`ui/data_loaders.py` do it; the properties of `RunStore` say what the outcome
must be without them.

**NavWalk** and **Defects** are the phases of `build()` on the data of one fund,
in their order: each generator is an action that fills its table with one of the
possible draws (`WriteFx` to `WriteCapstock`), the pre-walk injectors change
those tables, `WalkDay` is `_step_one_day` and keeps its rows in `walk.rows` until
`BulkWrite` inserts them and completes trades and orders, the post-walk injectors
rewrite them, `UpdateCatalog` reads the outcome. `cursor` is the loop over
`DEFECT_SCHEDULE`. The walk of a fund reads no rows of another fund, so one fund is
followed; but prices, accruals, FX rates and corporate actions have no fund, and the
schedule is that of all funds. Before the walk an entry does the same to the tables
whosever it is (`Defect1`, `Defect3`, `Defect4`, `Defect7`); after it, one for another
fund leaves here what it puts in a shared table: an FX rate (`Defect2Elsewhere`), an
applied dividend without a receipt of this fund (`Defect9Elsewhere`), or nothing
(`RowsElsewhere`). Days are business days. Moves and tolerances are fractions where the
code has basis points; the management fee of a day is a rate per day.

`Solvent` says that the fund goes on: no class is without shares or worth
nothing, and on a day that is walked or operated on the fund has assets. The code
divides by these, and by a zero ends with a `ZeroDivisionError` or passes over a
step (`walk.py:250`, 311, `defects.py:621`); the model's `\oslash` would give some
value instead. `TypeOK` has it as a conjunct, so TLC shows that no behaviour of
the instance gets there.

**Rationals** holds exact fractions in lowest terms: one fraction for one amount,
so that `=` is equality. `Gcd` is Euclid's algorithm as a recursive function, of
one argument after the other. The code's floats differ from them by rounding,
about which no property here is.

**Warehouse** is the file `nav.duckdb` between its builders and its readers. On
one side `build()`, a step for each system call and each phase, with an exception
(`Close`) or a kill (`Kill`) anywhere; on the other the threads of one process,
which take the handle under the lock (`Acquire`, `Open` or `FailOpen`, `Return`)
and use it outside (`Execute`, `Fetch`). A file that was unlinked lives on for
those who have it open, and a writer locks its file: both are how the operating
system and DuckDB behave, and so is that the rows of an `execute` wait in the
connection for the next `fetchall`.

**Tools** is a sequence of tool calls: `dispatch` finds the tool, adapts the
arguments (`AdapterRaises`), runs it under audit (`Outcomes`), cuts and summarises
the result. Each of the 20 queries is one record, which says what its SQL filters
by (`equal`, `optional`, `within`), sorts by and shows; `Found`, `Orderings` and
`Project` interpret it, and rows that ORDER BY leaves open come in every order.
Each tool's schema and adapter are the sets of its required and its other
arguments. **Computation** holds the six computation tools as operators. Values
are numbers, `Null` or `Bad`, a text that the adapter cannot parse; the tolerance
of 1e-9 of the flat runs is zero on numbers.

**Replay** is `replay_agent`: it loads a persisted run, runs the agent again,
which may fail and may leave a torn file, and compares. A replay may be replayed.
Confidences are floats, which Python subtracts with their error: `Minus` gives the
difference, numbered among the floats in their order, and is a constant. In the run
it has the exact differences of 0.9, 0.7, 0.6 and 0.5.

Definitions named `..._Dev` and `LogCall_Lost` are not part of the model. Each
is a fault that the definition below it is checked not to have: put in its
place, it makes the property named in `PROJECT.json` (`mutants`) fail.

## 3. What TLC checks

Runs that pass:

* **AgentLoop** (27,608 states). At most two turns, a budget of two tokens
  that one response of three passes, two attempts per call; the answers lead the
  loop and the parser down each path: one or two calls, an unknown tool, a
  thinking block, text beside a call, every stop reason, and final texts without
  a block, malformed, with good, odd, unreadable, non-object and overflowing
  items. Two turns suffice to have an earlier turn whose text, results or call
  ids could be mistaken for the last one's; a third adds only length.
  `TypeOK`, `HistoryWellFormed`, `LogMatchesHistory`, `SpendingBounded`,
  `HaltedReasonMeaning`, `UnconvergedIsRaised`, `VerdictsAreTheLastAnswers`, the
  liveness property `Terminates` and the refinement `KeepsPromise` hold.
* **PolicyStore** (357,665 states). One session and one resolving thread, two
  edits, one failed write or restart (`MaxEdits`, `MaxFailures`), an override
  for a fund listed before a more specific one, two defaults, and a verdict in
  each of two funds. `TypeOK`, `LoadedWhole`, `ChangeTakesEffect`,
  `UndisturbedDecisions` and the action property `EditsAreLocal` hold. Two edits
  are what a save, a rerun and a second save with different content need.
* **RunStore** (1,691,288 states). A live run, saved twice as
  `record_demo_runs.py` does, and a fixture of the same fund, which is generated with
  a date before or after it; two sessions (interchangeable, hence the symmetry). The
  live run's file is read before the fixture's, so that a torn or removed file
  precedes a whole one and the latest run may be read first or last; the second
  session is the one that meets the cache of the first. The live run converged
  without a verdict or an action (as those of `AgentLoopSdk` do), the fixture found
  two defects and blocks the NAV. `TypeOK`, `ViewsShowPersisted`, `ViewsAreComplete`,
  `RowsAreCurrent` and the action property `RowsAdvance` hold. `RowsAreCurrent` says
  what `AUTO_SIGN_OFF` in a row means: the latest run asked for nothing else, or for
  nothing at all. `RowsAreCurrent` and `RowsAdvance`
  exempt a run that is removed or rewritten: during the second save of
  `record_demo_runs.py:71` a page may miss a run it showed before.
* **Defects** (15,870 states). Three funds in turn: two classes without a
  performance fee, one class with one, and one class with the defects of the
  other funds, among them two in one schedule. Some schedules have an entry for
  another fund: a missed action and a missed coupon of an instrument the followed
  fund holds, or does not hold, an FX rate, a dividend taxed wrongly, a fee. Four days: the defects come on the
  third, so that there is a day before with a day before it, and a day after. The
  draws are two FX paths, three price paths, dividends paid in the window or moved
  to its end, trades that open, close and overdraw a position, and flows on the
  day of the defect. Fees, moves and flows are large, so that a wrong term is not
  lost in another. `TypeOK`, `BooksBalance`, `AssetsExplained`, `NavChains`,
  `RowsAgree`, `SharesRollForward`, `PositionsReconcile` and
  `SignalsAreAccountedFor` hold. Each names the days that injectors marred, and claims
  the others; deadlock is checked, so every build comes to its end.
* **Warehouse** (43,767 states). Two threads with two calls each, two builds of
  three phases, a kill, an exception or a restart anywhere. Two builds are what it
  takes to replace a file that is open or to leave a log beside another file.
  `OneHandle`, `OneBuildPerProcess`, `WalIsOfTheFile`, the action property
  `HandlesAreSnapshots` and the liveness property `CallsReturn` hold.
* **Tools** (31,488 states). Two warehouses that differ in the columns of the
  ground truth; for each of the 26 tools every choice of arguments from a few
  values, left out, null and unparsable ones among them, and an unknown tool; a
  cut after two rows, which the tables exceed; every series of up to four values.
  A call is made twice (`MaxCalls`, `MaxDifferent`): calls share nothing but
  the warehouse and the logs. `AnswersAreTheAsked`, `SchemaIsHonoured`,
  `Reproducible`, `GroundTruthHidden`, `RecordsAgree`, `FlatRunsAreMaximal` and
  `FeeStopsAtTheHurdle` hold.
* **Replay** (937,662 states). Runs with up to three verdicts of two types, types
  reported twice, runs that did not converge, tools that overlap by nothing, a
  third, a half and all. Confidences are at the tolerance as floats have it: 0.9 and
  0.7 are further apart than 0.2, 0.7 and 0.5 are not. `MatchIsWarranted` holds: a
  match means the same defects, tools that overlap and, of each defect, a pair of
  reports that agree; and runs whose every pair agrees do match. Where no type is
  reported twice the two say the same, which is what the docstring asks for.

Deadlock is checked in `Defects` only. Elsewhere the system comes to rest: an
investigation ends in `done` or `lost`; with the edits used up and a failed import
the store may stop, as may a directory whose writers are done; builds and calls
of `Warehouse` and `Tools` are bounded; a replay ends in its report.

Fairness: `AgentLoop` has `WF_vars(Progress)`: `run_agent` is sequential code
whose waits are bounded (the SDK's requests time out, the tools are bounded
queries, the backoff doubles a fixed number of times), so as long as it is not
interrupted it takes its next step. `Warehouse` has `WF_vars(Step(t))` for each
thread: a call waits for nothing but the lock, which is held for the length of
one `connect`; since every holder releases it and each thread has a bounded number
of calls, weak fairness is enough for the waiting thread. `Interrupt`, `Kill`,
`Restart` and the steps of `build()` are not fair.

Runs that violate what the repository says, each checking one property:

| run | the repository says | what TLC finds |
|---|---|---|
| AgentLoopSdk | "The run must converge and produce a verdicts block." (`tests/agent/test_agent_defect_3.py:16`) | the conditional expression at `core.py:275` is `None` for every block that is not a dict: the SDK's blocks lose their content, and a run that was answered well converges without a verdict |
| PolicyTornRead | "per-fund-defect overrides take precedence over defaults" (`policies.py:5`) | while an override for a fund is narrowed to one of its defects, a concurrent `apply_policy` sees neither form and a default decides |
| NavLiability | fees reduce cash, but "the NAV math is equivalent" to keeping them as liabilities (`walk.py:17-19`) | the whole performance fee balance leaves the NAV every day (`walk.py:272`), its change alone leaves the cash (300): from the second day on the NAV is not what the fund owns |
| WarehouseRebuild | "deterministic from a fixed seed" (`README.md:76`) | `portfolio_init.py:53` seeds with `hash(fund_id)`, which Python salts in each process |
| WarehouseThreads | "Thread-safe." (`_db.py:39`) | the lock guards the handle and not its use: a thread fetches what another executed |

`NavLiability` uses the instance of `Defects`; the others use smaller ones, chosen
so that the behaviour in question is reachable.

Disagreements met while reading, which no run checks:

* `README.md:48` has every tool call logged; `dispatch` answers an unknown tool and
  unusable arguments without entering the audited function, and a line that
  cannot be written is dropped (`_audit.py:124`).
* With two sessions on the Configuration page, save and reload interleave
  (`4_Configuration.py:240`), and the rules in memory may stay older than the file;
  a save without an edit turns an absent `fund_id` into `""` (162), which disables
  the defect-only overrides of `policies.py:89`; a failed save leaves an empty file
  (49), and saving once more stores no rules at all.
* `data_loaders.py:30-32` says that the cache notices new files; `load_all_runs`
  has no arguments, so only its ten seconds end it. `fixtures_manifest.json` is
  loaded as a run (38).
* `dispatcher.py:250-251` and 260-261: `start_date` without `end_date` is no filter, and
  nothing tells the model.
* `tests/tools/test_tool_hygiene.py:1-11` scans the SQL for columns and tables that
  would leak ground truth; the ids `CA_DEFECT_...`, `CS_DEFECT_...` and
  `DR_DEFECT_...` of the injected rows are returned as values, and name the defect.
* "Every SQL has an `ORDER BY`" (`docs/architecture.md:150-151`): some have none, and
  none of these needs one, since they return at most one row (`Reproducible`).
* `agent/prompts/system_prompt.md:27` and `defect_checklist.md:24,32` tell the agent
  to call `compute_attribution`, which the registry does not have.
* `docs/defects.md` #8 has the late order stamped 11:45; the injector stores the time
  of receipt, 13:30 (`defects.py:461`), which is what the same section's detection
  signal asks for. #10 has class A's fee charged, about 8 bps; the injector
  charges ten times that (`defects.py:575`).
* `replay.py:8-11` asserts the same severities; of a type that is reported twice the
  earlier report is not looked at (110), so runs match whose severities differ, and
  `MatchIsWarranted` claims nothing of it.
* "Each defect lives on exactly one fund-day." (`README.md:7`): the walk pays no fund
  the dividend of defect 3 and takes the frozen accrual of defect 7 for all, so each
  holder of that share or bond has the defect, and each holder of the share of
  defect 9 an applied dividend without a receipt. `SignalsAreAccountedFor` says which.
* `data_loaders.py:120` shows a run that asked for no action as `AUTO_SIGN_OFF`, like
  one that was signed off.

## 4. What TLAPS proves

The theorems hold for every value of the constants that meets the named
assumptions, which TLC evaluates in the runs: `PolicyAssumption`,
`LoopAssumption`, `RulesAssumption`, the `StoreAssumption` of each store,
`ReplayAssumption`; `BoundsAssumption`, `PhasesAssumption` and `NoneAssumption` of
the warehouse; `WarehousesAssumption` (the tables have the columns and the primary
keys of `schema.py`, and numbers where a query compares), `CallsAssumption` (an
argument that an adapter parses is absent, unreadable or a number, and a `series` is a
list of numbers, amounts being counted in a unit they are multiples of),
`BoundsAssumption` and
`NoneAssumption` (`Null` and `Bad` are no numbers) of the tools; and those of the
walk: prices, rates, coupons and the quantities of trades are above zero, draws are
finite, of known instruments and of days of the window, no baseline order is late,
amounts are fractions (`InstrAssumption` to `FundsAssumption`), an entry of the
schedule is for a day of the window and has what its injector reads
(`ScheduleAssumption`), and the ids of the injected actions are no others
(`IdsAssumption`).

Five theorems have a hypothesis besides, since they fail without it:

* `ChangeAlwaysTakesEffect` and `EditsAlwaysLocal` are about one session
  (`Sessions = {s}`): of two, the one that read the file first may assign last.
* `EditsAlwaysLocal` wants the page to show every override of the shipped file as it
  is (`Clean(Shipped)`), as it does those of `config/policies.yaml`: an absent
  `fund_id` would become `""` at the first save (`4_Configuration.py:162`).
* `PositionsAlwaysReconcile` wants no day of the fund with two trades to book the wrong way
  (`OneFlip`): they could make up for each other. `DEFECT_SCHEDULE` has one such entry in
  all (`config.py:162`).
* `SignalsAlwaysAccountedFor` wants schedules whose entries tell something (`Telling`): no
  code twice, a day before to go back to, at most as many frozen days as
  there are before the day, a rate other than the treaty's, a mark moved by something,
  and a fee taken from a class that charges one and has no high-water mark (with one,
  its assets before fees could be zero, and so could the fee). Those of
  `DEFECT_SCHEDULE` are such, and so are those of the run.
* `FeeAlwaysStopsAtTheHurdle` wants no call to ask for a fee of more than the whole
  return (`FeesArePartial`: `perf_fee_bps` up to 10000). The code turns none away;
  the largest of `config.py` is 2000.

The theorems about the tables of the walk read `Spec /\ []Solvent => []P`: they are
about a fund that goes on. `NavAlwaysChains` needs no such hypothesis.

* **Policy_proofs**: `PolicyFollowsPrecedence`, the four-bucket look-up equals
  the reference definition for any rule lists; `PolicyActionType`;
  `CoercedVerdictIsLegal`, whatever an item holds. `FirstOf` says what the
  library's `SelectInSeq` returns, and the proofs of the agent loop and of the
  rule store use it. `FoldExists` and `LoopInduction` say what a loop over a list
  computes: the library's fold is a function that exists, shown of a least length
  for which it would not, and what each pass keeps holds at its end. The proofs
  about verdicts by type, the latest run of a fund and the strictest action use
  them in place of an induction theorem.
* **AgentLoop_proofs**: all that the run checks but `Terminates`: `TypeCorrect`
  (`TypeOK` is inductive), `BudgetHolds`, `HaltedReasonsAreTrue`,
  `NoSilentFailure`, `TranscriptIsLegal`, `LogAgreesWithTranscript`,
  `VerdictsAreLast` and `RunKeepsPromise`. The invariant of the first ones is
  `LoopInv`. `SpendingBounded` is not inductive alone, since a call may be
  entered at any usage: `LoopInv` adds that in `calling` the budget has not been
  passed. Likewise the halted reason is undisturbed and the stop reason is not
  final while the loop goes on (`Undisturbed`), and from `saving` on every policy
  action follows the precedence. `PromiseNext` maps the steps: `RejectTool` and
  `RunTool` to `Inquire`, `Save` to `Report`, `Raise` and `Interrupt` to
  `Abandon`, all others to a stutter. Transcript and log are equal only between
  turns, so `TranscriptInv` and `LogInv` say what a half dispatched turn has done:
  the results so far answer the calls before the cursor, in order (`DispatchInv`),
  the log is what the transcript shows and `Pending`, and the ids in it are of
  earlier turns or earlier blocks. `FinalInv`: `final_text` is empty until the loop
  is left, then the text of the last turn.
* **PolicyStore_proofs**: all that the run checks. `StoreTypeCorrect`,
  `NeverLoadedTorn` and `UndisturbedDecisionsCorrect` are for any number of
  sessions, runners, edits and failures. `StoreInv` adds to `LoadedWhole` that the file is empty or was
  written whole, that what a session has parsed came from such a file, that a
  resolving thread's `held` contains the present globals, and that each list it
  has read belongs to a member of `held`. `ChangeAlwaysTakesEffect` needs `Behind`:
  between a save and its two assignments the rules in memory are behind the file
  by as much as the page's place in the save says. `EditsAlwaysLocal`, an action
  property, needs `Tracked`: what the page shows and was not edited is what the
  file has, row by row, through edits, reruns, failed writes and restarts; and
  that a decision that changes was made by a rule that changed
  (`OnlyTheEditedDecide`), which follows from `PolicyFollowsPrecedence`.
* **RunStore_proofs**: all that the run checks, for any number of runs, fixtures,
  manifests and sessions. For `TypeCorrect`, `OnlyPersisted` and `NoneMissing`, `StoreInv` adds that a file
  exists only once its writer has begun and a whole one is on record (`FilesInv`);
  that a list owes a file in a version not above the present one, and that an
  equal version means an untouched file (`Owes`); and that while a list is being
  built, what it owes is in it or still to be read (`LoadInv`). `OrderlyList`
  carries a list over the steps of all writers at once: each changes a file or its
  report only along with its version. `RowsAlwaysCurrent` and `RowsAlwaysAdvance`
  add `RowsInv`: a report bears its own name and fund (`Named`), a list has one
  entry of a name (`OnceInv`), and what a page's list owes of the files as they are
  the cached list and the one being built owe too (`Forward`), without which a
  session could step back when the cache is filled by another.
* **Warehouse_proofs**: `TypeCorrect`, `OneHandleAlways`, `OneBuildAlways`,
  `WalAlways` and `SnapshotsAlways`, for any number of threads, queries, phases,
  builds and calls. `IInv` joins the types with three parts. `LockInv`: only one thread is between taking
  and releasing the lock, and it is the one the lock names; without it two threads
  could both find no handle, and `OneHandle` would not survive `Open`. `HandleInv`:
  the process has at most one, every thread past the lock uses it, and all that
  was read came from its file. `BuildInv`: which of the two files is gone at each
  step of `build()`, and that a running build writes the newest file; without it
  a log could be left beside another file than its own. `SnapInv` adds for the
  snapshots that a file which is being written is open, and one that somebody
  reads is not.
* **Replay_proofs**: `TypeCorrect`, that only whole runs are compared;
  `RecordKept`, that a replay only adds to `audit/agent_runs`, however it ends; and
  `MatchAlwaysWarranted`, what a match means and what makes one, for any two runs and
  however floats are subtracted. The report that `compare_runs` reads of a type is one
  of its reports (`LastReport`), so a match has an agreeing pair of each type
  (`LastPair`); all that is used of `Minus` is that it is numbered from 0.0 to 1.0.
* **Tools_proofs**: all that the run checks. `AnswersAlwaysTheAsked`, `SchemaAlwaysHonoured`,
  `AlwaysReproducible`, `GroundTruthAlwaysHidden` and `RecordsAlwaysAgree` are for
  warehouses of any size, all 26 tools, any arguments and any bound of the cut. The
  invariant `Truthful` says that each answer is one the tool may give (`Answers`)
  and that the two records are of those answers; the rest is about `Outcomes`. A
  sorting of a finite set exists and lists each row once; two sortings of rows
  that differ in a column of the order are the same, and the primary key makes
  them differ for every query that can return two rows; a filter, an order or a
  projection that does not name a hidden column does not see it.
  `FlatRunsAlwaysMaximal` is about one pass over a list: after each element the runs
  returned are the maximal ones that have ended and the open one is maximal so far
  (`PassScans`, by the loop lemmas of `Policy_proofs`, which are instantiated).
  `FeeAlwaysStopsAtTheHurdle` relates fractions to what they mean (`Worth`), for
  which this module has its own lemmas, since those of `Defects_proofs` come with the
  variables of the walk. Both need `Sent`: what was computed was computed of a call,
  whose parsed arguments are numbers.
* **Defects_proofs**: `NavAlwaysChains`, `AlwaysTypeOK`, `RowsAlwaysAgree`,
  `BooksAlwaysBalance`, `AssetsAlwaysExplained`, `SharesAlwaysRollForward`,
  `PositionsAlwaysReconcile` and `SignalsAlwaysAccountedFor`, for any number of days, classes, instruments, trades,
  flows, dividends and scheduled defects.
  The arithmetic is proved first: `Gcd` is the greatest common divisor (of a least
  counterexample to it), a fraction in lowest terms is determined by what it means
  (Gauss's lemma), so `\oplus` and `\otimes` obey the laws of a field; `Total` is
  a sum over a finite set, with any element added last (`OverRemove`), term by term
  (`OverAdds`), through a renaming (`OverImage`) or by parts (`OverFibers`).
  Each property then has its invariant:
  - `ChainInv`: the state of a class is the last row written for it, rows in memory
    chain without exception, and each injector rewrites one day, keeping the
    day's prior or taking it from the row before.
  - `Typed`: what `TypeOK` says, of every column and of the inputs; prices and
    rates stay above zero through the pre-walk injectors, which is why dividing
    by them is no concern of `Solvent`.
  - `Agreeing`: the columns agree in memory and in the tables at once, since the
    bulk insert takes the one for the other.
  - `Balancing`: the fund's `prior` is the worth of its classes (`Worth`). Without
    it the return that `walk.py:249` takes of the fund and gives to each class
    would not add up to the assets.
  - `Following`: cash and positions of the walk are those of its last rows. The
    sum over the positions is regrouped by instrument (`ValueIsLinear`), and what
    was traded is worth what was paid (`TradesAreNeutral`).
  - `Rolling`: in memory the shares roll by what each order comes to, in the tables by
    what its filed delta says; until the bulk insert an order has the delta zero, so
    no two become one when the walk fills them in.
  - `Reconciling`: a trade is not flipped before the schedule has passed its entry, and
    positions add up by the trades as long as none of the day is. A flip changes
    the sum since a quantity is not zero.
  - `Signalling`: one invariant per signal, each an equivalence between what the tables
    show and the entries that the loops have passed (`Injected`, `Acted`). `Accruing`:
    a bond accrues by the coupon except in a frozen window, so only its last day
    stands still and then moves; whose entry it is does not matter. `Ordering`: orders
    booked after their cutoff are the injector's. `Payments`: the walk pays each applied
    action to its holders; nothing pays the one that defect 3 adds, and the one of
    defect 9 has a receipt of the entry's own fund only (`ReceiptIsOwn`). `SignalsByKind`
    and `SeedsByKind` put the kinds together. `Taxing`, `Marking`, `Charging`: rates,
    marks and fees are the fund's but where an entry says otherwise; a fee is compared
    with assets before fees that no injector restates (`SurgeryGross`), and a fee
    charged on top shows since those of the other class are not zero.

Only model-checked, and why:

* `Terminates` and `CallsReturn`: liveness is out of the prover's reach.
* The refutations of section 3 are counterexamples; there is nothing to prove.

## 5. What is not modelled

* In the agent loop and the rules: prompts and their versions, timings, token kinds
  (cache tokens do not count toward the budget in the code either), the content of
  tool results, the escalation target and channel of a rule (they travel with its
  `rule_id`), which HTTP statuses are transient, the number fields of the form,
  adding or removing rules by hand in the file. Where two sessions have the rule
  file open at once, the tail that a longer text leaves behind a shorter one is not
  represented.
* In the run store: the age of a cached page, the date filter of the dashboard
  (the model is its default, all dates), the explorer table, `load_run` and its
  cache, the order in which the fixtures are generated, and two live runs with the
  same microsecond in `started_at`. `Manifests` is empty in the run, which would
  otherwise be too long with two sessions; with the manifest and one session the
  same properties hold, and the theorems cover it.
* In the walk and the injectors: how random numbers are distributed (a draw is any
  member of a small set), the rounding of floats, two of the four FX snaps, and the
  rows of the funds that are not followed; what these do to the tables all funds share
  is in the model, by any choice where it depends on their holdings
  (`Defect9Elsewhere`).
* In the warehouse: `set_db_path` and `close_connection`, which nothing in the
  repository calls; what DuckDB does between two system calls.
* In the tools: the tables' columns that no filter, order or property looks at.
* Page rendering, styling, command lines, the verification script and the static
  reference data are I/O or data without control of their own. `PROJECT.json` lists
  each.

## 6. Plan

What is left, in this order:

1. The rest of the readers of the run store: `load_run` with its own cache, which
   does not expect a torn file, and the explorer table.
2. `compute_attribution`, once the registry has it.
