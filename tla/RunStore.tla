------------------------------ MODULE RunStore ------------------------------
(***************************************************************************)
(* The persisted investigations and their readers: the files of            *)
(* audit/agent_runs, written in place by save_agent_run (agent/core.py),   *)
(* by scripts/record_demo_runs.py, which saves each run a second time, and *)
(* by scripts/generate_fixture_runs.py, removed by                         *)
(* scripts/reset_to_fixtures.py, and read through a cache by the pages of  *)
(* the UI (ui/data_loaders.py).                                            *)
(*                                                                         *)
(* Writers, scripts and the UI are processes of their own.  A file is one  *)
(* step per system call: listed, truncated, written, read, removed.  The   *)
(* ten seconds of the cache have no clock: it may expire at any time.      *)
(***************************************************************************)
EXTENDS Dashboard, FiniteSets

CONSTANTS
  Live,           \* the runs that run_agent makes
  Demo,           \* the ones record_demo_runs.py makes
  Fixtures,       \* the runs of generate_fixture_runs.py
  Manifests,      \* fixtures_manifest.json, or nothing
  Rank,           \* the place of each file name in their sorted order
  Funds,
  FundOf,         \* the fund of each run
  OutcomeOf,      \* how its investigation ends
  FixtureTimes,   \* started_at of a fixture: it depends on hash(suffix)
  Sessions        \* browser sessions

Generated == Fixtures \cup Manifests
Names     == Live \cup Generated

Outcome == [converged : BOOLEAN, verdicts : Seq(Verdict), policy_actions : Seq(Actions)]

ASSUME StoreAssumption ==
  /\ Live \cap Generated = {} /\ Fixtures \cap Manifests = {} /\ Demo \subseteq Live
  /\ Rank \in [Names -> Nat] /\ \A m, n \in Names : Rank[m] = Rank[n] => m = n
  /\ Missing \notin Funds
  /\ FundOf \in [Live \cup Fixtures -> Funds]
  /\ OutcomeOf \in [Live \cup Fixtures -> Outcome]
  /\ FixtureTimes \subseteq Nat /\ FixtureTimes # {}
  /\ "nobody" \notin Sessions

VARIABLES
  clock,      \* of started_at: how many runs have started
  phase,      \* what the writer of each run is doing
  report,     \* the AgentRun it has in memory
  disk,       \* its file: "absent", "torn" (truncated, not written) or "whole"
  doomed,     \* the files reset_to_fixtures.py has still to remove
  loader,     \* the session that computes load_all_runs, or Nobody
  todo,       \* the files it has listed and not read
  runs,       \* the list it builds
  due,        \* history: the whole files when it listed them, as << n, version[n] >>
  cache,      \* the cached list, or NoCache
  view,       \* the list each session renders
  version,    \* history: how often a file was truncated or removed
  persisted   \* history: the records that were ever written whole

writerVars  == << clock, phase, report, disk, doomed >>
loadVars    == << loader, todo, runs, due >>
historyVars == << version, persisted >>
vars == << writerVars, loadVars, cache, view, historyVars >>

Nobody  == "nobody"
NoView  == [runs |-> << >>, due |-> {}]
NoCache == [valid |-> FALSE, list |-> NoView]

(* A JSON file of the directory as its reader sees it.  The manifest has   *)
(* neither a fund nor a started_at (which then counts as datetime.min).    *)
AgentRun(n, t) ==
  [name |-> n, fund |-> FundOf[n], started |-> t, converged |-> OutcomeOf[n].converged,
   verdicts |-> OutcomeOf[n].verdicts, policy_actions |-> OutcomeOf[n].policy_actions]

ManifestEntry(n) ==
  [name |-> n, fund |-> Missing, started |-> -1, converged |-> FALSE,
   verdicts |-> << >>, policy_actions |-> << >>]

Phases == {"idle", "running", "saving", "saved", "again", "resaved", "stopped"}

-----------------------------------------------------------------------------
(* The fixtures have been generated in full, or never.                     *)
Init ==
  /\ clock = 0
  /\ \E done \in BOOLEAN, times \in [Fixtures -> FixtureTimes] :
       LET there == IF done THEN Generated ELSE {}
       IN  /\ phase = [n \in Names |-> IF n \in there THEN "saved" ELSE "idle"]
           /\ report = [n \in Names |->
                IF n \in Manifests THEN ManifestEntry(n)
                ELSE AgentRun(n, IF n \in Fixtures THEN times[n] ELSE 0)]
           /\ disk = [n \in Names |-> IF n \in there THEN "whole" ELSE "absent"]
           /\ persisted = {report[n] : n \in there}
  /\ doomed = {}
  /\ loader = Nobody /\ todo = {} /\ runs = << >> /\ due = {}
  /\ cache = NoCache
  /\ view = [s \in Sessions |-> NoView]
  /\ version = [n \in Names |-> 0]

-----------------------------------------------------------------------------
(***************************************************************************)
(* The writers.                                                            *)
(***************************************************************************)

(* run_agent begins, and sets started_at.  Its file is named for the       *)
(* second, so two runs may be sorted in either order.  (How it ends is     *)
(* settled here, though it is known only when it is saved.)                *)
Start(n) ==
  /\ n \in Live /\ phase[n] = "idle"
  /\ clock' = clock + 1
  /\ phase' = [phase EXCEPT ![n] = "running"]
  /\ report' = [report EXCEPT ![n] = AgentRun(n, clock')]
  /\ UNCHANGED << disk, doomed, loadVars, cache, view, historyVars >>

(* write_text opens the file, new or old, which empties it, ...            *)
Truncate(n) ==
  /\ phase' = [phase EXCEPT ![n] = IF @ = "saved" THEN "again" ELSE "saving"]
  /\ disk' = [disk EXCEPT ![n] = "torn"]
  /\ version' = [version EXCEPT ![n] = @ + 1]
  /\ UNCHANGED << clock, doomed, loadVars, cache, view, persisted >>

(* ... at the end of run_agent, once more in record_demo_runs.py, ...      *)
SaveRun(n) ==
  /\ n \in Live
  /\ phase[n] = "running" \/ (phase[n] = "saved" /\ n \in Demo)
  /\ Truncate(n)
  /\ UNCHANGED report

(* ... or in generate_fixture_runs.py, which writes the fixtures one after *)
(* another and then the manifest: hash(suffix), and so started_at, is      *)
(* another one in another process, ...                                     *)
Generate(n) ==
  /\ n \in Generated
  /\ phase[n] \in {"idle", "saved"}
  /\ \A m \in Generated : phase[m] \notin {"saving", "again", "stopped"}
  /\ n \in Manifests => \A f \in Fixtures :
       phase[f] = "resaved" \/ (phase[f] = "saved" /\ phase[n] = "idle")
  /\ Truncate(n)
  /\ \E t \in FixtureTimes :
       report' = [report EXCEPT ![n] = IF n \in Fixtures THEN AgentRun(n, t) ELSE @]

(* ... and fills it: in vain where the file was removed meanwhile.         *)
Write(n) ==
  /\ phase[n] \in {"saving", "again"}
  /\ phase' = [phase EXCEPT ![n] = IF @ = "saving" THEN "saved" ELSE "resaved"]
  /\ IF disk[n] = "torn"
     THEN /\ disk' = [disk EXCEPT ![n] = "whole"]
          /\ persisted' = persisted \cup {report[n]}
     ELSE UNCHANGED << disk, persisted >>
  /\ UNCHANGED << clock, report, doomed, loadVars, cache, view, version >>

(* The writer's process is stopped.                                        *)
Stop(n) ==
  /\ phase[n] \in {"running", "saving", "again"}
  /\ phase' = [phase EXCEPT ![n] = "stopped"]
  /\ UNCHANGED << clock, report, disk, doomed, loadVars, cache, view, historyVars >>

(* reset_to_fixtures.py --apply lists what is neither a fixture nor the    *)
(* manifest, then removes one after the other.                             *)
to_delete_Dev == {n \in Live \cup Fixtures : disk[n] # "absent"}
to_delete     == {n \in Live : disk[n] # "absent"}

Reset ==
  /\ doomed = {}
  /\ doomed' = to_delete
  /\ UNCHANGED << clock, phase, report, disk, loadVars, cache, view, historyVars >>

Unlink(n) ==
  /\ n \in doomed
  /\ doomed' = doomed \ {n}
  /\ disk' = [disk EXCEPT ![n] = "absent"]
  /\ version' = [version EXCEPT ![n] = @ + 1]
  /\ UNCHANGED << clock, phase, report, loadVars, cache, view, persisted >>

-----------------------------------------------------------------------------
(***************************************************************************)
(* load_all_runs and its cache, which is shared by the sessions and        *)
(* computed by one of them at a time.                                      *)
(***************************************************************************)

Hit(s) ==
  /\ cache.valid
  /\ view' = [view EXCEPT ![s] = cache.list]
  /\ UNCHANGED << writerVars, loadVars, cache, historyVars >>

Expire ==
  /\ cache' = NoCache
  /\ UNCHANGED << writerVars, loadVars, view, historyVars >>

BeginLoad(s) ==
  /\ ~ cache.valid /\ loader = Nobody
  /\ loader' = s
  /\ todo' = {n \in Names : disk[n] # "absent"}
  /\ runs' = << >>
  /\ due' = {<< n, version[n] >> : n \in {m \in Names : disk[m] = "whole"}}
  /\ UNCHANGED << writerVars, cache, view, historyVars >>

(* The next file, in the order of the names.                               *)
NextFile(n) == n \in todo /\ \A m \in todo : Rank[n] <= Rank[m]

IsJson_Dev(n) == disk[n] # "absent"
IsJson(n)     == disk[n] = "whole"

Skip_Dev(n) == todo' = {}
Skip(n)     == todo' = todo \ {n}

(* It is read; one that is not JSON is passed over.                        *)
ReadNext(n) ==
  /\ loader # Nobody /\ NextFile(n)
  /\ \/ IsJson(n) /\ todo' = todo \ {n} /\ runs' = Append(runs, report[n])
     \/ disk[n] = "torn" /\ Skip(n) /\ UNCHANGED runs
  /\ UNCHANGED << writerVars, loader, due, cache, view, historyVars >>

(* It was removed after it was listed: FileNotFoundError ends the page.    *)
FailLoad_Dev(n) ==
  /\ loader # Nobody /\ NextFile(n) /\ disk[n] = "absent"
  /\ todo' = {}
  /\ UNCHANGED << writerVars, loader, runs, due, cache, view, historyVars >>

FailLoad(n) ==
  /\ loader # Nobody /\ NextFile(n) /\ disk[n] = "absent"
  /\ loader' = Nobody /\ todo' = {} /\ runs' = << >> /\ due' = {}
  /\ UNCHANGED << writerVars, cache, view, historyVars >>

EndLoad ==
  /\ loader # Nobody /\ todo = {}
  /\ LET list == [runs |-> runs, due |-> due]
     IN  /\ cache' = [valid |-> TRUE, list |-> list]
         /\ view' = [view EXCEPT ![loader] = list]
  /\ loader' = Nobody /\ runs' = << >> /\ due' = {}
  /\ UNCHANGED << writerVars, todo, historyVars >>

(* The Streamlit process is stopped, the load with it, and started again.  *)
Restart ==
  /\ loader # Nobody
  /\ loader' = Nobody /\ todo' = {} /\ runs' = << >> /\ due' = {}
  /\ cache' = NoCache
  /\ UNCHANGED << writerVars, view, historyVars >>

Next ==
  \/ Reset \/ Expire \/ Restart
  \/ \E n \in Names : \/ Start(n) \/ SaveRun(n) \/ Generate(n) \/ Write(n)
                      \/ Stop(n) \/ Unlink(n) \/ ReadNext(n) \/ FailLoad(n)
  \/ \E s \in Sessions : Hit(s) \/ BeginLoad(s)
  \/ EndLoad

Spec == Init /\ [][Next]_vars

-----------------------------------------------------------------------------
(***************************************************************************)
(* Properties.                                                             *)
(***************************************************************************)

Entry == [name : Names, fund : Funds \cup {Missing}, started : Nat \cup {-1},
          converged : BOOLEAN, verdicts : Seq(Verdict), policy_actions : Seq(Actions)]

List == [runs : Seq(Entry), due : SUBSET (Names \X Nat)]

\* Every variable has its type.
TypeOK ==
  /\ clock \in Nat
  /\ phase \in [Names -> Phases]
  /\ report \in [Names -> Entry]
  /\ disk \in [Names -> {"absent", "torn", "whole"}]
  /\ doomed \subseteq Live
  /\ loader \in Sessions \cup {Nobody}
  /\ todo \subseteq Names
  /\ [runs |-> runs, due |-> due] \in List
  /\ cache \in [valid : BOOLEAN, list : List]
  /\ view \in [Sessions -> List]
  /\ version \in [Names -> Nat]
  /\ persisted \subseteq Entry

\* Whatever a page shows was at some time the whole content of a file: a
\* reader that meets a file while save_agent_run is rewriting it in place, or
\* after its writer died, shows nothing of it, nor a mixture of two versions.
ViewsShowPersisted == \A s \in Sessions : ToSet(view[s].runs) \subseteq persisted

\* A run that was whole when a page's list was begun, and has been neither
\* removed nor rewritten since, is in it as it is on disk: no torn file beside
\* it, no load that failed over a removed one and no other session's load
\* hides it.
Undisturbed(s) == {n \in Names : << n, version[n] >> \in view[s].due}

ViewsAreComplete ==
  \A s \in Sessions, n \in Names : n \in Undisturbed(s) => report[n] \in ToSet(view[s].runs)

Found(r) == {v.severity : v \in {u \in ToSet(r.verdicts) : RealDefect(u)}}
IsGravest(rank, x, S, least) ==
  x \in S \cup {least} /\ \A y \in S : rank[y] <= rank[x]

Table(s) == runs_to_dashboard_table(view[s].runs, Funds)

\* A fund's row shows a run of the page's list, none older than an undisturbed
\* run of the fund that was whole when the list was begun.  Its severity and its
\* action are the gravest that this run found and asked for, no graver and no
\* milder: a row that says AUTO_SIGN_OFF is of a run that asked for nothing
\* else, or for nothing at all, which the row does not tell apart
\* (data_loaders.py:120), and one that says "complete" of a run that converged.
RowsAreCurrent ==
  \A s \in Sessions, f \in Funds :
    LET row == Table(s)[f] IN
    /\ \A n \in Undisturbed(s) \ Manifests :
         FundOf[n] = f => row.started >= report[n].started
    /\ row.status # "not_run" =>
         \E r \in ToSet(view[s].runs) :
           /\ r.name = row.run_id /\ r.fund = f /\ r.started = row.started
           /\ row.status = "complete" <=> r.converged
           /\ IsGravest(ActionRank, row.action, ToSet(r.policy_actions), "AUTO_SIGN_OFF")
           /\ IsGravest(SeverityRank, row.severity, Found(r), "NONE")

Refreshes(s) == view'[s] # view[s]

\* A fund's row never goes back to an older run, unless the run it showed was
\* removed or rewritten since: sessions share one cache, loads fail over the
\* files of others and the UI restarts, and yet no page travels back in time.
RowsAdvance ==
  [][\A s \in Sessions, f \in Funds :
       Refreshes(s) /\ Table(s)[f].run_id \in Undisturbed(s)
         => Table(s)'[f].started >= Table(s)[f].started]_vars
=============================================================================
