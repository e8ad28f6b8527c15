------------------------------ MODULE Warehouse -----------------------------
(***************************************************************************)
(* The file nav.duckdb between those who write it and those who read it:   *)
(* build() of nav_oversight/build.py, which replaces the file and may be   *)
(* interrupted or killed anywhere, and the threads of one process, which   *)
(* read it through the handle that tools/_db.py keeps for them.            *)
(***************************************************************************)
EXTENDS Naturals, Sequences, FiniteSets

CONSTANTS
  Threads,     \* the threads of the reading process
  Queries,     \* what a tool may select
  Draws,       \* what hash(fund_id) may make the portfolios draw
  Phases,      \* what build() does in turn; each phase commits as it goes
  None,        \* no file, no handle, no rows
  MaxBuilds,   \* bounds: the files there ever are,
  MaxCalls     \* and the tool calls of a thread

ASSUME BoundsAssumption == MaxBuilds \in Nat /\ MaxCalls \in Nat
ASSUME PhasesAssumption == Len(Phases) \in Nat
ASSUME NoneAssumption == None \notin Nat \cup Threads \cup Queries

VARIABLES
  files,     \* every file there has been at DB_PATH, in the order of creation
  file,      \* the one that is there now, by its number
  wal,       \* the file whose .wal lies beside it
  builder,   \* the line build() is at, and the draw of its process
  con,       \* _state["con"]
  lock,      \* _state_lock
  handles,   \* every connection opened by the reading process
  thread     \* where each thread is in a tool call

vars == << files, file, wal, builder, con, lock, handles, thread >>

Numbers     == 1 .. MaxBuilds
ReaderVars  == << con, lock, handles, thread >>
BuilderVars == << files, file, wal, builder >>

Idle == [pc |-> "idle", calls |-> 0, asked |-> None, handle |-> None, got |-> None,
         seen |-> {}]

Init ==
  /\ files = << >> /\ file = None /\ wal = None
  /\ builder = [pc |-> "idle", draw |-> None]
  /\ con = None /\ lock = None /\ handles = << >>
  /\ thread = [t \in Threads |-> Idle]
-----------------------------------------------------------------------------
(***************************************************************************)
(* build(), in a process of its own.                                       *)
(***************************************************************************)

At(line)   == builder.pc = line
Goto(line) == builder' = [builder EXCEPT !.pc = line]

\* portfolio_init seeds with hash(fund_id), which Python draws anew in every
\* process.
StartBuild ==
  /\ At("idle") /\ Len(files) < MaxBuilds
  /\ \E d \in Draws : builder' = [pc |-> "unlink", draw |-> d]
  /\ UNCHANGED << files, file, wal, ReaderVars >>

UnlinkFile ==
  /\ At("unlink") /\ Goto("unlink wal")
  /\ file' = None
  /\ UNCHANGED << files, wal, ReaderVars >>

UnlinkWal_Dev ==
  /\ At("unlink wal") /\ Goto("connect")
  /\ UNCHANGED << files, file, wal, ReaderVars >>
UnlinkWal ==
  /\ At("unlink wal") /\ Goto("connect")
  /\ wal' = None
  /\ UNCHANGED << files, file, ReaderVars >>

\* A new file: handles on the old one keep the old one.
Create ==
  /\ At("connect") /\ Goto("run")
  /\ files' = Append(files, [done |-> 0, draw |-> builder.draw, open |-> TRUE])
  /\ file' = Len(files) + 1
  /\ UNCHANGED << wal, ReaderVars >>

Own == Len(files)     \* the file of the running build

RunPhase_Dev ==      \* a connection for each phase
  /\ At("run") /\ files[Own].done < Len(Phases)
  /\ files' = [files EXCEPT ![Own].done = @ + 1, ![Own].open = FALSE]
  /\ wal' = Own
  /\ UNCHANGED << file, builder, ReaderVars >>
RunPhase ==
  /\ At("run") /\ files[Own].done < Len(Phases)
  /\ files' = [files EXCEPT ![Own].done = @ + 1]
  /\ wal' = Own
  /\ UNCHANGED << file, builder, ReaderVars >>

\* All phases done, or an exception in one of them: the finally clause.
Close ==
  /\ At("run") /\ Goto("idle")
  /\ files' = [files EXCEPT ![Own].open = FALSE]
  /\ wal' = None
  /\ UNCHANGED << file, ReaderVars >>

\* The process goes, and its lock on the file; what is committed stays in
\* the file and its .wal.
Kill ==
  /\ ~At("idle") /\ Goto("idle")
  /\ files' = IF At("run") THEN [files EXCEPT ![Own].open = FALSE] ELSE files
  /\ UNCHANGED << file, wal, ReaderVars >>

Build == StartBuild \/ UnlinkFile \/ UnlinkWal \/ Create \/ RunPhase \/ Close \/ Kill
-----------------------------------------------------------------------------
(***************************************************************************)
(* A tool call: connection() under the lock, then execute and fetch on the *)
(* connection it returned.                                                 *)
(***************************************************************************)

Pc(t, line) == thread[t].pc = line

Call(t) ==
  /\ Pc(t, "idle") /\ thread[t].calls < MaxCalls
  /\ \E q \in Queries :
       thread' = [thread EXCEPT ![t].pc = "acquire", ![t].asked = q,
                                ![t].calls = thread[t].calls + 1]
  /\ UNCHANGED << BuilderVars, con, lock, handles >>

LockIsFree_Dev == TRUE
LockIsFree     == lock = None

Acquire(t) ==
  /\ Pc(t, "acquire") /\ LockIsFree
  /\ lock' = t
  /\ thread' = [thread EXCEPT ![t].pc = IF con = None THEN "open" ELSE "return"]
  /\ UNCHANGED << BuilderVars, con, handles >>

\* A read-only connection needs the file, and no writer that has it open.
Readable == file # None /\ ~files[file].open

Open(t) ==
  /\ Pc(t, "open") /\ Readable
  /\ handles' = Append(handles, [file |-> file, rows |-> None])
  /\ con' = Len(handles) + 1
  /\ thread' = [thread EXCEPT ![t].pc = "return"]
  /\ UNCHANGED << BuilderVars, lock >>

\* connect() raises inside the with block, and the tool call ends.
FailOpen_Dev(t) ==
  /\ Pc(t, "open") /\ ~Readable
  /\ thread' = [thread EXCEPT ![t].pc = "idle"]
  /\ UNCHANGED << BuilderVars, con, handles, lock >>
FailOpen(t) ==
  /\ Pc(t, "open") /\ ~Readable
  /\ lock' = None
  /\ thread' = [thread EXCEPT ![t].pc = "idle"]
  /\ UNCHANGED << BuilderVars, con, handles >>

Return_Dev(t) ==
  /\ Pc(t, "return")
  /\ lock' = None /\ con' = None
  /\ thread' = [thread EXCEPT ![t].pc = "execute", ![t].handle = con]
  /\ UNCHANGED << BuilderVars, handles >>
Return(t) ==
  /\ Pc(t, "return")
  /\ lock' = None
  /\ thread' = [thread EXCEPT ![t].pc = "execute", ![t].handle = con]
  /\ UNCHANGED << BuilderVars, con, handles >>

\* execute() leaves its result with the connection, and returns the
\* connection; fetchall() takes the result it finds there.
Execute(t) ==
  /\ Pc(t, "execute")
  /\ handles' = [handles EXCEPT ![thread[t].handle].rows = thread[t].asked]
  /\ thread' = [thread EXCEPT ![t].pc = "fetch"]
  /\ UNCHANGED << BuilderVars, con, lock >>

Fetch(t) ==
  LET h == thread[t].handle
  IN  /\ Pc(t, "fetch")
      /\ thread' = [thread EXCEPT ![t].pc = "idle", ![t].got = handles[h].rows,
                                  ![t].seen = thread[t].seen \cup {handles[h].file}]
      /\ handles' = [handles EXCEPT ![h].rows = None]
      /\ UNCHANGED << BuilderVars, con, lock >>

Step(t) == Acquire(t) \/ Open(t) \/ FailOpen(t) \/ Return(t) \/ Execute(t) \/ Fetch(t)

\* The reading process ends and another starts.
Restart ==
  /\ con' = None /\ lock' = None /\ handles' = << >>
  /\ thread' = [t \in Threads |-> Idle]
  /\ UNCHANGED BuilderVars

Next == Build \/ Restart \/ \E t \in Threads : Call(t) \/ Step(t)

\* A thread in the middle of a call goes on with it: nothing in the call
\* waits but for the lock.
Spec == Init /\ [][Next]_vars /\ \A t \in Threads : WF_vars(Step(t))
-----------------------------------------------------------------------------
(***************************************************************************)
(* Properties.                                                             *)
(***************************************************************************)

\* The shape of the state.
TypeOK ==
  /\ files \in Seq([done : 0 .. Len(Phases), draw : Draws, open : BOOLEAN])
  /\ Len(files) <= MaxBuilds
  /\ file \in Numbers \cup {None} /\ wal \in Numbers \cup {None}
  /\ builder \in [pc : {"idle", "unlink", "unlink wal", "connect", "run"}, draw : Draws \cup {None}]
  /\ handles \in Seq([file : Numbers, rows : Queries \cup {None}])
  /\ con \in DOMAIN handles \cup {None} /\ lock \in Threads \cup {None}
  /\ thread \in [Threads ->
       [pc : {"idle", "acquire", "open", "return", "execute", "fetch"}, calls : 0 .. MaxCalls,
        asked : Queries \cup {None}, handle : Nat \cup {None},
        got : Queries \cup {None}, seen : SUBSET Numbers]]

\* The process never has a second handle, whatever threads ask for the first
\* at once (_db.py:40): what one thread reads, another reads in the same file.
OneHandle == Len(handles) <= 1 /\ (con = None => handles = << >>)

\* Rows of two builds never meet in a process, though the warehouse be
\* rebuilt between two calls of an investigation: audit replay would be
\* impossible and the agent's reasoning self-contradictory
\* (docs/architecture.md section 4).
OneBuildPerProcess ==
  \A t, u \in Threads : \A a \in thread[t].seen, b \in thread[u].seen : a = b

\* What a handle shows does not change while the process has it, neither by
\* the rest of a build nor by the next one: a file is opened after its build
\* (the writer holds it until then) and is never written again.
HandlesAreSnapshots ==
  [][\A h \in DOMAIN handles :
       handles' # << >> => files'[handles[h].file].done = files[handles[h].file].done]_vars

\* The .wal of a killed build is never taken for that of another file, which
\* would replay it there: file and .wal go one after the other, and a crash
\* may come between them (build.py:41-45).
WalIsOfTheFile == wal # None /\ file # None => wal = file

\* A tool call comes to its end, whether or not there is a warehouse to open,
\* and whatever the other threads and the builder do.
CallsReturn == \A t \in Threads : thread[t].pc # "idle" ~> thread[t].pc = "idle"

\* README.md:76 says of the warehouse that it is "deterministic from a fixed
\* seed": builds that are done are the same.
RebuildIsDeterministic ==
  \A a, b \in DOMAIN files :
    files[a].done = Len(Phases) /\ files[b].done = Len(Phases) => files[a].draw = files[b].draw

\* _db.py:39 says of connection() that it is "Thread-safe.": a call gets the
\* rows it asked for.
RowsAreTheAsked ==
  \A t \in Threads : Pc(t, "idle") /\ thread[t].got # None => thread[t].got = thread[t].asked
=============================================================================
