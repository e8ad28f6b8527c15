--------------------------- MODULE Warehouse_proofs --------------------------
(***************************************************************************)
(* The lock of tools/_db.py gives the reading process one handle, so that  *)
(* all it ever reads comes from one file; and the .wal beside the file is  *)
(* its own.  For any number of threads, builds and phases.                 *)
(***************************************************************************)
EXTENDS Warehouse, TLAPS

FileRecord   == [done : 0 .. Len(Phases), draw : Draws, open : BOOLEAN]
HandleRecord == [file : Numbers, rows : Queries \cup {None}]
ThreadRecord ==
  [pc : {"idle", "acquire", "open", "return", "execute", "fetch"}, calls : 0 .. MaxCalls,
   asked : Queries \cup {None}, handle : Nat \cup {None},
   got : Queries \cup {None}, seen : SUBSET Numbers]

\* The two halves of TypeOK.
BuilderType ==
  /\ files \in Seq(FileRecord) /\ Len(files) <= MaxBuilds
  /\ file \in Numbers \cup {None} /\ wal \in Numbers \cup {None}
  /\ builder \in [pc : {"idle", "unlink", "unlink wal", "connect", "run"}, draw : Draws \cup {None}]
ReaderType ==
  /\ handles \in Seq(HandleRecord)
  /\ con \in DOMAIN handles \cup {None} /\ lock \in Threads \cup {None}
  /\ thread \in [Threads -> ThreadRecord]

\* Who has the lock, and what he knows: between the check of _state["con"]
\* and its assignment no one else is in the with block.
LockInv ==
  \A t \in Threads :
    /\ thread[t].pc \in {"open", "return"} => lock = t
    /\ thread[t].pc = "open" => con = None
    /\ thread[t].pc = "return" => con # None

\* The only handle there is has the number 1; who is past connection() has
\* it, and whatever was read was read from its file.
HandleInv ==
  /\ con # None => con = 1 /\ Len(handles) = 1
  /\ con = None => handles = << >>
  /\ \A t \in Threads :
       /\ thread[t].pc \in {"execute", "fetch"} => con # None /\ thread[t].handle = con
       /\ \A a \in thread[t].seen : con # None /\ a = handles[1].file

\* Where build() has got with the two files.
BuildInv ==
  /\ builder.pc \in {"unlink", "unlink wal", "connect"} =>
       builder.draw \in Draws /\ Len(files) < MaxBuilds
  /\ At("unlink wal") => file = None
  /\ At("connect") => file = None /\ wal = None
  /\ At("run") => file = Len(files) /\ Len(files) # 0
  /\ WalIsOfTheFile

IInv == BuilderType /\ ReaderType /\ LockInv /\ HandleInv /\ BuildInv

-----------------------------------------------------------------------------
(***************************************************************************)
(* Facts about sequences.                                                  *)
(***************************************************************************)

\* Changing an element of a sequence.
LEMMA SeqExcept ==
  ASSUME NEW S, NEW s \in Seq(S), NEW i \in DOMAIN s, NEW v \in S
  PROVE  /\ [s EXCEPT ![i] = v] \in Seq(S)
         /\ Len([s EXCEPT ![i] = v]) = Len(s)
         /\ DOMAIN [s EXCEPT ![i] = v] = DOMAIN s
  OBVIOUS

\* What a sequence is.
LEMMA SeqLen ==
  ASSUME NEW S, NEW s \in Seq(S)
  PROVE  Len(s) \in Nat /\ DOMAIN s = 1 .. Len(s) /\ \A i \in DOMAIN s : s[i] \in S
  OBVIOUS

\* Appending an element.
LEMMA SeqAppend ==
  ASSUME NEW S, NEW s \in Seq(S), NEW v \in S
  PROVE  /\ Append(s, v) \in Seq(S)
         /\ Len(Append(s, v)) = Len(s) + 1
         /\ DOMAIN Append(s, v) = DOMAIN s \cup {Len(s) + 1}
         /\ \A i \in DOMAIN s : Append(s, v)[i] = s[i]
         /\ Append(s, v)[Len(s) + 1] = v
  OBVIOUS
-----------------------------------------------------------------------------
(***************************************************************************)
(* The start, and steps that leave one side alone.                         *)
(***************************************************************************)

\* The initial state.
LEMMA Initially == Init => IInv
  <1> SUFFICES ASSUME Init PROVE IInv
    OBVIOUS
  <1> USE BoundsAssumption, NoneAssumption DEF Init, Idle
  <1>1. BuilderType /\ ReaderType
    BY DEF BuilderType, ReaderType, Numbers, ThreadRecord
  <1>2. LockInv /\ HandleInv /\ BuildInv
    BY DEF LockInv, HandleInv, BuildInv, WalIsOfTheFile, At
  <1> QED
    BY <1>1, <1>2 DEF IInv

\* What depends on the reader's variables only.
LEMMA ReaderUnchanged ==
  ASSUME ReaderType, LockInv, HandleInv, UNCHANGED ReaderVars
  PROVE  ReaderType' /\ LockInv' /\ HandleInv'
  BY DEF ReaderType, LockInv, HandleInv, ReaderVars, ThreadRecord, HandleRecord, Numbers

\* What depends on the builder's variables only.
LEMMA BuilderUnchanged ==
  ASSUME BuilderType, BuildInv, UNCHANGED BuilderVars
  PROVE  BuilderType' /\ BuildInv'
  BY DEF BuilderType, BuildInv, BuilderVars, At, WalIsOfTheFile, FileRecord, Numbers
-----------------------------------------------------------------------------
(***************************************************************************)
(* The builder's steps leave the reader alone.                             *)
(***************************************************************************)

\* One step of build(), or its death.
LEMMA BuildStep == IInv /\ Build => IInv'
  <1> SUFFICES ASSUME IInv, Build PROVE IInv'
    OBVIOUS
  <1> USE BoundsAssumption, PhasesAssumption, NoneAssumption
  <1>1. BuilderType /\ ReaderType /\ LockInv /\ HandleInv /\ BuildInv
    BY DEF IInv
  <1>2. UNCHANGED ReaderVars
    BY DEF Build, StartBuild, UnlinkFile, UnlinkWal, Create, RunPhase, Close, Kill, ReaderVars
  <1>3. ReaderType' /\ LockInv' /\ HandleInv'
    BY <1>1, <1>2, ReaderUnchanged
  <1>4. SUFFICES BuilderType' /\ BuildInv'
    BY <1>3 DEF IInv
  <1>5. Len(files) \in Nat /\ DOMAIN files = 1 .. Len(files)
    BY <1>1, SeqLen DEF BuilderType
  <1>6. CASE StartBuild
    <2>1. PICK d \in Draws : builder' = [pc |-> "unlink", draw |-> d]
      BY <1>6 DEF StartBuild
    <2>2. files' = files /\ file' = file /\ wal' = wal /\ Len(files) < MaxBuilds
      BY <1>6 DEF StartBuild
    <2>3. BuilderType'
      BY <1>1, <2>1, <2>2 DEF BuilderType, Numbers, FileRecord
    <2>4. BuildInv'
      BY <1>1, <2>1, <2>2 DEF BuildInv, At, WalIsOfTheFile
    <2> QED
      BY <2>3, <2>4
  <1>7. CASE UnlinkFile \/ UnlinkWal
    <2>1. files' = files
      BY <1>7 DEF UnlinkFile, UnlinkWal
    <2>2. BuilderType'
      BY <1>1, <1>7, <2>1 DEF UnlinkFile, UnlinkWal, Goto, BuilderType, Numbers, FileRecord
    <2>3. BuildInv'
      BY <1>1, <1>7, <2>1 DEF UnlinkFile, UnlinkWal, Goto, At, BuilderType, BuildInv, WalIsOfTheFile
    <2> QED
      BY <2>2, <2>3
  <1>8. CASE Create
    <2> DEFINE new == [done |-> 0, draw |-> builder.draw, open |-> TRUE]
    <2>1. files' = Append(files, new) /\ new \in FileRecord /\ Len(files) < MaxBuilds
      BY <1>1, <1>8 DEF Create, At, BuildInv, FileRecord
    <2>2. files' \in Seq(FileRecord) /\ Len(files') = Len(files) + 1
      <3> HIDE DEF new
      <3> QED
        BY <1>1, <2>1, SeqAppend DEF BuilderType
    <2>3. file' = Len(files) + 1 /\ wal' = wal /\ wal = None
          /\ builder' = [builder EXCEPT !.pc = "run"]
      BY <1>1, <1>8 DEF Create, Goto, At, BuildInv
    <2>4. BuilderType'
      <3>1. Len(files') <= MaxBuilds /\ file' \in Numbers
        BY <1>5, <2>1, <2>2, <2>3 DEF Numbers
      <3>2. builder' \in [pc : {"idle", "unlink", "unlink wal", "connect", "run"},
                          draw : Draws \cup {None}]
        BY <1>1, <2>3 DEF BuilderType
      <3> QED
        BY <2>2, <2>3, <3>1, <3>2 DEF BuilderType, FileRecord, Numbers
    <2>5. BuildInv'
      <3>1. file' = Len(files') /\ Len(files') # 0 /\ wal' = None
        BY <1>5, <2>2, <2>3
      <3>2. builder'.pc = "run"
        BY <1>1, <2>3 DEF BuilderType
      <3> QED
        BY <3>1, <3>2 DEF BuildInv, At, WalIsOfTheFile
    <2> QED
      BY <2>4, <2>5
  <1>9. CASE RunPhase \/ Close \/ (Kill /\ At("run"))
    <2>1. Own \in DOMAIN files /\ files[Own] \in FileRecord /\ Own \in Numbers /\ file = Own
      <3>1. At("run")
        BY <1>9 DEF RunPhase, Close
      <3>2. file = Len(files) /\ Len(files) # 0
        BY <1>1, <3>1 DEF BuildInv
      <3>3. Len(files) \in 1 .. Len(files) /\ Len(files) \in 1 .. MaxBuilds
        <4>1. Len(files) <= MaxBuilds
          BY <1>1 DEF BuilderType
        <4> QED
          BY <1>5, <3>2, <4>1
      <3>4. files[Len(files)] \in FileRecord
        BY <1>1, <1>5, <3>3, SeqLen DEF BuilderType
      <3> QED
        BY <1>5, <3>2, <3>3, <3>4 DEF Own, Numbers
    <2>2. PICK v \in FileRecord : files' = [files EXCEPT ![Own] = v]
      <3>1. CASE RunPhase
        <4>1. files[Own].done \in 0 .. Len(Phases) /\ files[Own].done < Len(Phases)
          BY <2>1, <3>1 DEF RunPhase, FileRecord
        <4>2. [files[Own] EXCEPT !.done = files[Own].done + 1] \in FileRecord
          BY <2>1, <4>1 DEF FileRecord
        <4>3. files' = [files EXCEPT ![Own] = [files[Own] EXCEPT !.done = files[Own].done + 1]]
          BY <3>1 DEF RunPhase
        <4> QED
          BY <4>2, <4>3
      <3>2. CASE Close \/ (Kill /\ At("run"))
        BY <2>1, <3>2 DEF Close, Kill, FileRecord
      <3> QED
        BY <1>9, <3>1, <3>2
    <2>3. files' \in Seq(FileRecord) /\ Len(files') = Len(files)
      <3>1. files \in Seq(FileRecord)
        BY <1>1 DEF BuilderType
      <3> QED
        BY <2>1, <2>2, <3>1, SeqExcept
    <2>4. file' = file /\ wal' \in {Own, None, wal} /\ builder' \in {builder, [builder EXCEPT !.pc = "idle"]}
      BY <1>9 DEF RunPhase, Close, Kill, Goto
    <2>5. BuilderType'
      BY <1>1, <2>1, <2>3, <2>4 DEF BuilderType
    <2>6. BuildInv'
      BY <1>1, <2>1, <2>3, <2>4 DEF BuilderType, BuildInv, At, WalIsOfTheFile, Own
    <2> QED
      BY <2>5, <2>6
  <1>10. CASE Kill /\ ~At("run")
    <2>1. files' = files /\ file' = file /\ wal' = wal /\ builder' = [builder EXCEPT !.pc = "idle"]
      BY <1>10 DEF Kill, Goto
    <2>2. BuilderType'
      BY <1>1, <2>1 DEF BuilderType, Numbers, FileRecord
    <2>3. BuildInv'
      BY <1>1, <2>1 DEF BuilderType, BuildInv, At, WalIsOfTheFile
    <2> QED
      BY <2>2, <2>3
  <1> QED
    BY <1>6, <1>7, <1>8, <1>9, <1>10 DEF Build
-----------------------------------------------------------------------------
(***************************************************************************)
(* The reader's steps leave the builder alone.                             *)
(***************************************************************************)

\* What a step of one thread does to the others: nothing.
LEMMA OneThread ==
  ASSUME ReaderType, NEW t \in Threads, NEW r \in ThreadRecord,
         thread' = [thread EXCEPT ![t] = r]
  PROVE  /\ thread' \in [Threads -> ThreadRecord] /\ thread'[t] = r
         /\ \A u \in Threads \ {t} : thread'[u] = thread[u]
  BY DEF ReaderType

\* A thread calls, asks for the lock, fails to open, or returns.
LEMMA ThreadStep ==
  ASSUME NEW t \in Threads, IInv,
         Call(t) \/ Acquire(t) \/ FailOpen(t) \/ Return(t)
  PROVE  IInv'
  <1> USE BoundsAssumption, NoneAssumption
  <1>1. BuilderType /\ ReaderType /\ LockInv /\ HandleInv /\ BuildInv
    BY DEF IInv
  <1>2. UNCHANGED BuilderVars /\ handles' = handles /\ con' = con
    BY DEF Call, Acquire, FailOpen, Return, BuilderVars
  <1>3. thread[t] \in ThreadRecord /\ con \in Nat \cup {None}
    BY <1>1 DEF ReaderType
  <1>4. PICK r \in ThreadRecord :
          /\ thread' = [thread EXCEPT ![t] = r] /\ r.seen = thread[t].seen
          /\ r.pc # "fetch" /\ (r.pc = "execute" => Return(t) /\ r.handle = con)
          /\ r.pc = "open" => Acquire(t) /\ con = None
          /\ r.pc = "return" => Acquire(t) /\ con # None
    <2>1. CASE Call(t)
      <3>1. PICK q \in Queries : thread' = [thread EXCEPT ![t] =
              [thread[t] EXCEPT !.pc = "acquire", !.asked = q, !.calls = thread[t].calls + 1]]
        BY <2>1 DEF Call
      <3>2. thread[t].calls + 1 \in 0 .. MaxCalls
        <4>1. thread[t].calls \in 0 .. MaxCalls
          BY <1>3 DEF ThreadRecord
        <4>2. thread[t].calls < MaxCalls
          BY <2>1 DEF Call
        <4> QED
          BY <4>1, <4>2
      <3> DEFINE r == [thread[t] EXCEPT !.pc = "acquire", !.asked = q,
                                        !.calls = thread[t].calls + 1]
      <3>3. r \in ThreadRecord /\ r.seen = thread[t].seen /\ r.pc = "acquire"
        BY <1>3, <3>2 DEF ThreadRecord
      <3>4. thread' = [thread EXCEPT ![t] = r]
        BY <3>1
      <3> HIDE DEF r
      <3> QED
        BY <3>3, <3>4
    <2>2. CASE Acquire(t)
      <3> DEFINE line == IF con = None THEN "open" ELSE "return"
                 r == [thread[t] EXCEPT !.pc = line]
      <3>1. line \in {"open", "return"} /\ (line = "open" <=> con = None)
        OBVIOUS
      <3>2. r \in ThreadRecord /\ r.seen = thread[t].seen /\ r.pc = line
        BY <1>3, <3>1 DEF ThreadRecord
      <3>3. thread' = [thread EXCEPT ![t] = r]
        BY <2>2 DEF Acquire
      <3> HIDE DEF line, r
      <3> QED
        BY <2>2, <3>1, <3>2, <3>3
    <2>3. CASE FailOpen(t)
      <3> DEFINE r == [thread[t] EXCEPT !.pc = "idle"]
      <3>1. r \in ThreadRecord /\ r.seen = thread[t].seen /\ r.pc = "idle"
        BY <1>3 DEF ThreadRecord
      <3>2. thread' = [thread EXCEPT ![t] = r]
        BY <2>3 DEF FailOpen
      <3> HIDE DEF r
      <3> QED
        BY <3>1, <3>2
    <2>4. CASE Return(t)
      <3> DEFINE r == [thread[t] EXCEPT !.pc = "execute", !.handle = con]
      <3>1. r \in ThreadRecord /\ r.seen = thread[t].seen /\ r.pc = "execute" /\ r.handle = con
        BY <1>3 DEF ThreadRecord
      <3>2. thread' = [thread EXCEPT ![t] = r]
        BY <2>4 DEF Return
      <3> HIDE DEF r
      <3> QED
        BY <2>4, <3>1, <3>2
    <2> QED
      BY <2>1, <2>2, <2>3, <2>4
  <1>5. /\ thread' \in [Threads -> ThreadRecord] /\ thread'[t] = r
        /\ \A u \in Threads \ {t} : thread'[u] = thread[u]
    BY <1>1, <1>4, OneThread
  <1>6. ReaderType'
    <2>1. lock' \in Threads \cup {None}
      BY <1>1 DEF Call, Acquire, FailOpen, Return, ReaderType
    <2> QED
      BY <1>1, <1>2, <1>5, <2>1 DEF ReaderType, HandleRecord, Numbers
  <1>7. LockInv'
    <2>1. Acquire(t) => lock = None /\ lock' = t
      BY DEF Acquire, LockIsFree
    <2>2. FailOpen(t) \/ Return(t) => lock = t
      BY <1>1 DEF FailOpen, Return, LockInv, Pc
    <2>3. Call(t) => lock' = lock
      BY DEF Call
    <2>4. \A u \in Threads \ {t} :
             /\ thread'[u].pc \in {"open", "return"} => lock' = u
             /\ thread'[u].pc = "open" => con' = None
             /\ thread'[u].pc = "return" => con' # None
      BY <1>1, <1>2, <1>5, <2>1, <2>2, <2>3 DEF LockInv
    <2>5. /\ thread'[t].pc \in {"open", "return"} => lock' = t
          /\ thread'[t].pc = "open" => con' = None
          /\ thread'[t].pc = "return" => con' # None
      BY <1>2, <1>4, <1>5, <2>1
    <2> QED
      BY <2>4, <2>5 DEF LockInv
  <1>8. HandleInv'
    <2>1. Return(t) => con # None
      BY <1>1 DEF Return, Pc, LockInv
    <2>2. \A u \in Threads :
             /\ thread'[u].pc \in {"execute", "fetch"} => con # None /\ thread'[u].handle = con
             /\ \A a \in thread'[u].seen : con # None /\ a = handles[1].file
      BY <1>1, <1>4, <1>5, <2>1 DEF HandleInv
    <2> QED
      BY <1>1, <1>2, <2>2 DEF HandleInv
  <1> QED
    BY <1>1, <1>2, <1>6, <1>7, <1>8, BuilderUnchanged DEF IInv

\* The thread that has the lock opens the handle: there was none.
LEMMA OpenStep ==
  ASSUME NEW t \in Threads, IInv, Open(t)
  PROVE  IInv'
  <1> USE BoundsAssumption, NoneAssumption
  <1>1. BuilderType /\ ReaderType /\ LockInv /\ HandleInv /\ BuildInv
    BY DEF IInv
  <1>2. con = None /\ handles = << >> /\ lock = t /\ file \in Numbers
    BY <1>1 DEF Open, Readable, Pc, LockInv, HandleInv, BuilderType
  <1> DEFINE new == [file |-> file, rows |-> None]
  <1>3. new \in HandleRecord /\ handles' = Append(handles, new) /\ con' = Len(handles) + 1
    BY <1>2 DEF Open, HandleRecord
  <1> HIDE DEF new
  <1>4. handles' \in Seq(HandleRecord) /\ Len(handles') = 1 /\ con' = 1
    BY <1>1, <1>2, <1>3, SeqAppend DEF ReaderType
  <1>5. UNCHANGED BuilderVars /\ lock' = lock
    BY DEF Open, BuilderVars
  <1> DEFINE r == [thread[t] EXCEPT !.pc = "return"]
  <1>6. r \in ThreadRecord /\ r.pc = "return" /\ r.seen = thread[t].seen
        /\ thread' = [thread EXCEPT ![t] = r]
    BY <1>1 DEF Open, ReaderType, ThreadRecord
  <1> HIDE DEF r
  <1>7. /\ thread' \in [Threads -> ThreadRecord] /\ thread'[t] = r
        /\ \A u \in Threads \ {t} : thread'[u] = thread[u]
    BY <1>1, <1>6, OneThread
  <1>8. ReaderType'
    BY <1>1, <1>4, <1>5, <1>7 DEF ReaderType, HandleRecord, Numbers
  <1>9. LockInv'
    BY <1>1, <1>2, <1>4, <1>5, <1>6, <1>7 DEF LockInv
  <1>10. HandleInv'
    BY <1>1, <1>2, <1>4, <1>6, <1>7 DEF HandleInv
  <1> QED
    BY <1>1, <1>5, <1>8, <1>9, <1>10, BuilderUnchanged DEF IInv

\* A thread executes or fetches on the handle it was given.
LEMMA UseStep ==
  ASSUME NEW t \in Threads, IInv, Execute(t) \/ Fetch(t)
  PROVE  IInv'
  <1> USE BoundsAssumption, NoneAssumption
  <1>1. BuilderType /\ ReaderType /\ LockInv /\ HandleInv /\ BuildInv
    BY DEF IInv
  <1>2. /\ thread[t].handle = 1 /\ con = 1 /\ Len(handles) = 1 /\ handles \in Seq(HandleRecord)
        /\ thread[t] \in ThreadRecord
    BY <1>1 DEF Execute, Fetch, Pc, HandleInv, ReaderType
  <1>3. 1 \in DOMAIN handles /\ handles[1] \in HandleRecord
    BY <1>2
  <1>4. UNCHANGED BuilderVars /\ lock' = lock /\ con' = con
    BY DEF Execute, Fetch, BuilderVars
  <1>5. PICK q \in Queries \cup {None} : handles' = [handles EXCEPT ![1].rows = q]
    BY <1>2 DEF Execute, Fetch, ThreadRecord
  <1>6. /\ handles' \in Seq(HandleRecord) /\ Len(handles') = 1
        /\ handles'[1].file = handles[1].file
    <2> DEFINE v == [handles[1] EXCEPT !.rows = q]
    <2>1. v \in HandleRecord /\ v.file = handles[1].file
      BY <1>3 DEF HandleRecord
    <2>2. handles' = [handles EXCEPT ![1] = v]
      BY <1>5
    <2>3. handles'[1] = v
      BY <1>3, <2>2
    <2> HIDE DEF v
    <2> QED
      BY <1>2, <1>3, <2>1, <2>2, <2>3, SeqExcept
  <1>7. PICK r \in ThreadRecord :
          /\ thread' = [thread EXCEPT ![t] = r] /\ r.handle = 1 /\ r.pc \in {"fetch", "idle"}
          /\ r.seen \subseteq thread[t].seen \cup {handles[1].file}
    <2>1. CASE Execute(t)
      <3> DEFINE r == [thread[t] EXCEPT !.pc = "fetch"]
      <3>1. r \in ThreadRecord /\ r.seen = thread[t].seen /\ r.pc = "fetch" /\ r.handle = 1
        BY <1>2 DEF ThreadRecord
      <3>2. thread' = [thread EXCEPT ![t] = r]
        BY <2>1 DEF Execute
      <3> HIDE DEF r
      <3> QED
        BY <3>1, <3>2
    <2>2. CASE Fetch(t)
      <3>1. handles[1].rows \in Queries \cup {None} /\ handles[1].file \in Numbers
        BY <1>3 DEF HandleRecord
      <3> DEFINE r == [thread[t] EXCEPT !.pc = "idle", !.got = handles[1].rows,
                                        !.seen = thread[t].seen \cup {handles[1].file}]
      <3>2. thread[t].seen \cup {handles[1].file} \in SUBSET Numbers
        BY <1>2, <3>1 DEF ThreadRecord
      <3>3. /\ r \in ThreadRecord /\ r.seen = thread[t].seen \cup {handles[1].file}
            /\ r.pc = "idle" /\ r.handle = 1
        BY <1>2, <3>1, <3>2 DEF ThreadRecord
      <3>4. thread' = [thread EXCEPT ![t] = r]
        <4>1. thread' = [thread EXCEPT ![t] = [thread[t] EXCEPT !.pc = "idle",
                 !.got = handles[thread[t].handle].rows,
                 !.seen = thread[t].seen \cup {handles[thread[t].handle].file}]]
          BY <2>2 DEF Fetch
        <4> QED
          BY <1>2, <4>1
      <3> HIDE DEF r
      <3> QED
        BY <3>3, <3>4
    <2> QED
      BY <2>1, <2>2
  <1>8. /\ thread' \in [Threads -> ThreadRecord] /\ thread'[t] = r
        /\ \A u \in Threads \ {t} : thread'[u] = thread[u]
    BY <1>1, <1>7, OneThread
  <1>9. ReaderType'
    BY <1>1, <1>2, <1>4, <1>6, <1>8 DEF ReaderType
  <1>10. LockInv'
    BY <1>1, <1>4, <1>7, <1>8 DEF LockInv
  <1>11. HandleInv'
    BY <1>1, <1>2, <1>4, <1>6, <1>7, <1>8 DEF HandleInv
  <1> QED
    BY <1>1, <1>4, <1>9, <1>10, <1>11, BuilderUnchanged DEF IInv

\* A new reading process.
LEMMA RestartStep == IInv /\ Restart => IInv'
  <1> SUFFICES ASSUME IInv, Restart PROVE IInv'
    OBVIOUS
  <1> USE BoundsAssumption, NoneAssumption
  <1>1. BuilderType /\ BuildInv /\ UNCHANGED BuilderVars
    BY DEF IInv, Restart
  <1>2. ReaderType'
    BY DEF ReaderType, ThreadRecord, Restart, Idle
  <1>3. LockInv' /\ HandleInv'
    BY DEF LockInv, HandleInv, Restart, Idle
  <1> QED
    BY <1>1, <1>2, <1>3, BuilderUnchanged DEF IInv

\* IInv is inductive.
LEMMA Inductive == Spec => []IInv
  <1>1. IInv /\ [Next]_vars => IInv'
    <2> SUFFICES ASSUME IInv, [Next]_vars PROVE IInv'
      OBVIOUS
    <2>1. CASE UNCHANGED vars
      <3>1. UNCHANGED BuilderVars /\ UNCHANGED ReaderVars
        BY <2>1 DEF vars, BuilderVars, ReaderVars
      <3> QED
        BY <3>1, BuilderUnchanged, ReaderUnchanged DEF IInv
    <2>2. CASE Build
      BY <2>2, BuildStep
    <2>3. CASE Restart
      BY <2>3, RestartStep
    <2>4. CASE \E t \in Threads : Call(t) \/ Step(t)
      BY <2>4, ThreadStep, OpenStep, UseStep DEF Step
    <2> QED
      BY <2>1, <2>2, <2>3, <2>4 DEF Next
  <1> QED
    BY Initially, <1>1, PTL DEF Spec
-----------------------------------------------------------------------------
(***************************************************************************)
(* What the invariant says of the warehouse.                               *)
(***************************************************************************)

\* The state keeps its shape.
THEOREM TypeCorrect == Spec => []TypeOK
  <1>1. IInv => TypeOK
    BY DEF IInv, TypeOK, BuilderType, ReaderType, FileRecord, HandleRecord, ThreadRecord
  <1> QED
    BY <1>1, Inductive, PTL

\* However many threads ask for the first connection at once, the process
\* opens one (_db.py:40).
THEOREM OneHandleAlways == Spec => []OneHandle
  <1>1. IInv => OneHandle
    <2> SUFFICES ASSUME IInv PROVE OneHandle
      OBVIOUS
    <2>1. con = None => Len(handles) = 0
      BY DEF IInv, HandleInv
    <2>2. con # None => Len(handles) = 1
      BY DEF IInv, HandleInv
    <2>3. con = None => handles = << >>
      BY DEF IInv, HandleInv
    <2>4. Len(handles) \in {0, 1}
      BY <2>1, <2>2
    <2>5. \A n \in {0, 1} : n <= 1
      OBVIOUS
    <2> QED
      BY <2>3, <2>4, <2>5 DEF OneHandle
  <1> QED
    BY <1>1, Inductive, PTL

\* All that a process reads comes from one build, however often the warehouse
\* is rebuilt meanwhile: an investigation cannot contradict itself through it.
THEOREM OneBuildAlways == Spec => []OneBuildPerProcess
  <1>1. IInv => OneBuildPerProcess
    BY DEF IInv, HandleInv, OneBuildPerProcess
  <1> QED
    BY <1>1, Inductive, PTL

\* The .wal beside the file is the file's own, whenever a build is killed.
THEOREM WalAlways == Spec => []WalIsOfTheFile
  <1>1. IInv => WalIsOfTheFile
    BY DEF IInv, BuildInv
  <1> QED
    BY <1>1, Inductive, PTL
-----------------------------------------------------------------------------
(***************************************************************************)
(* Snapshots: who can open a file finds it closed, and only an open file   *)
(* is written.                                                             *)
(***************************************************************************)

SnapInv ==
  /\ file # None => file \in DOMAIN files
  /\ At("run") => files[Own].open
  /\ \A h \in DOMAIN handles :
       handles[h].file \in DOMAIN files /\ ~files[handles[h].file].open

\* What a step does to the files that are there.
Kept == \A h \in DOMAIN handles :
          handles' # << >> => files'[handles[h].file].done = files[handles[h].file].done

LEMMA SnapInit == Init => SnapInv
  BY NoneAssumption DEF Init, SnapInv, At

\* A file record, its counter taken as any natural number.
LEMMA FileShape == FileRecord \subseteq [done : Nat, draw : Draws, open : BOOLEAN]
  <1>1. 0 .. Len(Phases) \subseteq Nat
    OBVIOUS
  <1> QED
    BY <1>1 DEF FileRecord

\* build() writes none of the files that the process has open.
LEMMA SnapBuild == IInv /\ SnapInv /\ Build => SnapInv' /\ Kept
  <1> SUFFICES ASSUME IInv, SnapInv, Build PROVE SnapInv' /\ Kept
    OBVIOUS
  <1> USE NoneAssumption
  <1>1. BuilderType /\ ReaderType /\ BuildInv
    BY DEF IInv
  <1>2. handles' = handles
    BY DEF Build, StartBuild, UnlinkFile, UnlinkWal, Create, RunPhase, Close, Kill, ReaderVars
  <1>3. files \in Seq(FileRecord) /\ Len(files) \in Nat /\ DOMAIN files = 1 .. Len(files)
    BY <1>1, SeqLen DEF BuilderType
  <1>4. CASE StartBuild \/ UnlinkFile \/ UnlinkWal \/ (Kill /\ ~At("run"))
    <2>1. files' = files /\ file' \in {file, None}
      BY <1>4 DEF StartBuild, UnlinkFile, UnlinkWal, Kill
    <2>2. builder'.pc # "run"
      <3>1. CASE StartBuild
        BY <3>1 DEF StartBuild
      <3>2. CASE UnlinkFile \/ UnlinkWal
        BY <1>1, <3>2 DEF UnlinkFile, UnlinkWal, Goto, BuilderType
      <3>3. CASE Kill
        BY <1>1, <3>3 DEF Kill, Goto, BuilderType
      <3> QED
        BY <1>4, <3>1, <3>2, <3>3
    <2> QED
      BY <1>2, <2>1, <2>2 DEF SnapInv, Kept, At
  <1>5. CASE Create
    <2> DEFINE new == [done |-> 0, draw |-> builder.draw, open |-> TRUE]
    <2>1. files' = Append(files, new) /\ new \in FileRecord /\ new.open /\ file' = Len(files) + 1
      BY <1>1, <1>5 DEF Create, At, BuildInv, FileRecord
    <2> HIDE DEF new
    <2>2. /\ Len(files') = Len(files) + 1 /\ DOMAIN files' = DOMAIN files \cup {Len(files) + 1}
          /\ \A i \in DOMAIN files : files'[i] = files[i]
          /\ files'[Len(files) + 1] = new
      BY <1>3, <2>1, SeqAppend
    <2> QED
      BY <1>2, <2>1, <2>2 DEF SnapInv, Kept, Own
  <1>6. CASE RunPhase \/ Close \/ (Kill /\ At("run"))
    <2>1. At("run") /\ Own \in DOMAIN files /\ files[Own] \in FileRecord /\ files[Own].open
      <3>1. At("run") /\ Len(files) # 0
        BY <1>1, <1>6 DEF RunPhase, Close, BuildInv
      <3> QED
        BY <1>3, <3>1 DEF SnapInv, Own
    <2>2. PICK v \in [done : Nat, draw : Draws, open : BOOLEAN] :
            /\ files' = [files EXCEPT ![Own] = v]
            /\ RunPhase => v.open
            /\ ~RunPhase => builder'.pc = "idle"
      <3>1. CASE RunPhase
        <4> DEFINE v == [files[Own] EXCEPT !.done = files[Own].done + 1]
        <4>1. files[Own].done + 1 \in Nat
          <5>1. files[Own].done \in 0 .. Len(Phases)
            BY <2>1 DEF FileRecord
          <5>2. \A n \in 0 .. Len(Phases) : n + 1 \in Nat
            OBVIOUS
          <5> QED
            BY <5>1, <5>2
        <4>2. v \in [done : Nat, draw : Draws, open : BOOLEAN] /\ v.open
          BY <2>1, <4>1 DEF FileRecord
        <4>3. files' = [files EXCEPT ![Own] = v]
          BY <3>1 DEF RunPhase
        <4> HIDE DEF v
        <4> QED
          BY <3>1, <4>2, <4>3
      <3>2. CASE ~RunPhase
        <4> DEFINE v == [files[Own] EXCEPT !.open = FALSE]
        <4>1. v \in FileRecord
          BY <2>1 DEF FileRecord
        <4>2. files' = [files EXCEPT ![Own] = v]
          BY <1>6, <2>1, <3>2 DEF Close, Kill
        <4>3. builder'.pc = "idle"
          BY <1>1, <1>6, <3>2 DEF Close, Kill, Goto, BuilderType
        <4> HIDE DEF v
        <4> QED
          BY <3>2, <4>1, <4>2, <4>3, FileShape
      <3> QED
        BY <3>1, <3>2
    <2>3. /\ DOMAIN files' = DOMAIN files /\ Len(files') = Len(files)
          /\ files'[Own] = v /\ \A i \in DOMAIN files \ {Own} : files'[i] = files[i]
      BY <1>3, <2>1, <2>2
    <2>4. file' = file
      BY <1>6 DEF RunPhase, Close, Kill
    <2>5. \A h \in DOMAIN handles : handles[h].file \in DOMAIN files \ {Own}
      BY <2>1 DEF SnapInv
    <2>6. At("run")' => v.open
      BY <2>2 DEF At
    <2>7. SnapInv'
      BY <1>2, <2>3, <2>4, <2>5, <2>6 DEF SnapInv, Own
    <2> QED
      BY <2>3, <2>5, <2>7 DEF Kept
  <1> QED
    BY <1>4, <1>5, <1>6 DEF Build

\* The reader writes no file.
LEMMA SnapRead ==
  ASSUME IInv, SnapInv, UNCHANGED BuilderVars,
         handles' = << >> \/ Len(handles') = 1,
         \A h \in DOMAIN handles' :
           \/ h \in DOMAIN handles /\ handles'[h].file = handles[h].file
           \/ Readable /\ handles'[h].file = file
  PROVE  SnapInv' /\ Kept
  BY NoneAssumption DEF SnapInv, Kept, BuilderVars, At, Own, Readable

LEMMA SnapNext == IInv /\ SnapInv /\ [Next]_vars => SnapInv' /\ [Kept]_vars
  <1> SUFFICES ASSUME IInv, SnapInv, [Next]_vars PROVE SnapInv' /\ [Kept]_vars
    OBVIOUS
  <1> USE NoneAssumption
  <1>1. ReaderType /\ HandleInv /\ LockInv /\ handles \in Seq(HandleRecord)
    BY DEF IInv, ReaderType
  <1>2. CASE Build
    BY <1>2, SnapBuild
  <1>3. CASE Restart
    <2>1. handles' = << >> /\ UNCHANGED BuilderVars
      BY <1>3 DEF Restart
    <2> QED
      BY <2>1, SnapRead
  <1>4. ASSUME NEW t \in Threads, Open(t) PROVE SnapInv' /\ Kept
    <2>1. handles = << >> /\ Readable /\ UNCHANGED BuilderVars
      BY <1>1, <1>4 DEF Open, Pc, LockInv, HandleInv, BuilderVars
    <2>2. handles' = << [file |-> file, rows |-> None] >>
      BY <1>4, <2>1 DEF Open
    <2>3. Len(handles') = 1 /\ DOMAIN handles' = {1} /\ handles'[1].file = file
      BY <2>2
    <2> QED
      BY <2>1, <2>3, SnapRead
  <1>5. ASSUME NEW t \in Threads, Execute(t) \/ Fetch(t) PROVE SnapInv' /\ Kept
    <2>1. thread[t].handle = 1 /\ Len(handles) = 1
      BY <1>1, <1>5 DEF Execute, Fetch, Pc, HandleInv
    <2>2. 1 \in DOMAIN handles /\ handles[1] \in HandleRecord
      BY <1>1, <2>1, SeqLen
    <2>3. UNCHANGED BuilderVars
      BY <1>5 DEF Execute, Fetch, BuilderVars
    <2>4. PICK q : handles' = [handles EXCEPT ![1] = [handles[1] EXCEPT !.rows = q]]
      BY <1>5, <2>1 DEF Execute, Fetch
    <2>5. DOMAIN handles' = DOMAIN handles /\ handles'[1].file = handles[1].file /\ Len(handles') = 1
      BY <1>1, <2>1, <2>2, <2>4 DEF HandleRecord
    <2>6. DOMAIN handles = {1}
      BY <1>1, <2>1, SeqLen
    <2> QED
      BY <2>3, <2>5, <2>6, SnapRead
  <1>6. ASSUME NEW t \in Threads, Call(t) \/ Acquire(t) \/ FailOpen(t) \/ Return(t)
        PROVE  SnapInv' /\ Kept
    <2>1. UNCHANGED BuilderVars /\ handles' = handles
      BY <1>6 DEF Call, Acquire, FailOpen, Return, BuilderVars
    <2>2. handles = << >> \/ Len(handles) = 1
      BY <1>1 DEF HandleInv
    <2> QED
      BY <2>1, <2>2, SnapRead
  <1>7. CASE UNCHANGED vars
    <2>1. UNCHANGED BuilderVars /\ handles' = handles
      BY <1>7 DEF vars, BuilderVars, ReaderVars
    <2>2. handles = << >> \/ Len(handles) = 1
      BY <1>1 DEF HandleInv
    <2> QED
      BY <2>1, <2>2, SnapRead
  <1> QED
    BY <1>2, <1>3, <1>4, <1>5, <1>6, <1>7 DEF Next, Step

\* What a process reads through its handle stays what it was when the handle
\* was opened (_db.py:42), though the path may be unlinked, built anew and
\* left half built any number of times (build.py:41-60).
THEOREM SnapshotsAlways == Spec => HandlesAreSnapshots
  <1>1. Init => SnapInv
    BY SnapInit
  <1>2. IInv /\ SnapInv /\ [Next]_vars => SnapInv' /\ [Kept]_vars
    BY SnapNext
  <1> QED
    BY <1>1, <1>2, Inductive, PTL DEF Spec, HandlesAreSnapshots, Kept
=============================================================================
