------------------------ MODULE SessionTeardown_proofs ------------------------
(***************************************************************************)
(* Proofs about SessionTeardown, for any number of workers, connections,   *)
(* completions and callers.                                                *)
(*                                                                         *)
(* The argument.  Everything that runs is behind a handle of one of the    *)
(* two registries or of the join in progress (OwnInv), and a connection    *)
(* that no worker owns is held by a dialer that is itself such a worker.   *)
(* So when a join has awaited the handles of a closed registry nothing of  *)
(* its kind is left (StageInv).  A failure is always recorded somewhere    *)
(* between where it happens and the outcome (FailInv).  CallInv says which *)
(* callers may be where, and that the session is gone when they return.    *)
(* WaitInv, on top of it, is about what a stop waits for.                  *)
(***************************************************************************)
EXTENDS SessionTeardown, Naturals, TLAPS

Worker == Dialer \cup Loop \cup Conn

RegType == [{"tasks", "completions"} ->
              [closed : BOOLEAN, cancelled : BOOLEAN, handles : SUBSET Task, failed : BOOLEAN]]
AppType == [cancelled : BOOLEAN, changing : BOOLEAN, outcome : {"none", "ok", "err"},
            db : {"open", "closed"}]
StopType == [by : Caller \cup {"unlock", None}, at : Stages, waits : SUBSET Task,
             errs : BOOLEAN, took : Caller \cup {None}]

Rollback == {"drain", "await", "reap", "stores", "seal", "settle", "collect", "fence"}
Joined == {"reap", "exit", "flush", "stores", "seal", "settle", "collect", "drop", "fence"}
Flushing == {"cancel", "disconnect", "drain", "await", "reap", "exit", "flush"}
Teardown == Flushing \cup {"stores", "seal", "settle", "collect", "drop", "fence"}

(* Where the session is at each stage of a stop, and who stops it.         *)
StopInv ==
  /\ stop.at = "rest" => sess \in {"none", "starting", "up"}
  /\ stop.at # "rest" /\ stop.by = "unlock" => sess = "starting" /\ stop.at \in Rollback
  /\ stop.at # "rest" /\ stop.by # "unlock" =>
       /\ stop.by \in Caller /\ pc[stop.by] = "in"
       /\ \/ stop.at = "take" /\ sess \in {"none", "up"} /\ stop.took # stop.by
          \/ stop.at \in Teardown /\ sess = "stopping" /\ stop.took = stop.by
          \/ stop.at \in {"database", "record"} /\ sess = "none"
  /\ \A c \in Caller : pc[c] = "in" => stop.by = c /\ stop.at # "rest"

(* What the callers wait for, and what has become of the session for those *)
(* that returned.                                                          *)
CallInv ==
  /\ sess = "starting" => app.changing
  /\ \A c \in Shut : /\ pc[c] # "idle" => app.cancelled
                     /\ pc[c] \in {"queue", "in", "ok", "err"} => sess # "starting"
                     /\ pc[c] \in {"ok", "err"} => sess = "none" /\ app.outcome = pc[c]
  /\ \A c \in Lock : pc[c] \in {"queue", "in"} =>
       /\ app.changing /\ sess # "starting"
       /\ \A d \in Lock : pc[d] \in {"queue", "in"} => d = c
  /\ stop.took # None => pc[stop.took] \in {"in", "ok", "err"} /\ sess \in {"none", "stopping"}
  /\ app.outcome # "none" => app.cancelled /\ sess = "none" /\ stop.at = "rest"
  /\ app.db = "closed" => app.cancelled /\ sess = "none"

(* Whatever runs is owned.                                                 *)
OwnInv ==
  /\ reg["tasks"].handles \subseteq Worker /\ reg["completions"].handles \subseteq Completion
  /\ \A t \in Worker : task[t] # "none" =>
       t \in reg["tasks"].handles \/ (stop.at = "await" /\ t \in stop.waits)
  /\ \A t \in Completion : task[t] # "none" =>
       t \in reg["completions"].handles \/ (stop.at = "settle" /\ t \in stop.waits)
  /\ stop.at = "await" => stop.waits \subseteq Worker
  /\ stop.at = "settle" => stop.waits \subseteq Completion
  /\ \A k \in Conn : link[k] # "none" => Running(k) \/ \E d \in Dialer : dial[d].conn = k

(* A connection a dialer still holds is its alone, and nothing else's yet; *)
(* a dialer that ended holds none.                                         *)
DialInv ==
  /\ \A d \in Dialer : IF dial[d].at \in {"open", "inline"} THEN dial[d].conn \in Conn
                                                            ELSE dial[d].conn = None
  /\ \A d \in Dialer : dial[d].conn # None =>
       /\ Running(d) /\ link[dial[d].conn] # "none" /\ task[dial[d].conn] = "none"
       /\ \A e \in Dialer : dial[e].conn = dial[d].conn => e = d
  /\ \A d \in Dialer : task[d] # "panic"

(* What each stage leaves behind.                                          *)
StageInv ==
  /\ stop.at \in Joined \cup {"await"} => reg["tasks"].closed /\ reg["tasks"].handles = {}
  /\ stop.at \in Joined => \A t \in Worker : task[t] = "none"
  /\ stop.at \in {"settle", "collect", "drop", "fence"} =>
       reg["completions"].closed /\ reg["completions"].handles = {}
  /\ stop.at \in {"collect", "drop", "fence"} => \A t \in Completion : task[t] = "none"
  /\ sess = "none" => \A t \in Task : task[t] = "none"
  /\ BpAlive => sess = "up" \/ (sess = "stopping" /\ stop.at \in Flushing)
  /\ sess = "starting" => bp = "none"
  /\ reg["completions"].closed => sess = "none" \/ stop.at \in {"settle", "collect", "drop", "fence"}

(* Where a failure of this session is on record.                           *)
OnRecord ==
  \/ stop.at \notin {"rest", "take"} /\ stop.errs
  \/ \E q \in {"tasks", "completions"} : reg[q].failed
  \/ \E t \in Task : task[t] = "panic"
  \/ bp = "failed" /\ stop.at \in Flushing \cup {"rest", "take"}

FailInv ==
  /\ fence = "free" => sess = "none" /\ ~hurt
  /\ stop.took # None /\ pc[stop.took] = "ok" => sess = "none"
  /\ sess # "none" /\ hurt => OnRecord
  /\ stop.at \in Joined \ {"reap"} => ~reg["tasks"].failed
  /\ stop.at \in {"drop", "fence"} => ~reg["completions"].failed
  /\ stop.took # None /\ stop.at \in {"database", "record"} /\ stop.by = stop.took /\ ~stop.errs =>
       ~hurt /\ ~adapter
  /\ stop.at = "fence" /\ stop.by # "unlock" /\ ~stop.errs => ~adapter
  /\ FailureIsReported

TeardownInv == TypeOK /\ StopInv /\ CallInv /\ OwnInv /\ DialInv /\ StageInv /\ FailInv

-----------------------------------------------------------------------------
(* The invariant holds before the first unlock.                            *)
LEMMA TeardownInit == Init => TeardownInv
<1> USE DEF Init, Registry, Watching, TypeOK, Task, Caller, Dialer
<1>1. Init => TypeOK
  <2>1. Init => reg \in [{"tasks", "completions"} ->
                 [closed : BOOLEAN, cancelled : BOOLEAN, handles : SUBSET Task, failed : BOOLEAN]]
    OBVIOUS
  <2>2. Init => \A q \in DOMAIN reg : reg[q].handles = {}
    OBVIOUS
  <2>3. Init => dial \in [Dialer -> [at : {"watch", "checked", "open", "inline", "failing", "last"},
                                     conn : Conn \cup {None}]]
    OBVIOUS
  <2>4. Init => /\ app \in [cancelled : BOOLEAN, changing : BOOLEAN, outcome : {"none", "ok", "err"},
                             db : {"open", "closed"}]
                /\ stop \in [by : Caller \cup {"unlock", None}, at : Stages, waits : SUBSET Task,
                              errs : BOOLEAN, took : Caller \cup {None}]
    BY DEF Stages
  <2>5. Init => \A q \in DOMAIN reg : \A t \in reg[q].handles : task[t] # "none"
    OBVIOUS
  <2>6. Init => /\ task \in [Task -> {"none", "run", "done", "panic"}]
                /\ link \in [Conn -> {"none", "up", "down"}]
                /\ pc \in [Caller -> {"idle", "wait", "queue", "in", "ok", "err"}]
    OBVIOUS
  <2> HIDE DEF Task, Caller, Dialer, Registry, Watching
  <2> QED
    BY <2>1, <2>3, <2>4, <2>5, <2>6
<1>2. Init => StopInv /\ CallInv
  BY DEF StopInv, CallInv
<1>3. Init => OwnInv /\ DialInv
  BY DEF OwnInv, DialInv, Worker
<1>4. Init => StageInv /\ FailInv
  BY DEF StageInv, FailInv, FailureIsReported, BpAlive, Joined
<1> QED
  BY <1>1, <1>2, <1>3, <1>4 DEF TeardownInv

(* A step of the session's own work leaves the callers and the stop alone. *)
LEMMA WorkLeavesCalls ==
  ASSUME StopInv, CallInv, UNCHANGED <<sess, pc, stop>>, app' = app
  PROVE  StopInv' /\ CallInv'
  BY DEF StopInv, CallInv

(* Admission keeps the handles typed and loses no panic.                   *)
LEMMA SpawnFacts ==
  ASSUME TypeOK, OwnInv, NEW q \in {"tasks", "completions"}, NEW new \in SUBSET Task, Spawn(q, new)
  PROVE  /\ reg' \in [{"tasks", "completions"} ->
                       [closed : BOOLEAN, cancelled : BOOLEAN, handles : SUBSET Task, failed : BOOLEAN]]
         /\ task' \in [Task -> {"none", "run", "done", "panic"}]
         /\ \A p \in {"tasks", "completions"} : \A t \in reg'[p].handles : task'[t] # "none"
         /\ \A p \in {"tasks", "completions"} :
              reg'[p].closed = reg[p].closed /\ reg'[p].cancelled = reg[p].cancelled
         /\ \A p \in {"tasks", "completions"} : p # q => reg'[p] = reg[p]
         /\ ~reg[q].closed
         /\ reg'[q].handles = (reg[q].handles \ Finished(q)) \cup new
         /\ reg[q].failed \/ Panicked(Finished(q)) => reg'[q].failed
         /\ \A t \in Task : task'[t] = IF t \in new THEN "run"
                                       ELSE IF t \in Finished(q) THEN "none" ELSE task[t]
<1>1. Panicked(Finished(q)) \in BOOLEAN
  BY DEF Panicked
<1>2. /\ task' \in [Task -> {"none", "run", "done", "panic"}]
      /\ \A t \in Task : task'[t] = IF t \in new THEN "run"
                                    ELSE IF t \in Finished(q) THEN "none" ELSE task[t]
  BY DEF TypeOK, Spawn
<1>3. /\ reg'[q].handles = (reg[q].handles \ Finished(q)) \cup new
      /\ \A p \in {"tasks", "completions"} : p # q => reg'[p] = reg[p]
  BY DEF TypeOK, Spawn
<1>4. \A p \in {"tasks", "completions"} : \A t \in reg'[p].handles : task'[t] # "none"
  BY <1>2, <1>3, DistinctAssumption DEF TypeOK, OwnInv, Finished, Worker
<1>5. \A p \in {"tasks", "completions"} :
        reg'[p].closed = reg[p].closed /\ reg'[p].cancelled = reg[p].cancelled
  BY DEF TypeOK, Spawn
<1>6. reg'[q].failed = (reg[q].failed \/ Panicked(Finished(q))) /\ ~reg[q].closed
  BY DEF TypeOK, Spawn
<1>7. reg' \in [{"tasks", "completions"} ->
                 [closed : BOOLEAN, cancelled : BOOLEAN, handles : SUBSET Task, failed : BOOLEAN]]
  <2> DEFINE r == [[reg[q] EXCEPT !.handles = (@ \ Finished(q)) \cup new]
                      EXCEPT !.failed = @ \/ Panicked(Finished(q))]
  <2>1. r \in [closed : BOOLEAN, cancelled : BOOLEAN, handles : SUBSET Task, failed : BOOLEAN]
    <3>1. reg[q] \in [closed : BOOLEAN, cancelled : BOOLEAN, handles : SUBSET Task, failed : BOOLEAN]
      BY DEF TypeOK
    <3>2. (reg[q].handles \ Finished(q)) \cup new \in SUBSET Task
      BY <3>1
    <3> QED
      BY <3>1
  <2>2. reg' = [reg EXCEPT ![q] = r]
    BY DEF Spawn
  <2> QED
    BY <2>1, <2>2 DEF TypeOK
<1> QED
  BY <1>2, <1>3, <1>4, <1>5, <1>6, <1>7

(* It leaves every future of either registry behind a handle, and those    *)
(* that run untouched.                                                     *)
LEMMA SpawnKeepsOwners ==
  ASSUME TypeOK, OwnInv, NEW q \in {"tasks", "completions"}, NEW new \in SUBSET Task, Spawn(q, new),
         new \subseteq (IF q = "tasks" THEN Worker ELSE Completion), stop' = stop
  PROVE  /\ reg'["tasks"].handles \subseteq Worker /\ reg'["completions"].handles \subseteq Completion
         /\ \A t \in Worker : task'[t] # "none" =>
              t \in reg'["tasks"].handles \/ (stop'.at = "await" /\ t \in stop'.waits)
         /\ \A t \in Completion : task'[t] # "none" =>
              t \in reg'["completions"].handles \/ (stop'.at = "settle" /\ t \in stop'.waits)
         /\ \A t \in Task : Running(t) => Running(t)'
         /\ \A t \in Task : task[t] = "none" /\ t \notin new => task'[t] = "none"
         /\ \A t \in Task : task'[t] = "panic" => task[t] = "panic"
<1>1. /\ reg'[q].handles = (reg[q].handles \ Finished(q)) \cup new
      /\ \A p \in {"tasks", "completions"} : p # q => reg'[p] = reg[p]
      /\ \A t \in Task : task'[t] = IF t \in new THEN "run"
                                    ELSE IF t \in Finished(q) THEN "none" ELSE task[t]
  BY SpawnFacts
<1>2. \A t \in Finished(q) : task[t] \in {"done", "panic"}
  BY DEF Finished, Over
<1>3. Worker \cap Completion = {} /\ Worker \cup Completion = Task
  BY DistinctAssumption DEF Worker, Task
<1>4. CASE q = "tasks"
  BY <1>1, <1>2, <1>3 DEF OwnInv, Running
<1>5. CASE q = "completions"
  BY <1>1, <1>2, <1>3 DEF OwnInv, Running
<1> QED
  BY <1>4, <1>5

(* A failure on record stays on record.                                    *)
LEMMA SpawnKeepsRecord ==
  ASSUME TypeOK, OwnInv, NEW q \in {"tasks", "completions"}, NEW new \in SUBSET Task, Spawn(q, new),
         \A t \in new : task[t] # "panic", stop' = stop, bp = "failed" => bp' = "failed", OnRecord
  PROVE  OnRecord'
<1>1. CASE stop.at \notin {"rest", "take"} /\ stop.errs
  BY <1>1 DEF OnRecord
<1>2. CASE \E p \in {"tasks", "completions"} : reg[p].failed
  BY <1>2, SpawnFacts DEF OnRecord
<1>3. CASE \E t \in Task : task[t] = "panic"
  <2>1. PICK t \in Task : task[t] = "panic"
    BY <1>3
  <2>2. CASE t \in Finished(q)
    BY SpawnFacts DEF Panicked, OnRecord
  <2>3. CASE t \notin Finished(q)
    BY <2>1, <2>3, SpawnFacts DEF OnRecord
  <2> QED
    BY <2>2, <2>3
<1>4. CASE bp = "failed" /\ stop.at \in Flushing \cup {"rest", "take"}
  BY <1>4 DEF OnRecord
<1> QED
  BY <1>2, <1>3 DEF OnRecord

(* While anything runs there is a session, and its outcome is not out yet. *)
LEMMA WorkNeedsSession ==
  ASSUME TeardownInv, Producing \/ \E t \in Task : Running(t)
  PROVE  sess # "none"
  BY DEF TeardownInv, StageInv, Producing, Starting, Running, Task

LEMMA NothingReportedYet ==
  ASSUME TeardownInv, sess # "none"
  PROVE  /\ fence = "held" /\ stop.at \notin {"database", "record"}
         /\ ~(stop.took # None /\ pc[stop.took] = "ok")
<1> USE DEF TeardownInv
<1>1. fence = "held"
  BY DEF TypeOK, FailInv
<1>2. stop.at \notin {"database", "record"}
  BY DEF StopInv, Rollback, Teardown, Flushing
<1>3. ASSUME stop.took # None PROVE pc[stop.took] # "ok"
  <2>1. sess = "stopping" /\ stop.at # "rest" /\ stop.by # "unlock"
    BY <1>3 DEF CallInv, StopInv
  <2>2. stop.took = stop.by /\ pc[stop.by] = "in"
    BY <2>1 DEF StopInv
  <2> QED
    BY <2>2
<1> QED
  BY <1>1, <1>2, <1>3

(* One dialer moves.                                                       *)
LEMMA GoFacts ==
  ASSUME TypeOK, NEW d \in Dialer, NEW conn \in Conn \cup {None},
         NEW at \in {"watch", "checked", "open", "inline", "failing", "last"}, Go(d, at, conn)
  PROVE  /\ dial' \in [Dialer -> [at : {"watch", "checked", "open", "inline", "failing", "last"},
                                  conn : Conn \cup {None}]]
         /\ dial'[d].at = at /\ dial'[d].conn = conn
         /\ \A e \in Dialer : e # d => dial'[e] = dial[e]
  BY DEF TypeOK, Go

(* A dialer that holds no connection moves: every link keeps its owner.    *)
LEMMA IdleDialerMoves ==
  ASSUME TypeOK, OwnInv, DialInv, NEW d \in Dialer, dial[d].at \notin {"open", "inline"},
         NEW at \in {"watch", "checked", "failing", "last"}, Go(d, at, None), link' = link, task' = task
  PROVE  /\ \A k \in Conn : link'[k] # "none" => Running(k)' \/ \E e \in Dialer : dial'[e].conn = k
         /\ DialInv'
<1>1. dial[d].conn = None /\ None \notin Conn
  BY DistinctAssumption DEF DialInv, Task
<1>2. /\ dial'[d].at = at /\ dial'[d].conn = None
      /\ \A e \in Dialer : e # d => dial'[e] = dial[e]
  BY GoFacts
<1> QED
  BY <1>2 DEF OwnInv, DialInv, Running

(* A failure is noted in, or taken from, a registry.                       *)
LEMMA FailedFlagTyped ==
  ASSUME TypeOK, NEW q \in {"tasks", "completions"},
         NEW b \in BOOLEAN, reg' = [reg EXCEPT ![q].failed = b]
  PROVE  /\ reg' \in [{"tasks", "completions"} ->
                       [closed : BOOLEAN, cancelled : BOOLEAN, handles : SUBSET Task, failed : BOOLEAN]]
         /\ \A p \in {"tasks", "completions"} :
              /\ reg'[p].closed = reg[p].closed /\ reg'[p].handles = reg[p].handles
              /\ reg'[p].failed = IF p = q THEN b ELSE reg[p].failed
<1>1. reg' = [reg EXCEPT ![q] = [reg[q] EXCEPT !.failed = b]]
  OBVIOUS
<1>2. reg[q] \in [closed : BOOLEAN, cancelled : BOOLEAN, handles : SUBSET Task, failed : BOOLEAN]
  BY DEF TypeOK
<1>3. [reg[q] EXCEPT !.failed = b] \in
        [closed : BOOLEAN, cancelled : BOOLEAN, handles : SUBSET Task, failed : BOOLEAN]
  BY <1>2
<1> QED
  BY DEF TypeOK

(* A registry is closed, or cancelled.                                     *)
LEMMA RegistryFlagTyped ==
  ASSUME TypeOK, NEW q \in {"tasks", "completions"},
         reg' \in {[reg EXCEPT ![q].closed = TRUE], [reg EXCEPT ![q].cancelled = TRUE]}
  PROVE  /\ reg' \in RegType
         /\ \A p \in {"tasks", "completions"} :
              /\ reg'[p].handles = reg[p].handles /\ reg'[p].failed = reg[p].failed
              /\ reg[p].closed => reg'[p].closed
              /\ p # q => reg'[p] = reg[p]
<1>1. reg[q] \in [closed : BOOLEAN, cancelled : BOOLEAN, handles : SUBSET Task, failed : BOOLEAN]
  BY DEF TypeOK
<1>2. CASE reg' = [reg EXCEPT ![q] = [reg[q] EXCEPT !.closed = TRUE]]
  BY <1>1, <1>2 DEF TypeOK, RegType
<1>3. CASE reg' = [reg EXCEPT ![q] = [reg[q] EXCEPT !.cancelled = TRUE]]
  BY <1>1, <1>3 DEF TypeOK, RegType
<1> QED
  BY <1>2, <1>3

(* A worker is admitted, and the handles that finished are reaped.         *)
LEMMA SpawnWorkerStep ==
  ASSUME TeardownInv, NEW w \in Loop, SpawnWorker(w)
  PROVE  TeardownInv'
<1> USE DEF TeardownInv, SpawnWorker, session, calls, Running, TypeOK
<1>1. TypeOK'
  <2>1. Spawn("tasks", {w}) /\ {w} \in SUBSET Task
    BY DEF Task
  <2> QED
    BY <2>1, SpawnFacts
<1>2. StopInv' /\ CallInv'
  BY WorkLeavesCalls
<1>3. OwnInv'
  <2>1. Spawn("tasks", {w}) /\ {w} \in SUBSET Task
    BY DEF Task
  <2> QED
    BY <2>1, SpawnKeepsOwners DEF OwnInv, Worker
<1>4. DialInv'
  <2>1. Spawn("tasks", {w}) /\ {w} \in SUBSET Task
    BY DEF Task
  <2> QED
    BY SpawnKeepsOwners, DistinctAssumption DEF DialInv, Worker, Task
<1>5. StageInv'
  <2>1. Spawn("tasks", {w}) /\ {w} \in SUBSET Task
    BY DEF Task
  <2>2. sess # "none"
    BY WorkNeedsSession
  <2> QED
    BY <2>1, <2>2, SpawnFacts DEF StageInv, BpAlive, Joined
<1>6. FailInv'
  <2>1. Spawn("tasks", {w}) /\ {w} \in SUBSET Task
    BY DEF Task
  <2>2. sess # "none"
    BY WorkNeedsSession
  <2> QED
    BY <2>1, SpawnFacts, SpawnKeepsRecord DEF FailInv, FailureIsReported, StageInv
<1> QED
  BY <1>1, <1>2, <1>3, <1>4, <1>5, <1>6

(* So is a completion, in its own registry.                                *)
LEMMA SpawnCompletionStep ==
  ASSUME TeardownInv, NEW m \in Completion, SpawnCompletion(m)
  PROVE  TeardownInv'
<1> USE DEF TeardownInv, SpawnCompletion, session, calls, Running, TypeOK
<1>1. TypeOK'
  <2>1. Spawn("completions", {m}) /\ {m} \in SUBSET Task
    BY DEF Task
  <2> QED
    BY <2>1, SpawnFacts
<1>2. StopInv' /\ CallInv'
  BY WorkLeavesCalls
<1>3. OwnInv'
  <2>1. Spawn("completions", {m}) /\ {m} \in SUBSET Task
    BY DEF Task
  <2> QED
    BY <2>1, SpawnKeepsOwners DEF OwnInv, Worker
<1>4. DialInv'
  <2>1. Spawn("completions", {m}) /\ {m} \in SUBSET Task
    BY DEF Task
  <2> QED
    BY SpawnKeepsOwners, DistinctAssumption DEF DialInv, Task
<1>5. StageInv'
  <2>1. Spawn("completions", {m}) /\ {m} \in SUBSET Task
    BY DEF Task
  <2>2. sess # "none"
    BY WorkNeedsSession
  <2> QED
    BY <2>2, SpawnFacts, DistinctAssumption DEF StageInv, BpAlive, Worker, Task
<1>6. FailInv'
  <2>1. Spawn("completions", {m}) /\ {m} \in SUBSET Task
    BY DEF Task
  <2>2. sess # "none"
    BY WorkNeedsSession
  <2> QED
    BY <2>1, SpawnFacts, SpawnKeepsRecord DEF FailInv, FailureIsReported, StageInv
<1> QED
  BY <1>1, <1>2, <1>3, <1>4, <1>5, <1>6

(* A panic stays with the handle until someone looks at it.                *)
LEMMA PanicStep ==
  ASSUME TeardownInv, NEW t \in Task, Panic(t)
  PROVE  TeardownInv'
<1> USE DEF TeardownInv, Panic, session, calls, Running, TypeOK
<1>1. TypeOK'
  OBVIOUS
<1>2. StopInv' /\ CallInv'
  BY WorkLeavesCalls
<1>3. OwnInv'
  BY DEF OwnInv
<1>4. DialInv'
  BY DEF DialInv
<1>5. StageInv'
  BY DEF StageInv, BpAlive
<1>6. FailInv'
  <2>1. sess # "none" /\ OnRecord'
    BY WorkNeedsSession DEF OnRecord
  <2> QED
    BY <2>1, NothingReportedYet DEF FailInv, FailureIsReported
<1> QED
  BY <1>2, <1>3, <1>4, <1>5, <1>6

(* The network adapter drops its hold on the managers.                     *)
LEMMA AdapterLetsGoStep ==
  ASSUME TeardownInv, AdapterLetsGo
  PROVE  TeardownInv'
<1> USE DEF TeardownInv, AdapterLetsGo, session, calls, Running, TypeOK
<1>1. TypeOK'
  <2>1. adapter' \in BOOLEAN
    OBVIOUS
  <2> QED
    BY <2>1
<1>2. StopInv' /\ CallInv'
  BY WorkLeavesCalls
<1>3. OwnInv'
  BY DEF OwnInv
<1>4. DialInv'
  BY DEF DialInv
<1>5. StageInv'
  BY DEF StageInv, BpAlive
<1>6. FailInv'
  BY DEF FailInv, OnRecord, FailureIsReported
<1> QED
  BY <1>1, <1>2, <1>3, <1>4, <1>5, <1>6

(* The background processor ends by itself.                                *)
LEMMA BpFailsStep ==
  ASSUME TeardownInv, BpFails
  PROVE  TeardownInv'
<1> USE DEF TeardownInv, BpFails, session, calls, Running, TypeOK
<1>1. TypeOK'
  OBVIOUS
<1>2. StopInv' /\ CallInv'
  BY WorkLeavesCalls
<1>3. OwnInv'
  BY DEF OwnInv
<1>4. DialInv'
  BY DEF DialInv
<1>5. StageInv'
  BY DEF StageInv
<1>6. FailInv'
  <2>1. sess # "none" /\ OnRecord'
    BY DEF OnRecord, StageInv, StopInv
  <2> QED
    BY <2>1, NothingReportedYet DEF FailInv, FailureIsReported
<1> QED
  BY <1>2, <1>3, <1>4, <1>5, <1>6

(* A loop or a completion returns.                                         *)
LEMMA ReturnStep ==
  ASSUME TeardownInv, NEW t \in Task, Return(t)
  PROVE  TeardownInv'
<1> USE DEF TeardownInv, Return, session, calls, Running, TypeOK
<1>1. TypeOK'
  OBVIOUS
<1>2. StopInv' /\ CallInv'
  BY WorkLeavesCalls
<1>3. OwnInv'
  BY DistinctAssumption DEF OwnInv
<1>4. DialInv'
  BY DistinctAssumption DEF DialInv
<1>5. StageInv'
  BY DEF StageInv, BpAlive
<1>6. FailInv'
  BY DEF FailInv, OnRecord, FailureIsReported
<1> QED
  BY <1>2, <1>3, <1>4, <1>5, <1>6

(* A peer leaves.                                                          *)
LEMMA PeerLeavesStep ==
  ASSUME TeardownInv, NEW k \in Conn, PeerLeaves(k)
  PROVE  TeardownInv'
<1> USE DEF TeardownInv, PeerLeaves, session, calls, Running, TypeOK
<1>1. TypeOK'
  OBVIOUS
<1>2. StopInv' /\ CallInv'
  BY WorkLeavesCalls
<1>3. OwnInv'
  BY DEF OwnInv
<1>4. DialInv'
  BY DEF DialInv
<1>5. StageInv'
  BY DEF StageInv, BpAlive
<1>6. FailInv'
  BY DEF FailInv, OnRecord, FailureIsReported
<1> QED
  BY <1>2, <1>3, <1>4, <1>5, <1>6

(* Its future ends, and the peer manager forgets it.                       *)
LEMMA ConnEndsStep ==
  ASSUME TeardownInv, NEW k \in Conn, ConnEnds(k)
  PROVE  TeardownInv'
<1> USE DEF TeardownInv, ConnEnds, session, calls, Running, TypeOK
<1>1. TypeOK'
  <2>1. task' \in [Task -> {"none", "run", "done", "panic"}] /\ link' \in [Conn -> {"none", "up", "down"}]
    OBVIOUS
  <2>2. \A q \in DOMAIN reg' : \A t \in reg'[q].handles : task'[t] # "none"
    OBVIOUS
  <2> QED
    BY <2>1
<1>2. StopInv' /\ CallInv'
  BY WorkLeavesCalls
<1>3. OwnInv'
  BY DEF OwnInv
<1>4. DialInv'
  BY DistinctAssumption DEF DialInv
<1>5. StageInv'
  BY DEF StageInv, BpAlive
<1>6. FailInv'
  BY DEF FailInv, OnRecord, FailureIsReported
<1> QED
  BY <1>1, <1>2, <1>3, <1>4, <1>5, <1>6

(* The background processor has written its last state.                    *)
LEMMA BpFlushedStep ==
  ASSUME TeardownInv, BpFlushed
  PROVE  TeardownInv'
<1> USE DEF TeardownInv, BpFlushed, session, calls, Running, TypeOK
<1>1. TypeOK'
  OBVIOUS
<1>2. StopInv' /\ CallInv'
  BY WorkLeavesCalls
<1>3. OwnInv'
  BY DEF OwnInv
<1>4. DialInv'
  BY DEF DialInv
<1>5. StageInv'
  BY DEF StageInv, BpAlive
<1>6. FailInv'
  BY DEF FailInv, OnRecord, FailureIsReported
<1> QED
  BY <1>2, <1>3, <1>4, <1>5, <1>6

(* The dialers move on their own; a connection they hold stays theirs.     *)
LEMMA LookStep ==
  ASSUME TeardownInv, NEW d \in Dialer, Look(d)
  PROVE  TeardownInv'
<1> USE DEF TeardownInv, Look, session, calls, Running, TypeOK, At
<1>1. TypeOK'
  <2>1. Go(d, "checked", None)
    OBVIOUS
  <2> QED
    BY GoFacts
<1>2. StopInv' /\ CallInv'
  BY WorkLeavesCalls
<1>3. OwnInv'
  <2>1. Go(d, "checked", None) /\ dial[d].at \notin {"open", "inline"}
    OBVIOUS
  <2> QED
    BY IdleDialerMoves DEF OwnInv
<1>4. DialInv'
  <2>1. Go(d, "checked", None) /\ dial[d].at \notin {"open", "inline"}
    OBVIOUS
  <2> QED
    BY IdleDialerMoves
<1>5. StageInv'
  BY DEF StageInv, BpAlive
<1>6. FailInv'
  BY DEF FailInv, OnRecord, FailureIsReported
<1> QED
  BY <1>1, <1>2, <1>3, <1>4, <1>5, <1>6

(* The dialer found no one.                                                *)
LEMMA NoPeerStep ==
  ASSUME TeardownInv, NEW d \in Dialer, NoPeer(d)
  PROVE  TeardownInv'
<1> USE DEF TeardownInv, NoPeer, session, calls, Running, TypeOK, At
<1>1. TypeOK'
  <2>1. Go(d, "watch", None)
    OBVIOUS
  <2> QED
    BY GoFacts
<1>2. StopInv' /\ CallInv'
  BY WorkLeavesCalls
<1>3. OwnInv'
  <2>1. Go(d, "watch", None) /\ dial[d].at \notin {"open", "inline"}
    OBVIOUS
  <2> QED
    BY IdleDialerMoves DEF OwnInv
<1>4. DialInv'
  <2>1. Go(d, "watch", None) /\ dial[d].at \notin {"open", "inline"}
    OBVIOUS
  <2> QED
    BY IdleDialerMoves
<1>5. StageInv'
  BY DEF StageInv, BpAlive
<1>6. FailInv'
  BY DEF FailInv, OnRecord, FailureIsReported
<1> QED
  BY <1>1, <1>2, <1>3, <1>4, <1>5, <1>6

(* The listener can no longer accept.                                      *)
LEMMA AcceptFailsStep ==
  ASSUME TeardownInv, AcceptFails
  PROVE  TeardownInv'
<1> USE DEF TeardownInv, AcceptFails, session, calls, Running, TypeOK, At
<1>1. TypeOK'
  <2>1. Go("listener", "failing", None)
    OBVIOUS
  <2> QED
    BY GoFacts DEF Dialer
<1>2. StopInv' /\ CallInv'
  BY WorkLeavesCalls
<1>3. OwnInv'
  <2>1. Go("listener", "failing", None) /\ dial["listener"].at \notin {"open", "inline"}
    OBVIOUS
  <2> QED
    BY IdleDialerMoves DEF OwnInv, Dialer
<1>4. DialInv'
  <2>1. Go("listener", "failing", None) /\ dial["listener"].at \notin {"open", "inline"}
    OBVIOUS
  <2> QED
    BY IdleDialerMoves DEF Dialer
<1>5. StageInv'
  BY DEF StageInv, BpAlive
<1>6. FailInv'
  BY DEF FailInv, OnRecord, FailureIsReported
<1> QED
  BY <1>1, <1>2, <1>3, <1>4, <1>5, <1>6

(* It reports so, and stops the node.                                      *)
LEMMA RecordFailureStep ==
  ASSUME TeardownInv, RecordFailure
  PROVE  TeardownInv'
<1> USE DEF TeardownInv, RecordFailure, session, calls, Running, TypeOK, At
<1>1. TypeOK'
  <2>1. Go("listener", "last", None)
    OBVIOUS
  <2>2. /\ reg' \in [{"tasks", "completions"} ->
                     [closed : BOOLEAN, cancelled : BOOLEAN, handles : SUBSET Task, failed : BOOLEAN]]
        /\ \A q \in {"tasks", "completions"} : reg'[q].handles = reg[q].handles
    BY FailedFlagTyped
  <2>3. app' \in [cancelled : BOOLEAN, changing : BOOLEAN, outcome : {"none", "ok", "err"},
                     db : {"open", "closed"}]
    OBVIOUS
  <2> QED
    BY <2>2, <2>3, GoFacts DEF Dialer
<1>2. StopInv' /\ CallInv'
  <2>1. app'.cancelled /\ app'.changing = app.changing /\ app'.outcome = app.outcome /\ app'.db = app.db
    OBVIOUS
  <2> QED
    BY DEF StopInv, CallInv
<1>3. OwnInv'
  <2>1. Go("listener", "last", None) /\ dial["listener"].at \notin {"open", "inline"}
    OBVIOUS
  <2>2. \A q \in {"tasks", "completions"} : reg'[q].handles = reg[q].handles
    OBVIOUS
  <2> QED
    BY IdleDialerMoves DEF OwnInv, Dialer
<1>4. DialInv'
  <2>1. Go("listener", "last", None) /\ dial["listener"].at \notin {"open", "inline"}
    OBVIOUS
  <2> QED
    BY IdleDialerMoves DEF Dialer
<1>5. StageInv'
  BY DEF StageInv, BpAlive
<1>6. FailInv'
  <2>1. sess # "none" /\ "listener" \in Task
    BY WorkNeedsSession DEF Task, Dialer
  <2>2. reg'["tasks"].failed /\ reg'["completions"] = reg["completions"]
    OBVIOUS
  <2>3. stop.at \notin Joined
    BY DEF StageInv, Worker, Dialer
  <2> QED
    BY <2>1, <2>3, NothingReportedYet DEF FailInv, FailureIsReported, OnRecord
<1> QED
  BY <1>1, <1>2, <1>3, <1>4, <1>5, <1>6

(* It disconnects whoever came in last.                                    *)
LEMMA LastDisconnectStep ==
  ASSUME TeardownInv, LastDisconnect
  PROVE  TeardownInv'
<1> USE DEF TeardownInv, LastDisconnect, session, calls, Running, TypeOK, At, DisconnectAll
<1>1. TypeOK'
  <2>1. task' \in [Task -> {"none", "run", "done", "panic"}] /\ link' \in [Conn -> {"none", "up", "down"}]
    OBVIOUS
  <2>2. \A q \in DOMAIN reg' : \A t \in reg'[q].handles : task'[t] # "none"
    OBVIOUS
  <2> QED
    BY <2>1
<1>2. StopInv' /\ CallInv'
  BY WorkLeavesCalls
<1>3. OwnInv'
  BY DistinctAssumption DEF Dialer, OwnInv
<1>4. DialInv'
  BY DEF DialInv
<1>5. StageInv'
  BY DEF StageInv, BpAlive
<1>6. FailInv'
  BY DEF FailInv, OnRecord, FailureIsReported
<1> QED
  BY <1>1, <1>2, <1>3, <1>4, <1>5, <1>6

(* A dialer sees the cancellation.                                         *)
LEMMA SeeCancelledStep ==
  ASSUME TeardownInv, NEW d \in Dialer, SeeCancelled(d)
  PROVE  TeardownInv'
<1> USE DEF TeardownInv, SeeCancelled, session, calls, Running, TypeOK, At
<1>1. TypeOK'
  <2>1. CASE d = "listener"
    <3>1. Go(d, "last", None) /\ task' = task
      BY <2>1
    <3> QED
      BY GoFacts
  <2>2. CASE d # "listener"
    <3>1. /\ task' \in [Task -> {"none", "run", "done", "panic"}] /\ dial' = dial
          /\ \A q \in DOMAIN reg : \A t \in reg[q].handles : task'[t] # "none"
      BY <2>2
    <3> QED
      BY <3>1
  <2> QED
    BY <2>1
<1>2. StopInv' /\ CallInv'
  BY WorkLeavesCalls
<1>3. OwnInv'
  <2>1. CASE d = "listener"
    <3>1. Go(d, "last", None) /\ task' = task
      BY <2>1
    <3> QED
      BY <3>1, IdleDialerMoves DEF OwnInv
  <2>2. CASE d # "listener"
    <3>1. task' = [task EXCEPT ![d] = "done"] /\ dial' = dial
      BY <2>2
    <3> QED
      BY <3>1, DistinctAssumption DEF OwnInv
  <2> QED
    BY <2>1, <2>2
<1>4. DialInv'
  <2>1. CASE d = "listener"
    <3>1. Go(d, "last", None) /\ task' = task
      BY <2>1
    <3> QED
      BY <3>1, IdleDialerMoves
  <2>2. CASE d # "listener"
    <3>1. task' = [task EXCEPT ![d] = "done"] /\ dial' = dial
      BY <2>2
    <3> QED
      BY <3>1 DEF DialInv
  <2> QED
    BY <2>1, <2>2
<1>5. StageInv'
  <2>1. \A t \in Task : task[t] = "none" => task'[t] = "none"
    OBVIOUS
  <2> QED
    BY DEF StageInv, BpAlive, Joined, Worker
<1>6. FailInv'
  BY DEF FailInv, OnRecord, FailureIsReported
<1> QED
  BY <1>1, <1>2, <1>3, <1>4, <1>5, <1>6

(* A peer is connected, and held by the dialer.                            *)
LEMMA ConnectStep ==
  ASSUME TeardownInv, NEW d \in Dialer, NEW k \in Conn, Connect(d, k)
  PROVE  TeardownInv'
<1> USE DEF TeardownInv, Connect, session, calls, Running, TypeOK, At, Go
<1>1. TypeOK'
  OBVIOUS
<1>2. StopInv' /\ CallInv'
  BY WorkLeavesCalls
<1>3. OwnInv'
  <2>1. dial[d].conn = None /\ None \notin Conn
    BY DistinctAssumption DEF DialInv, Task
  <2>2. dial'[d].conn = k /\ \A e \in Dialer : e # d => dial'[e] = dial[e]
    OBVIOUS
  <2> QED
    BY <2>1 DEF OwnInv
<1>4. DialInv'
  BY DEF DialInv
<1>5. StageInv'
  BY DEF StageInv, BpAlive
<1>6. FailInv'
  <2>1. sess # "none" /\ d \in Task
    BY WorkNeedsSession DEF Task
  <2>2. stop.at # "fence"
    BY DEF StageInv, Joined, Worker
  <2> QED
    BY <2>1, <2>2, NothingReportedYet DEF FailInv, OnRecord, FailureIsReported
<1> QED
  BY <1>2, <1>3, <1>4, <1>5, <1>6

(* The future of the connection is admitted.                               *)
LEMMA HandOverStep ==
  ASSUME TeardownInv, NEW d \in Dialer, HandOver(d)
  PROVE  TeardownInv'
<1> USE DEF TeardownInv, HandOver, session, calls, Running, TypeOK, At, Go
<1>1. TypeOK'
  <2>1. dial[d].conn \in Conn /\ {dial[d].conn} \in SUBSET Task
    BY DEF DialInv, Task
  <2>2. Spawn("tasks", {dial[d].conn}) /\ Go(d, "watch", None)
    OBVIOUS
  <2>3. /\ reg' \in [{"tasks", "completions"} ->
                      [closed : BOOLEAN, cancelled : BOOLEAN, handles : SUBSET Task, failed : BOOLEAN]]
        /\ task' \in [Task -> {"none", "run", "done", "panic"}]
        /\ \A p \in {"tasks", "completions"} : \A t \in reg'[p].handles : task'[t] # "none"
    BY ONLY TeardownInv, <2>1, <2>2, SpawnFacts DEF TeardownInv
  <2>4. dial' \in [Dialer -> [at : {"watch", "checked", "open", "inline", "failing", "last"},
                              conn : Conn \cup {None}]]
    BY <2>2, GoFacts
  <2> QED
    BY <2>3, <2>4
<1>2. StopInv' /\ CallInv'
  BY WorkLeavesCalls
<1>3. OwnInv'
  <2>1. dial[d].conn \in Conn /\ {dial[d].conn} \in SUBSET Task
    BY DEF DialInv, Task
  <2>2. task'[dial[d].conn] = "run"
    BY <2>1, SpawnFacts
  <2>3. \A e \in Dialer : e # d => dial'[e] = dial[e]
    OBVIOUS
  <2>4. ASSUME NEW k \in Conn, link'[k] # "none"
        PROVE  Running(k)' \/ \E e \in Dialer : dial'[e].conn = k
    BY <2>1, <2>2, <2>4, SpawnKeepsOwners DEF OwnInv, Worker
  <2> QED
    BY <2>1, <2>4, SpawnKeepsOwners DEF OwnInv, Worker
<1>4. DialInv'
  <2>1. dial[d].conn \in Conn /\ {dial[d].conn} \in SUBSET Task
    BY DEF DialInv, Task
  <2> QED
    BY SpawnKeepsOwners DEF DialInv, Worker, Task
<1>5. StageInv'
  <2>1. dial[d].conn \in Conn /\ {dial[d].conn} \in SUBSET Task
    BY DEF DialInv, Task
  <2>2. sess # "none"
    BY WorkNeedsSession DEF Task
  <2> QED
    BY <2>1, <2>2, SpawnFacts DEF StageInv, BpAlive, Joined
<1>6. FailInv'
  <2>1. dial[d].conn \in Conn /\ {dial[d].conn} \in SUBSET Task
    BY DEF DialInv, Task
  <2>2. sess # "none" /\ \A t \in {dial[d].conn} : task[t] # "panic"
    BY WorkNeedsSession, DistinctAssumption DEF Task, DialInv
  <2> QED
    BY <2>1, <2>2, SpawnFacts, SpawnKeepsRecord DEF FailInv, FailureIsReported, StageInv
<1> QED
  BY <1>1, <1>2, <1>3, <1>4, <1>5, <1>6

(* It is refused: the dialer disconnects everyone and keeps the future.    *)
LEMMA KeepInlineStep ==
  ASSUME TeardownInv, NEW d \in Dialer, KeepInline(d)
  PROVE  TeardownInv'
<1> USE DEF TeardownInv, KeepInline, session, calls, Running, TypeOK, At, Go, DisconnectAll
<1>1. TypeOK'
  OBVIOUS
<1>2. StopInv' /\ CallInv'
  BY WorkLeavesCalls
<1>3. OwnInv'
  BY DEF OwnInv
<1>4. DialInv'
  BY DEF DialInv
<1>5. StageInv'
  BY DEF StageInv, BpAlive
<1>6. FailInv'
  BY DEF FailInv, OnRecord, FailureIsReported
<1> QED
  BY <1>2, <1>3, <1>4, <1>5, <1>6

(* The future a dialer kept ends.                                          *)
LEMMA InlineEndsStep ==
  ASSUME TeardownInv, NEW d \in Dialer, InlineEnds(d)
  PROVE  TeardownInv'
<1> USE DEF TeardownInv, InlineEnds, session, calls, Running, TypeOK, At, Go
<1>1. TypeOK'
  <2>1. link' \in [Conn -> {"none", "up", "down"}]
    OBVIOUS
  <2>2. Go(d, "watch", None)
    OBVIOUS
  <2> QED
    BY <2>1
<1>2. StopInv' /\ CallInv'
  BY WorkLeavesCalls
<1>3. OwnInv'
  BY DEF OwnInv
<1>4. DialInv'
  BY DEF DialInv
<1>5. StageInv'
  BY DEF StageInv, BpAlive
<1>6. FailInv'
  BY DEF FailInv, OnRecord, FailureIsReported
<1> QED
  BY <1>1, <1>2, <1>3, <1>4, <1>5, <1>6

(* Unlock begins a session in registries of its own.                       *)
LEMMA UnlockStep ==
  ASSUME TeardownInv, Unlock
  PROVE  TeardownInv'
<1> USE DEF TeardownInv, Unlock, session, calls, TypeOK, Registry, Watching
<1>0. /\ \A c \in Shut : pc[c] = "idle"
      /\ \A c \in Lock : pc[c] \notin {"queue", "in"}
      /\ stop.at = "rest" /\ \A t \in Task : task[t] = "none"
      /\ app.outcome = "none" /\ app.db = "open"
  BY DEF Admitted, Caller, StopInv, CallInv, StageInv
<1>1. TypeOK'
  BY DEF AppType, RegType, StopType
<1>2. StopInv'
  <2>1. stop'.by = stop.by /\ stop'.at = stop.at
    OBVIOUS
  <2> QED
    BY <1>0 DEF StopInv
<1>3. CallInv'
  <2>1. stop'.took = None /\ stop'.at = "rest" /\ app'.changing /\ app'.outcome = app.outcome /\ app'.db = app.db
    BY <1>0
  <2> QED
    BY <1>0 DEF CallInv
<1>4. OwnInv' /\ DialInv'
  <2>1. link' = [k \in Conn |-> "none"]
    BY <1>0, DistinctAssumption DEF OwnInv, DialInv, Running, Task
  <2>2. /\ \A q \in {"tasks", "completions"} : reg'[q].handles = {}
        /\ \A d \in Dialer : dial'[d].at = "watch" /\ dial'[d].conn = None
    OBVIOUS
  <2> QED
    BY <1>0, <2>1 DEF OwnInv, DialInv
<1>5. StageInv'
  BY <1>0 DEF StageInv, BpAlive, Joined
<1>6. FailInv'
  BY DEF FailInv, FailureIsReported
<1> QED
  BY <1>2, <1>3, <1>4, <1>5, <1>6

(* The session is published with its dialers and its processor.            *)
LEMMA PublishStep ==
  ASSUME TeardownInv, Publish
  PROVE  TeardownInv'
<1> USE DEF TeardownInv, Publish, session, calls, TypeOK, Starting
<1>0. /\ Spawn("tasks", Dialer) /\ Dialer \in SUBSET Task /\ Dialer \subseteq Worker
      /\ app'.changing = FALSE /\ app'.cancelled = app.cancelled /\ app'.outcome = app.outcome
      /\ app'.db = app.db /\ app' \in AppType
      /\ \A t \in Dialer : task[t] # "panic"
  BY DEF Task, Worker, DialInv, AppType
<1>1. TypeOK'
  BY <1>0, SpawnFacts DEF AppType, RegType
<1>2. StopInv'
  BY DEF StopInv
<1>3. CallInv'
  BY DEF CallInv
<1>4. OwnInv' /\ DialInv'
  <2>1. OwnInv'
    BY <1>0, SpawnKeepsOwners DEF OwnInv, Task
  <2>2. Dialer \cap Conn = {}
    BY DistinctAssumption
  <2> QED
    BY <1>0, <2>1, <2>2, SpawnKeepsOwners DEF DialInv, Task
<1>5. StageInv'
  BY <1>0, SpawnFacts DEF StageInv
<1>6. FailInv'
  <2>1. hurt => OnRecord'
    BY <1>0, SpawnKeepsRecord DEF FailInv, StageInv
  <2> QED
    BY <2>1 DEF FailInv, FailureIsReported, Joined
<1> QED
  BY <1>1, <1>2, <1>3, <1>4, <1>5, <1>6

(* The start fails: the rollback begins at its first join.                 *)
LEMMA StartFailsStep ==
  ASSUME TeardownInv, StartFails
  PROVE  TeardownInv'
<1> USE DEF TeardownInv, StartFails, session, calls, TypeOK, Starting, Begin
<1>1. TypeOK'
  BY DEF Stages, AppType, RegType, StopType
<1>2. StopInv'
  BY DEF StopInv, Rollback
<1>3. CallInv'
  BY DEF CallInv
<1>4. OwnInv' /\ DialInv'
  BY DEF OwnInv, DialInv, Running
<1>5. StageInv'
  BY DEF StageInv, BpAlive, Joined
<1>6. FailInv'
  BY DEF FailInv, FailureIsReported, OnRecord, StageInv, Joined
<1> QED
  BY <1>1, <1>2, <1>3, <1>4, <1>5, <1>6

(* The callers of stop_node ask, wait and enter.                           *)
LEMMA ShutdownStep ==
  ASSUME TeardownInv, NEW c \in Shut, Shutdown(c)
  PROVE  TeardownInv'
<1> USE DEF TeardownInv, Shutdown, session, calls, TypeOK
<1>1. TypeOK'
  <2>1. pc' \in [Caller -> {"idle", "wait", "queue", "in", "ok", "err"}]
    BY DEF AppType, RegType, StopType
  <2>2. app' \in AppType
    BY DEF AppType, RegType, StopType
  <2> QED
    BY <2>1, <2>2 DEF AppType, RegType, StopType
<1>2. StopInv'
  BY DEF StopInv
<1>3. CallInv'
  BY DEF CallInv
<1>4. OwnInv' /\ DialInv'
  BY DEF OwnInv, DialInv, Running
<1>5. StageInv'
  BY DEF StageInv, BpAlive
<1>6. FailInv'
  BY DEF FailInv, FailureIsReported, OnRecord
<1> QED
  BY <1>1, <1>2, <1>3, <1>4, <1>5, <1>6

(* A shutdown found no change of state in progress.                        *)
LEMMA WaitedStep ==
  ASSUME TeardownInv, NEW c \in Shut, Waited(c)
  PROVE  TeardownInv'
<1> USE DEF TeardownInv, Waited, session, calls, TypeOK
<1>1. TypeOK'
  BY DEF Caller, AppType, RegType, StopType
<1>2. StopInv'
  BY DEF StopInv
<1>3. CallInv'
  BY DistinctAssumption DEF CallInv
<1>4. OwnInv' /\ DialInv'
  BY DEF OwnInv, DialInv, Running
<1>5. StageInv'
  BY DEF StageInv, BpAlive
<1>6. FailInv'
  BY DEF FailInv, FailureIsReported, OnRecord
<1> QED
  BY <1>1, <1>2, <1>3, <1>4, <1>5, <1>6

(* A lock is admitted.                                                     *)
LEMMA LockNodeStep ==
  ASSUME TeardownInv, NEW c \in Lock, LockNode(c)
  PROVE  TeardownInv'
<1> USE DEF TeardownInv, LockNode, session, calls, TypeOK, Admitted
<1>1. TypeOK'
  <2>1. pc' \in [Caller -> {"idle", "wait", "queue", "in", "ok", "err"}]
    BY DEF AppType, RegType, StopType
  <2>2. app' \in AppType
    BY DEF AppType, RegType, StopType
  <2> QED
    BY <2>1, <2>2 DEF AppType, RegType, StopType
<1>2. StopInv'
  BY DEF StopInv
<1>3. CallInv'
  BY DistinctAssumption DEF CallInv
<1>4. OwnInv' /\ DialInv'
  BY DEF OwnInv, DialInv, Running
<1>5. StageInv'
  BY DEF StageInv
<1>6. FailInv'
  BY DEF FailInv, FailureIsReported, OnRecord
<1> QED
  BY <1>1, <1>2, <1>3, <1>4, <1>5, <1>6

(* A caller finds the outcome, or begins the stop.                         *)
LEMMA EnterStopStep ==
  ASSUME TeardownInv, NEW c \in Caller, EnterStop(c)
  PROVE  TeardownInv'
<1> USE DEF TeardownInv, EnterStop, session, calls, TypeOK, Recorded, Begin
<1>1. TypeOK'
  <2>1. CASE stop' = stop
    BY <2>1
  <2>2. CASE stop' = [by |-> c, at |-> "take", waits |-> {}, errs |-> FALSE, took |-> stop.took]
    <3>1. stop' \in StopType
      BY <2>2 DEF StopType, Stages
    <3> QED
      BY <3>1 DEF StopType
  <2> QED
    BY <2>2
<1>2. StopInv'
  BY DistinctAssumption DEF Caller, StopInv, CallInv
<1>3. CallInv'
  BY DEF Caller, CallInv
<1>4. OwnInv' /\ DialInv'
  BY DEF OwnInv, DialInv, Running
<1>5. StageInv'
  BY DEF StageInv, StopInv, BpAlive, Joined
<1>6. FailInv'
  BY DEF FailInv, FailureIsReported, OnRecord, CallInv, Joined
<1> QED
  BY <1>1, <1>2, <1>3, <1>4, <1>5, <1>6

(* The session is taken, and its workers may no longer spawn.              *)
LEMMA TakeSessionStep ==
  ASSUME TeardownInv, sess = "up", TakeSession
  PROVE  TeardownInv'
<1> USE DEF TeardownInv, TakeSession, session, calls, TypeOK, To
<1>0. /\ stop'.at = "cancel" /\ stop'.took = stop.by /\ stop'.by = stop.by /\ stop'.errs = stop.errs
      /\ stop' \in StopType /\ stop.by \in Caller
      /\ reg' \in RegType /\ reg'["tasks"].closed /\ reg'["completions"] = reg["completions"]
      /\ \A q \in {"tasks", "completions"} : reg'[q].handles = reg[q].handles /\ reg'[q].failed = reg[q].failed
      /\ sess' = "stopping"
  <2>1. stop.by \in Caller
    BY DEF StopInv
  <2>2. reg' = [reg EXCEPT !["tasks"].closed = TRUE]
    OBVIOUS
  <2>3. stop' = [stop EXCEPT !.at = "cancel", !.took = stop.by] /\ sess' = "stopping"
    OBVIOUS
  <2> HIDE DEF TakeSession
  <2>4. /\ stop'.at = "cancel" /\ stop'.took = stop.by /\ stop'.by = stop.by /\ stop'.errs = stop.errs
        /\ stop' \in StopType
    BY <2>1, <2>3 DEF StopType, Stages
  <2>5. reg'["tasks"].closed
    BY <2>2
  <2> QED
    BY <2>1, <2>2, <2>3, <2>4, RegistryFlagTyped
<1>1. TypeOK'
  BY <1>0 DEF AppType, RegType, StopType
<1>2. StopInv'
  BY <1>0 DEF StopInv, Teardown, Flushing
<1>3. CallInv'
  BY <1>0 DEF StopInv, CallInv
<1>4. OwnInv' /\ DialInv'
  BY <1>0 DEF OwnInv, DialInv, Running
<1>5. StageInv'
  BY <1>0 DEF StageInv, Joined, Flushing
<1>6. FailInv'
  BY <1>0 DEF FailInv, FailureIsReported, OnRecord, StopInv, Joined, Flushing
<1> QED
  BY <1>1, <1>2, <1>3, <1>4, <1>5, <1>6

(* Or there is none, and only the database is left.                        *)
LEMMA NoSessionToTakeStep ==
  ASSUME TeardownInv, sess # "up", TakeSession
  PROVE  TeardownInv'
<1> USE DEF TeardownInv, TakeSession, session, calls, TypeOK, To
<1>0. /\ stop'.at = "database" /\ stop'.took = stop.took /\ stop'.by = stop.by /\ stop'.errs = stop.errs
      /\ stop' \in StopType /\ sess = "none" /\ sess' = sess /\ reg' = reg
  BY DEF StopType, Stages, StopInv, Rollback, Teardown, Flushing
<1>1. TypeOK'
  BY DEF Stages
<1>2. StopInv'
  BY <1>0 DEF StopInv
<1>3. CallInv'
  BY DEF CallInv
<1>4. OwnInv' /\ DialInv'
  BY DEF OwnInv, DialInv, Running
<1>5. StageInv'
  BY <1>0 DEF StageInv, BpAlive, Joined
<1>6. FailInv'
  BY <1>0 DEF FailInv, FailureIsReported, StopInv, Joined
<1> QED
  BY <1>1, <1>2, <1>3, <1>4, <1>5, <1>6

(* The workers are told to end.                                            *)
LEMMA CancelWorkersStep ==
  ASSUME TeardownInv, CancelWorkers
  PROVE  TeardownInv'
<1> USE DEF TeardownInv, CancelWorkers, session, calls, TypeOK, To
<1>1. TypeOK'
  <2>1. stop' \in StopType
    BY DEF Stages, StopType
  <2>2. reg' \in RegType /\ \A p \in {"tasks", "completions"} : reg'[p].handles = reg[p].handles
    BY RegistryFlagTyped
  <2> QED
    BY <2>1, <2>2 DEF RegType, StopType
<1>2. StopInv'
  BY DEF StopInv, Rollback, Teardown, Flushing
<1>3. CallInv'
  BY DEF CallInv
<1>4. OwnInv' /\ DialInv'
  BY DEF OwnInv, DialInv, Running
<1>5. StageInv'
  BY DEF StageInv, StopInv, Rollback, Joined, Flushing
<1>6. FailInv'
  BY DEF FailInv, FailureIsReported, OnRecord, Joined, Flushing
<1> QED
  BY <1>1, <1>2, <1>3, <1>4, <1>5, <1>6

(* Everyone is disconnected.                                               *)
LEMMA DisconnectPeersStep ==
  ASSUME TeardownInv, DisconnectPeers
  PROVE  TeardownInv'
<1> USE DEF TeardownInv, DisconnectPeers, session, calls, TypeOK, To, DisconnectAll
<1>1. TypeOK'
  BY DEF Stages, AppType, RegType, StopType
<1>2. StopInv'
  BY DEF StopInv, Rollback, Teardown, Flushing
<1>3. CallInv'
  BY DEF CallInv
<1>4. OwnInv' /\ DialInv'
  BY DEF OwnInv, DialInv, Running
<1>5. StageInv'
  BY DEF StageInv, StopInv, Rollback, Joined, Flushing
<1>6. FailInv'
  BY DEF FailInv, FailureIsReported, OnRecord, Joined, Flushing
<1> QED
  BY <1>1, <1>2, <1>3, <1>4, <1>5, <1>6

(* The first join takes the handles of the workers.                        *)
LEMMA TakeWorkersStep ==
  ASSUME TeardownInv, JoinTakes("tasks", "drain", "await")
  PROVE  TeardownInv'
<1> USE DEF TeardownInv, JoinTakes, session, calls, TypeOK, Registry
<1>1. TypeOK'
  <2>1. stop' \in StopType
    BY DEF Stages, AppType, RegType, StopType
  <2>2. reg' \in RegType
    BY DEF AppType, RegType, StopType
  <2>3. reg'["tasks"].handles = {} /\ reg'["completions"] = reg["completions"]
    BY DEF AppType, RegType, StopType
  <2> QED
    BY <2>1, <2>2 DEF AppType, RegType, StopType
<1>2. StopInv'
  BY DEF StopInv, Rollback, Teardown, Flushing
<1>3. CallInv'
  BY DEF CallInv
<1>4. OwnInv' /\ DialInv'
  BY DEF OwnInv, DialInv, Running
<1>5. StageInv'
  BY DEF StageInv, BpAlive, Joined, Flushing
<1>6. FailInv'
  BY DEF FailInv, FailureIsReported, OnRecord, Flushing
<1> QED
  BY <1>1, <1>2, <1>3, <1>4, <1>5, <1>6

(* It awaits them: no worker is left.                                      *)
LEMMA AwaitWorkersStep ==
  ASSUME TeardownInv, JoinAwaits("await", "reap")
  PROVE  TeardownInv'
<1> USE DEF TeardownInv, JoinAwaits, session, calls, TypeOK
<1>0. /\ stop.waits \subseteq Worker /\ stop' \in StopType
      /\ stop'.at = "reap" /\ stop'.by = stop.by /\ stop'.took = stop.took /\ stop'.waits = {}
      /\ stop.errs \/ (\E t \in stop.waits : task[t] = "panic") => stop'.errs
      /\ task' \in [Task -> {"none", "run", "done", "panic"}]
      /\ \A t \in Worker : task'[t] = "none"
      /\ \A t \in Task : Running(t) => t \notin stop.waits
      /\ \A t \in Task : task'[t] = IF t \in stop.waits THEN "none" ELSE task[t]
      /\ Worker \cap Completion = {} /\ Task = Worker \cup Completion
      /\ reg["tasks"].handles = {}
  <2>1. stop.waits \subseteq Worker /\ reg["tasks"].handles = {}
    BY DEF OwnInv, StageInv
  <2>2. Worker \cap Completion = {} /\ Task = Worker \cup Completion
    BY DistinctAssumption DEF Task, Worker
  <2>3. \A t \in Task : task'[t] = IF t \in stop.waits THEN "none" ELSE task[t]
    OBVIOUS
  <2>4. \A t \in Worker : task'[t] = "none"
    BY <2>1, <2>2 DEF OwnInv
  <2>5. Panicked(stop.waits) \in BOOLEAN /\ (Panicked(stop.waits) <=> \E t \in stop.waits : task[t] = "panic")
    BY DEF Panicked
  <2>6. stop' \in StopType
    BY DEF StopType, Stages
  <2>7. \A t \in Task : Running(t) => t \notin stop.waits
    BY DEF Running, Over
  <2> QED
    BY <2>1, <2>2, <2>4, <2>5, <2>6, <2>7
<1>1. TypeOK'
  <2>1. \A q \in DOMAIN reg : \A t \in reg[q].handles : task'[t] # "none"
    BY <1>0 DEF OwnInv
  <2>2. UNCHANGED <<app, sess, reg, link, dial, bp, stopped, adapter, fence, hurt, pc>>
    OBVIOUS
  <2> HIDE DEF JoinAwaits
  <2> QED
    BY <1>0, <2>1, <2>2 DEF StopType
<1>2. StopInv'
  BY DEF StopInv, Rollback, Teardown, Flushing
<1>3. CallInv'
  BY DEF CallInv
<1>4. OwnInv' /\ DialInv'
  <2>1. \A t \in Task : Running(t) => Running(t)'
    BY <1>0 DEF Running
  <2>2. Conn \subseteq Task /\ Dialer \subseteq Task /\ \A k \in Conn : k # None
    BY DistinctAssumption DEF Task
  <2>3. OwnInv'
    BY <1>0, <2>1, <2>2 DEF OwnInv
  <2>4. \A t \in Task : task[t] = "none" => task'[t] = "none"
    OBVIOUS
  <2>5. \A d \in Dialer : dial[d].conn # None => dial[d].conn \in Conn
    OBVIOUS
  <2>6. \A d \in Dialer : task'[d] # "panic"
    BY <2>2 DEF DialInv
  <2>7. DialInv'
    BY <2>1, <2>2 DEF DialInv
  <2> QED
    BY <2>3, <2>7
<1>5. StageInv'
  BY <1>0 DEF StageInv, BpAlive, Flushing
<1>6. FailInv'
  <2>1. sess # "none" /\ stop.at \notin {"rest", "take"}
    BY DEF StopInv
  <2>2. CASE \E t \in Task : task[t] = "panic"
    <3>1. PICK t \in Task : task[t] = "panic"
      BY <2>2
    <3>2. stop'.errs \/ task'[t] = "panic"
      BY <1>0, <3>1
    <3> QED
      BY <1>0, <3>1 DEF FailInv, FailureIsReported, OnRecord
  <2>3. CASE ~\E t \in Task : task[t] = "panic"
    BY <1>0 DEF FailInv, FailureIsReported, OnRecord, Flushing
  <2> QED
    BY <2>2, <2>3
<1> QED
  BY <1>1, <1>2, <1>3, <1>4, <1>5, <1>6

(* It takes what they reported meanwhile.                                  *)
LEMMA ReapWorkersStep ==
  ASSUME TeardownInv, NEW to \in {"stores", "exit"},
         to = (IF RollingBack THEN "stores" ELSE "exit"), JoinReaps("tasks", "reap", to)
  PROVE  TeardownInv'
<1> USE DEF TeardownInv, JoinReaps, session, calls, TypeOK, After, RollingBack
<1>1. TypeOK'
  <2>1. stop' \in StopType /\ reg["tasks"].failed \in BOOLEAN
    BY DEF Stages, StopType
  <2>2. reg' \in RegType /\ \A p \in {"tasks", "completions"} : reg'[p].handles = reg[p].handles
    BY FailedFlagTyped DEF RegType
  <2> QED
    BY <2>1, <2>2 DEF RegType, StopType
<1>2. StopInv'
  BY DEF StopInv, Rollback, Teardown, Flushing
<1>3. CallInv'
  BY DEF CallInv
<1>4. OwnInv' /\ DialInv'
  BY DEF OwnInv, DialInv, Running
<1>5. StageInv'
  BY DEF StageInv, StopInv, BpAlive, Joined, Flushing
<1>6. FailInv'
  BY DEF FailInv, FailureIsReported, OnRecord, StopInv, StageInv, Flushing
<1> QED
  BY <1>1, <1>2, <1>3, <1>4, <1>5, <1>6

(* The background processor is told to flush.                              *)
LEMMA SendBpExitStep ==
  ASSUME TeardownInv, SendBpExit
  PROVE  TeardownInv'
<1> USE DEF TeardownInv, SendBpExit, session, calls, TypeOK, To, DisconnectAll
<1>1. TypeOK'
  BY DEF Stages, AppType, RegType, StopType
<1>2. StopInv'
  BY DEF StopInv, Rollback, Teardown, Flushing
<1>3. CallInv'
  BY DEF CallInv
<1>4. OwnInv' /\ DialInv'
  BY DEF OwnInv, DialInv, Running
<1>5. StageInv'
  BY DEF StageInv, StopInv, Rollback, Joined, Flushing
<1>6. FailInv'
  BY DEF FailInv, FailureIsReported, OnRecord, Joined, Flushing
<1> QED
  BY <1>1, <1>2, <1>3, <1>4, <1>5, <1>6

(* Its flush takes too long, and the stores are cut off.                   *)
LEMMA FlushTimesOutStep ==
  ASSUME TeardownInv, FlushTimesOut
  PROVE  TeardownInv'
<1> USE DEF TeardownInv, FlushTimesOut, session, calls, TypeOK
<1>1. TypeOK'
  BY DEF AppType, RegType, StopType
<1>2. StopInv'
  BY DEF StopInv
<1>3. CallInv'
  BY DEF CallInv
<1>4. OwnInv' /\ DialInv'
  BY DEF OwnInv, DialInv, Running
<1>5. StageInv'
  BY DEF StageInv, StopInv, Teardown
<1>6. FailInv'
  BY DEF FailInv, FailureIsReported, OnRecord
<1> QED
  BY <1>2, <1>3, <1>4, <1>5, <1>6

(* It ended.                                                               *)
LEMMA JoinBpStep ==
  ASSUME TeardownInv, JoinBp
  PROVE  TeardownInv'
<1> USE DEF TeardownInv, JoinBp, session, calls, TypeOK, After
<1>1. TypeOK'
  <2>1. stop' \in StopType
    BY DEF Stages, AppType, RegType, StopType
  <2> QED
    BY <2>1 DEF AppType, RegType, StopType
<1>2. StopInv'
  BY DEF StopInv, Rollback, Teardown
<1>3. CallInv'
  BY DEF CallInv
<1>4. OwnInv' /\ DialInv'
  BY DEF OwnInv, DialInv, Running
<1>5. StageInv'
  BY DEF StageInv, BpAlive, Joined
<1>6. FailInv'
  BY DEF FailInv, FailureIsReported, OnRecord, Joined
<1> QED
  BY <1>1, <1>2, <1>3, <1>4, <1>5, <1>6

(* The stores are cut off.                                                 *)
LEMMA StopStoresStep ==
  ASSUME TeardownInv, StopStores
  PROVE  TeardownInv'
<1> USE DEF TeardownInv, StopStores, session, calls, TypeOK, To
<1>1. TypeOK'
  BY DEF Stages, AppType, RegType, StopType
<1>2. StopInv'
  BY DEF StopInv, Rollback, Teardown
<1>3. CallInv'
  BY DEF CallInv
<1>4. OwnInv' /\ DialInv'
  BY DEF OwnInv, DialInv, Running
<1>5. StageInv'
  BY DEF StageInv, BpAlive, Joined, Flushing
<1>6. FailInv'
  BY DEF FailInv, FailureIsReported, OnRecord, Joined, Flushing
<1> QED
  BY <1>1, <1>2, <1>3, <1>4, <1>5, <1>6

(* The second join takes the handles of the completions.                   *)
LEMMA TakeCompletionsStep ==
  ASSUME TeardownInv, JoinTakes("completions", "seal", "settle")
  PROVE  TeardownInv'
<1> USE DEF TeardownInv, JoinTakes, session, calls, TypeOK, Registry
<1>1. TypeOK'
  <2>1. stop' \in StopType
    BY DEF Stages, AppType, RegType, StopType
  <2>2. reg' \in RegType
    BY DEF AppType, RegType, StopType
  <2>3. reg'["completions"].handles = {} /\ reg'["tasks"] = reg["tasks"]
    BY DEF AppType, RegType, StopType
  <2> QED
    BY <2>1, <2>2 DEF AppType, RegType, StopType
<1>2. StopInv'
  BY DEF StopInv, Rollback, Teardown
<1>3. CallInv'
  BY DEF CallInv
<1>4. OwnInv' /\ DialInv'
  BY DEF OwnInv, DialInv, Running
<1>5. StageInv'
  BY DEF StageInv, BpAlive, Joined, Flushing
<1>6. FailInv'
  BY DEF FailInv, FailureIsReported, OnRecord, Joined, Flushing
<1> QED
  BY <1>1, <1>2, <1>3, <1>4, <1>5, <1>6

(* It awaits them: nothing is left.                                        *)
LEMMA AwaitCompletionsStep ==
  ASSUME TeardownInv, JoinAwaits("settle", "collect")
  PROVE  TeardownInv'
<1> USE DEF TeardownInv, JoinAwaits, session, calls, TypeOK
<1>0. /\ stop.waits \subseteq Completion /\ stop' \in StopType
      /\ stop'.at = "collect" /\ stop'.by = stop.by /\ stop'.took = stop.took /\ stop'.waits = {}
      /\ stop.errs \/ (\E t \in stop.waits : task[t] = "panic") => stop'.errs
      /\ task' \in [Task -> {"none", "run", "done", "panic"}]
      /\ \A t \in Completion : task'[t] = "none"
      /\ \A t \in Task : Running(t) => t \notin stop.waits
      /\ \A t \in Task : task'[t] = IF t \in stop.waits THEN "none" ELSE task[t]
      /\ Completion \cap Worker = {} /\ Task = Worker \cup Completion
      /\ reg["completions"].handles = {}
  <2>1. stop.waits \subseteq Completion /\ reg["completions"].handles = {}
    BY DEF OwnInv, StageInv
  <2>2. Completion \cap Worker = {} /\ Task = Worker \cup Completion
    BY DistinctAssumption DEF Task, Worker
  <2>3. \A t \in Task : task'[t] = IF t \in stop.waits THEN "none" ELSE task[t]
    OBVIOUS
  <2>4. \A t \in Completion : task'[t] = "none"
    BY <2>1, <2>2 DEF OwnInv
  <2>5. Panicked(stop.waits) \in BOOLEAN /\ (Panicked(stop.waits) <=> \E t \in stop.waits : task[t] = "panic")
    BY DEF Panicked
  <2>6. stop' \in StopType
    BY DEF StopType, Stages
  <2>7. \A t \in Task : Running(t) => t \notin stop.waits
    BY DEF Running, Over
  <2> QED
    BY <2>1, <2>2, <2>4, <2>5, <2>6, <2>7
<1>1. TypeOK'
  <2>1. \A q \in DOMAIN reg : \A t \in reg[q].handles : task'[t] # "none"
    BY <1>0 DEF OwnInv
  <2>2. UNCHANGED <<app, sess, reg, link, dial, bp, stopped, adapter, fence, hurt, pc>>
    OBVIOUS
  <2> HIDE DEF JoinAwaits
  <2> QED
    BY <1>0, <2>1, <2>2 DEF StopType
<1>2. StopInv'
  BY DEF StopInv, Rollback, Teardown
<1>3. CallInv'
  BY DEF CallInv
<1>4. OwnInv' /\ DialInv'
  <2>1. \A t \in Task : Running(t) => Running(t)'
    BY <1>0 DEF Running
  <2>2. Conn \subseteq Task /\ Dialer \subseteq Task /\ \A k \in Conn : k # None
    BY DistinctAssumption DEF Task
  <2>3. OwnInv'
    BY <1>0, <2>1, <2>2 DEF OwnInv
  <2>4. \A t \in Task : task[t] = "none" => task'[t] = "none"
    OBVIOUS
  <2>5. \A d \in Dialer : dial[d].conn # None => dial[d].conn \in Conn
    OBVIOUS
  <2>6. \A d \in Dialer : task'[d] # "panic"
    BY <2>2 DEF DialInv
  <2>7. DialInv'
    BY <2>1, <2>2 DEF DialInv
  <2> QED
    BY <2>3, <2>7
<1>5. StageInv'
  BY <1>0 DEF StageInv, BpAlive, Joined, Flushing
<1>6. FailInv'
  <2>1. sess # "none" /\ stop.at \notin {"rest", "take"}
    BY DEF StopInv
  <2>2. CASE \E t \in Task : task[t] = "panic"
    <3>1. PICK t \in Task : task[t] = "panic"
      BY <2>2
    <3>2. stop'.errs \/ task'[t] = "panic"
      BY <1>0, <3>1
    <3> QED
      BY <1>0, <3>1 DEF FailInv, FailureIsReported, OnRecord, Joined
  <2>3. CASE ~\E t \in Task : task[t] = "panic"
    BY <1>0 DEF FailInv, FailureIsReported, OnRecord, Joined, Flushing
  <2> QED
    BY <2>2, <2>3
<1> QED
  BY <1>1, <1>2, <1>3, <1>4, <1>5, <1>6

(* It takes what they reported meanwhile.                                  *)
LEMMA ReapCompletionsStep ==
  ASSUME TeardownInv, NEW to \in {"fence", "drop"},
         to = (IF RollingBack THEN "fence" ELSE "drop"), JoinReaps("completions", "collect", to)
  PROVE  TeardownInv'
<1> USE DEF TeardownInv, JoinReaps, session, calls, TypeOK, After, RollingBack
<1>1. TypeOK'
  <2>1. stop' \in StopType /\ reg["completions"].failed \in BOOLEAN
    BY DEF Stages, StopType
  <2>2. reg' \in RegType /\ \A p \in {"tasks", "completions"} : reg'[p].handles = reg[p].handles
    BY FailedFlagTyped DEF RegType
  <2> QED
    BY <2>1, <2>2 DEF RegType, StopType
<1>2. StopInv'
  BY DEF StopInv, Rollback, Teardown
<1>3. CallInv'
  BY DEF CallInv
<1>4. OwnInv' /\ DialInv'
  BY DEF OwnInv, DialInv, Running
<1>5. StageInv'
  BY DEF StageInv, BpAlive, Joined, Flushing
<1>6. FailInv'
  BY DEF FailInv, FailureIsReported, OnRecord, Joined, Flushing
<1> QED
  BY <1>1, <1>2, <1>3, <1>4, <1>5, <1>6

(* The managers are gone, or the stop failed.                              *)
LEMMA DropManagersStep ==
  ASSUME TeardownInv, DropManagers
  PROVE  TeardownInv'
<1> USE DEF TeardownInv, DropManagers, session, calls, TypeOK, After
<1>1. TypeOK'
  <2>1. stop' \in StopType
    BY DEF Stages, AppType, RegType, StopType
  <2> QED
    BY <2>1 DEF AppType, RegType, StopType
<1>2. StopInv'
  BY DEF StopInv, Rollback, Teardown
<1>3. CallInv'
  BY DEF CallInv
<1>4. OwnInv' /\ DialInv'
  BY DEF OwnInv, DialInv, Running
<1>5. StageInv'
  BY DEF StageInv, BpAlive, Joined, Flushing
<1>6. FailInv'
  BY DEF FailInv, FailureIsReported, OnRecord, Joined, Flushing
<1> QED
  BY <1>1, <1>2, <1>3, <1>4, <1>5, <1>6

(* The fence is released only by a stop without failure.                   *)
LEMMA SettleFenceStep ==
  ASSUME TeardownInv, SettleFence
  PROVE  TeardownInv'
<1> USE DEF TeardownInv, SettleFence, session, calls, TypeOK, To, RollingBack
<1>0. /\ stop'.at = (IF RollingBack THEN "rest" ELSE "database") /\ stop'.by = stop.by
      /\ stop'.took = stop.took /\ stop'.errs = stop.errs /\ stop' \in StopType
      /\ app' \in AppType /\ app'.cancelled = app.cancelled /\ app'.outcome = app.outcome
      /\ app'.db = app.db /\ app'.changing = (app.changing /\ ~RollingBack)
      /\ \A t \in Task : task[t] = "none"
      /\ ~BpAlive /\ sess # "none"
  <2>1. stop' \in StopType /\ app' \in AppType
    BY DEF StopType, AppType, Stages
  <2>2. (\A t \in Task : task[t] = "none") /\ ~BpAlive /\ sess # "none"
    BY DEF StageInv, StopInv, Joined, Flushing, Task, Worker
  <2> QED
    BY <2>1, <2>2
<1>1. TypeOK'
  BY <1>0 DEF AppType, RegType, StopType
<1>2. StopInv'
  BY DistinctAssumption DEF StopInv
<1>3. CallInv'
  BY DEF StopInv, CallInv
<1>4. OwnInv' /\ DialInv'
  BY DEF OwnInv, DialInv, Running
<1>5. StageInv'
  BY <1>0 DEF StageInv, BpAlive, Joined
<1>6. FailInv'
  <2>1. ~stop.errs => ~hurt
    BY <1>0 DEF FailInv, OnRecord, Joined, Flushing
  <2> QED
    BY <2>1 DEF FailInv, FailureIsReported, Joined
<1> QED
  BY <1>1, <1>2, <1>3, <1>4, <1>5, <1>6

(* The database is closed by a terminal stop.                              *)
LEMMA CloseDatabaseStep ==
  ASSUME TeardownInv, CloseDatabase
  PROVE  TeardownInv'
<1> USE DEF TeardownInv, CloseDatabase, session, calls, TypeOK, To, After
<1>0. /\ stop'.at = "record" /\ stop'.by = stop.by /\ stop'.took = stop.took
      /\ (stop.errs => stop'.errs) /\ stop' \in StopType
      /\ app' \in AppType /\ app'.cancelled = app.cancelled /\ app'.outcome = app.outcome
      /\ app'.changing = app.changing /\ (app'.db = "closed" => app.db = "closed" \/ app.cancelled)
      /\ sess = "none" /\ UNCHANGED <<sess, reg, task, link, dial, bp, fence, hurt, pc>>
  <2>1. sess = "none"
    BY DEF StopInv, Rollback, Teardown, Flushing
  <2>2. /\ stop'.at = "record" /\ stop'.by = stop.by /\ stop'.took = stop.took
        /\ (stop.errs => stop'.errs) /\ stop' \in StopType
    <3>1. CASE stop' = [stop EXCEPT !.at = "record"]
      BY <3>1 DEF StopType, Stages
    <3>2. CASE stop' = [stop EXCEPT !.at = "record", !.errs = @ \/ TRUE]
      BY <3>2 DEF StopType, Stages
    <3> QED
      BY <3>1, <3>2
  <2>3. app' = app \/ (app.cancelled /\ app' = [app EXCEPT !.db = "closed"])
    OBVIOUS
  <2>4. /\ app' \in AppType /\ app'.cancelled = app.cancelled /\ app'.outcome = app.outcome
        /\ app'.changing = app.changing /\ (app'.db = "closed" => app.db = "closed" \/ app.cancelled)
    BY <2>3 DEF AppType
  <2> QED
    BY <2>1, <2>2, <2>4
<1>1. TypeOK'
  BY <1>0 DEF RegType, StopType
<1>2. StopInv'
  BY <1>0 DEF StopInv
<1>3. CallInv'
  BY <1>0 DEF CallInv
<1>4. OwnInv' /\ DialInv'
  BY <1>0 DEF OwnInv, DialInv, Running
<1>5. StageInv'
  BY <1>0 DEF StageInv, BpAlive, Joined
<1>6. FailInv'
  BY <1>0 DEF FailInv, FailureIsReported, Joined
<1> QED
  BY <1>1, <1>2, <1>3, <1>4, <1>5, <1>6

(* The stop records its outcome and returns.                               *)
LEMMA ReturnFromStopStep ==
  ASSUME TeardownInv, ReturnFromStop
  PROVE  TeardownInv'
<1> USE DEF TeardownInv, ReturnFromStop, session, calls, TypeOK, To, Result
<1>1. TypeOK'
  <2>1. stop' \in StopType
    BY DEF Stages, AppType, RegType, StopType
  <2>2. app' \in AppType
    BY DEF AppType, RegType, StopType
  <2>3. pc' \in [Caller -> {"idle", "wait", "queue", "in", "ok", "err"}]
    BY DEF AppType, RegType, StopType
  <2> QED
    BY <2>1, <2>2, <2>3 DEF AppType, RegType, StopType
<1>2. StopInv'
  BY DEF StopInv, Teardown, Flushing
<1>3. CallInv'
  <2>1. /\ stop'.at = "rest" /\ stop'.took = stop.took /\ sess = "none" /\ sess' = sess
        /\ stop.by \in Caller /\ pc[stop.by] = "in" /\ Result \in {"ok", "err"}
        /\ app'.cancelled = app.cancelled /\ app'.db = app.db
        /\ app'.changing = (app.changing /\ stop.by \notin Lock)
        /\ app'.outcome = (IF app.cancelled THEN Result ELSE app.outcome)
        /\ pc'[stop.by] = Result /\ \A c \in Caller : c # stop.by => pc'[c] = pc[c]
    BY DEF StopInv, Rollback, Teardown, Flushing, Caller
  <2>2. \A c \in Shut : pc[c] \notin {"ok", "err"}
    BY DEF CallInv
  <2>3. \A c \in Shut : stop.by = c => app.cancelled
    BY <2>1 DEF CallInv
  <2> HIDE DEF ReturnFromStop
  <2> QED
    BY <2>1, <2>2, DistinctAssumption DEF CallInv, Caller
<1>4. OwnInv' /\ DialInv'
  BY DEF OwnInv, DialInv, Running
<1>5. StageInv'
  BY DEF StageInv, BpAlive, Joined, Flushing
<1>6. FailInv'
  BY DEF FailInv, FailureIsReported, StopInv, Rollback, Teardown, Joined, Flushing
<1> QED
  BY <1>1, <1>2, <1>3, <1>4, <1>5, <1>6

(* Every step of the specification keeps the invariant.                    *)
LEMMA TeardownStep ==
  ASSUME TeardownInv, [Next]_vars
  PROVE  TeardownInv'
<1>1. CASE UNCHANGED vars
  <2>1. TypeOK' /\ StopInv' /\ CallInv'
    BY <1>1 DEF vars, TeardownInv, TypeOK, StopInv, CallInv
  <2>2. OwnInv' /\ DialInv' /\ StageInv' /\ FailInv'
    BY <1>1
       DEF vars, TeardownInv, OwnInv, DialInv, StageInv, FailInv, Running, BpAlive,
           OnRecord, FailureIsReported
  <2> QED
    BY <2>1, <2>2 DEF TeardownInv
<1>2. CASE Unlock \/ Publish \/ StartFails
  BY <1>2, UnlockStep, PublishStep, StartFailsStep
<1>3. CASE \/ \E c \in Shut : Shutdown(c) \/ Waited(c)
           \/ \E c \in Lock : LockNode(c)
           \/ \E c \in Caller : EnterStop(c)
  BY <1>3, ShutdownStep, WaitedStep, LockNodeStep, EnterStopStep
<1>4. CASE StopNode
  <2>1. ASSUME JoinWorkers PROVE TeardownInv'
    BY <2>1, TakeWorkersStep, AwaitWorkersStep, ReapWorkersStep DEF JoinWorkers
  <2>2. ASSUME JoinCompletions PROVE TeardownInv'
    BY <2>2, TakeCompletionsStep, AwaitCompletionsStep, ReapCompletionsStep DEF JoinCompletions
  <2>3. ASSUME TakeSession PROVE TeardownInv'
    BY <2>3, TakeSessionStep, NoSessionToTakeStep
  <2> QED
    BY <1>4, <2>1, <2>2, <2>3, CancelWorkersStep, DisconnectPeersStep, SendBpExitStep,
       FlushTimesOutStep, JoinBpStep, StopStoresStep, DropManagersStep, SettleFenceStep,
       CloseDatabaseStep, ReturnFromStopStep
       DEF StopNode
<1>5. CASE \/ \E w \in Loop : SpawnWorker(w)
           \/ \E m \in Completion : SpawnCompletion(m)
           \/ \E t \in Task : Return(t) \/ Panic(t)
           \/ \E k \in Conn : PeerLeaves(k) \/ ConnEnds(k)
           \/ AdapterLetsGo \/ BpFails \/ BpFlushed
  BY <1>5, SpawnWorkerStep, SpawnCompletionStep, ReturnStep, PanicStep, PeerLeavesStep,
     ConnEndsStep, AdapterLetsGoStep, BpFailsStep, BpFlushedStep
<1>6. CASE \/ \E d \in Dialer : Dial(d)
           \/ AcceptFails \/ RecordFailure \/ LastDisconnect
  <2>1. ASSUME NEW d \in Dialer, Dial(d) PROVE TeardownInv'
    BY <2>1, LookStep, NoPeerStep, ConnectStep, HandOverStep, KeepInlineStep,
       InlineEndsStep, SeeCancelledStep
       DEF Dial
  <2> QED
    BY <1>6, <2>1, AcceptFailsStep, RecordFailureStep, LastDisconnectStep
<1> QED
  BY <1>1, <1>2, <1>3, <1>4, <1>5, <1>6 DEF Next

(* The inductive invariant of start_lightning and stop_node.               *)
THEOREM TeardownInvariant == Spec => []TeardownInv
  BY TeardownInit, TeardownStep, PTL DEF Spec

(* Nothing runs and no peer is linked once there is no session.            *)
LEMMA NoSessionIsQuiet ==
  ASSUME TeardownInv, sess = "none"
  PROVE  Quiet
<1>1. \A t \in Task : task[t] = "none"
  BY DEF TeardownInv, StageInv
<1>2. \A k \in Conn : link[k] = "none"
  BY <1>1, DistinctAssumption DEF TeardownInv, OwnInv, DialInv, Running, Task
<1> QED
  BY <1>2 DEF Quiet, Running, TeardownInv, StageInv

(* stop_node and the startup rollback leave no worker, connection,         *)
(* completion or background processor of a session behind.                 *)
THEOREM NothingIsLeftBehind == Spec => []NothingOutlivesTheSession
<1>1. TeardownInv => NothingOutlivesTheSession
  BY NoSessionIsQuiet DEF NothingOutlivesTheSession
<1> QED
  BY <1>1, TeardownInvariant, PTL

(* The registry of completions is closed only after everything that        *)
(* produces them is gone.                                                  *)
THEOREM CompletionsAreNeverRefused == Spec => []CompletionsStayAdmitted
<1>1. TeardownInv => CompletionsStayAdmitted
  <2> SUFFICES ASSUME TeardownInv, reg["completions"].closed PROVE ~Producing
    BY DEF CompletionsStayAdmitted
  <2>1. CASE sess = "none"
    BY <2>1, WorkNeedsSession
  <2>2. CASE stop.at \in {"settle", "collect", "drop", "fence"}
    BY <2>2
       DEF TeardownInv, StageInv, Producing, Starting, Running, Joined, Flushing, Worker,
           StopInv
  <2> QED
    BY <2>1, <2>2 DEF TeardownInv, StageInv
<1> QED
  BY <1>1, TeardownInvariant, PTL

(* The caller that tore a session down is told of whatever failed in it.   *)
THEOREM FailuresAreReported == Spec => []FailureIsReported
<1>1. TeardownInv => FailureIsReported
  BY DEF TeardownInv, FailInv
<1> QED
  BY <1>1, TeardownInvariant, PTL

(* A shutdown returns only after the terminal teardown.                    *)
THEOREM ShutdownsWait == Spec => []ShutdownWaits
<1>1. TeardownInv => ShutdownWaits
  <2> SUFFICES ASSUME TeardownInv, NEW c \in Shut, pc[c] \in {"ok", "err"}
               PROVE  app.cancelled /\ sess = "none" /\ Quiet
    BY DEF ShutdownWaits
  <2>1. app.cancelled /\ sess = "none"
    BY DEF TeardownInv, CallInv
  <2> QED
    BY <2>1, NoSessionIsQuiet
<1> QED
  BY <1>1, TeardownInvariant, PTL

-----------------------------------------------------------------------------
(* What a stop waits for.                                                   *)

(* Whoever raised changing_state is there to lower it: an unlock, or a lock *)
(* ahead of every shutdown.                                                 *)
ChangeInv ==
  /\ app.changing => sess = "starting" \/ \E c \in Lock : pc[c] \in {"queue", "in"}
  /\ \A c \in Lock : pc[c] \in {"queue", "in"} =>
       app.outcome = "none" /\ \A d \in Shut : pc[d] \in {"idle", "wait"}

(* A peer is disconnected before it is waited for: the dialers are workers  *)
(* of a session that started, nobody is admitted once the stop has begun,   *)
(* and a peer has a link until its future ends.                             *)
PeerInv ==
  /\ sess = "starting" => \A t \in Dialer \cup Conn : task[t] = "none"
  /\ sess = "stopping" => reg["tasks"].closed
  /\ \A k \in Conn : Running(k) => link[k] # "none"
  /\ \A k \in Conn : stop.at \in {"drain", "await"} /\ Running(k) => link[k] = "down"
  /\ \A d \in Dialer : dial[d].at = "inline" => link[dial[d].conn] = "down"
  /\ stop.at = "await" => reg["tasks"].cancelled

(* The processor of a session has been told to exit before it is awaited,   *)
(* and the stores to stop before the completions are.                       *)
FlushInv ==
  /\ sess \in {"up", "stopping"} => bp # "none"
  /\ stop.at = "flush" => bp \in {"exiting", "done", "failed"}
  /\ stop.at \in {"seal", "settle"} => stopped

(* The database after the terminal stop.                                    *)
DatabaseInv ==
  /\ stop.at = "record" /\ stop.by \in Shut => app.db = "closed" \/ stop.errs
  /\ app.outcome = "ok" => app.db = "closed" \/ stop.by \in Lock

WaitInv == ChangeInv /\ PeerInv /\ FlushInv /\ DatabaseInv

LEMMA WaitInit == Init => WaitInv
<1> SUFFICES ASSUME Init PROVE WaitInv
  OBVIOUS
<1>1. ChangeInv /\ FlushInv /\ DatabaseInv
  BY DEF Init, ChangeInv, FlushInv, DatabaseInv, Caller
<1>2. PeerInv
  BY DEF Init, PeerInv, Running, Task, Watching
<1> QED
  BY <1>1, <1>2 DEF WaitInv

(* Steps that leave the callers, changing_state and the outcome alone.      *)
LEMMA ChangeStep ==
  ASSUME TeardownInv, ChangeInv, [Next]_vars
  PROVE  ChangeInv'
<1> USE DEF session, calls
<1>0. app \in AppType /\ pc \in [Caller -> {"idle", "wait", "queue", "in", "ok", "err"}]
  BY DEF TeardownInv, TypeOK, AppType
<1>s. Shut \cap Lock = {} /\ Shut \subseteq Caller /\ Lock \subseteq Caller
  BY DistinctAssumption DEF Caller
<1>u. ASSUME app'.changing = app.changing, app'.outcome = app.outcome, UNCHANGED <<sess, pc>>
      PROVE  ChangeInv'
  BY <1>u DEF ChangeInv
<1>1. CASE Unlock
  <2>1. app'.changing /\ app'.outcome = app.outcome /\ sess' = "starting" /\ pc' = pc
    BY <1>0, <1>1 DEF Unlock, AppType
  <2> QED
    BY <2>1 DEF ChangeInv
<1>2. CASE Publish
  <2>1. ~app'.changing /\ app'.outcome = app.outcome /\ pc' = pc
    BY <1>0, <1>2 DEF Publish, AppType
  <2> QED
    BY <2>1 DEF ChangeInv
<1>3. ASSUME NEW c \in Shut, Shutdown(c) PROVE ChangeInv'
  <2>1. /\ app'.changing = app.changing /\ app'.outcome = app.outcome /\ sess' = sess
        /\ pc' = [pc EXCEPT ![c] = "wait"]
    BY <1>0, <1>3 DEF Shutdown, AppType
  <2> QED
    BY <1>0, <1>s, <2>1 DEF ChangeInv
<1>4. ASSUME NEW c \in Shut, Waited(c) PROVE ChangeInv'
  <2>1. ~app.changing /\ app' = app /\ sess' = sess /\ pc' = [pc EXCEPT ![c] = "queue"]
    BY <1>4 DEF Waited
  <2>2. \A d \in Lock : pc[d] \notin {"queue", "in"}
    BY <2>1 DEF TeardownInv, CallInv
  <2> QED
    BY <1>0, <1>s, <2>1, <2>2 DEF ChangeInv
<1>5. ASSUME NEW c \in Lock, LockNode(c) PROVE ChangeInv'
  <2>1. /\ app'.outcome = app.outcome /\ sess' = sess
        /\ pc' = [pc EXCEPT ![c] = "queue"] /\ ~app.cancelled /\ ~app.changing
    BY <1>0, <1>5 DEF LockNode, AppType, Admitted
  <2>2. app.outcome = "none" /\ \A d \in Shut : pc[d] = "idle"
    BY <2>1 DEF TeardownInv, CallInv
  <2> QED
    BY <1>0, <1>s, <2>1, <2>2 DEF ChangeInv
<1>6. ASSUME NEW c \in Caller, EnterStop(c) PROVE ChangeInv'
  <2>1. pc[c] = "queue" /\ stop.at = "rest" /\ app' = app /\ sess' = sess
    BY <1>6 DEF EnterStop
  <2>2. CASE Recorded
    <3>1. c \notin Lock
      BY <2>1, <2>2 DEF ChangeInv, Recorded
    <3>2. pc' = [pc EXCEPT ![c] = app.outcome] /\ app.outcome \in {"ok", "err"}
      BY <1>0, <1>6, <2>2 DEF EnterStop, Recorded, AppType
    <3>3. \A d \in Lock : pc[d] \notin {"queue", "in"}
      BY <2>2 DEF ChangeInv, Recorded
    <3> QED
      BY <1>0, <1>s, <2>1, <3>1, <3>2, <3>3 DEF ChangeInv
  <2>3. CASE ~Recorded
    <3>1. pc' = [pc EXCEPT ![c] = "in"]
      BY <1>6, <2>3 DEF EnterStop
    <3>2. c \in Shut => \A d \in Lock : pc[d] \notin {"queue", "in"}
      BY <2>1 DEF ChangeInv
    <3>3. c \in Shut \/ c \in Lock
      BY DEF Caller
    <3> QED
      BY <1>0, <1>s, <2>1, <3>1, <3>2, <3>3 DEF ChangeInv
  <2> QED
    BY <2>2, <2>3
<1>7. CASE SettleFence
  <2>1. pc' = pc /\ app'.outcome = app.outcome
        /\ app'.changing = (app.changing /\ ~RollingBack) /\ stop.at = "fence"
    BY <1>0, <1>7 DEF SettleFence, AppType
  <2>2. ~RollingBack => sess = "stopping"
    BY <2>1 DEF RollingBack, TeardownInv, StopInv
  <2> QED
    BY <2>1, <2>2 DEF ChangeInv
<1>8. CASE TakeSession
  BY <1>8 DEF TakeSession, ChangeInv
<1>9. CASE CloseDatabase
  BY <1>0, <1>9 DEF CloseDatabase, ChangeInv, AppType
<1>10. CASE ReturnFromStop
  <2>1. /\ stop.by \in Caller /\ pc[stop.by] = "in" /\ sess = "none" /\ sess' = sess
    BY <1>10 DEF ReturnFromStop, TeardownInv, StopInv, Rollback, Teardown, Flushing
  <2>2. /\ pc' = [pc EXCEPT ![stop.by] = Result] /\ Result \in {"ok", "err"}
        /\ app'.changing = (app.changing /\ stop.by \notin Lock)
        /\ (stop.by \in Shut \/ stop.by \in Lock)
    BY <1>0, <1>10, <2>1 DEF ReturnFromStop, AppType, Result, Caller
  <2>3. CASE stop.by \in Lock
    <3>1. \A c \in Lock : c # stop.by => pc[c] \notin {"queue", "in"}
      BY <2>1, <2>3 DEF TeardownInv, CallInv
    <3> QED
      BY <1>0, <1>s, <2>1, <2>2, <2>3, <3>1 DEF ChangeInv
  <2>4. CASE stop.by \in Shut
    <3>1. \A c \in Lock : pc[c] \notin {"queue", "in"}
      BY <2>1, <2>4 DEF ChangeInv
    <3> QED
      BY <1>0, <1>s, <2>1, <2>2, <2>4, <3>1 DEF ChangeInv
  <2> QED
    BY <2>2, <2>3, <2>4
<1>11. CASE RecordFailure
  BY <1>0, <1>11 DEF RecordFailure, ChangeInv, AppType
<1>12. CASE StopNode
  <2>1. ASSUME JoinWorkers \/ JoinCompletions PROVE ChangeInv'
    BY <2>1 DEF JoinWorkers, JoinCompletions, JoinTakes, JoinAwaits, JoinReaps, ChangeInv
  <2>2. ASSUME CancelWorkers \/ DisconnectPeers \/ SendBpExit \/ FlushTimesOut \/ JoinBp
               \/ StopStores \/ DropManagers
        PROVE ChangeInv'
    BY <2>2
       DEF CancelWorkers, DisconnectPeers, SendBpExit, FlushTimesOut, JoinBp, StopStores,
           DropManagers, ChangeInv
  <2> QED
    BY <1>7, <1>8, <1>9, <1>10, <1>12, <2>1, <2>2 DEF StopNode
<1>13. CASE \/ \E w \in Loop : SpawnWorker(w)
            \/ \E m \in Completion : SpawnCompletion(m)
            \/ \E t \in Task : Return(t) \/ Panic(t)
            \/ \E k \in Conn : PeerLeaves(k) \/ ConnEnds(k)
            \/ AdapterLetsGo \/ BpFails \/ BpFlushed
            \/ AcceptFails \/ LastDisconnect \/ StartFails
  BY <1>13
     DEF SpawnWorker, SpawnCompletion, Return, Panic, PeerLeaves, ConnEnds, AdapterLetsGo,
         BpFails, BpFlushed, AcceptFails, LastDisconnect, StartFails, ChangeInv
<1>14. ASSUME NEW d \in Dialer, Dial(d) PROVE ChangeInv'
  BY <1>14
     DEF Dial, Look, NoPeer, Connect, HandOver, KeepInline, InlineEnds, SeeCancelled, ChangeInv
<1>15. CASE UNCHANGED vars
  BY <1>15 DEF vars, ChangeInv
<1> QED
  BY <1>1, <1>2, <1>3, <1>4, <1>5, <1>6, <1>11, <1>12, <1>13, <1>14, <1>15 DEF Next

LEMMA FlushStep ==
  ASSUME TeardownInv, FlushInv, [Next]_vars
  PROVE  FlushInv'
<1> USE DEF session, calls
<1>0. stop \in StopType
  BY DEF TeardownInv, TypeOK, StopType
<1>1. CASE Unlock
  <2>1. sess = "none" /\ sess' = "starting" /\ stop'.at = stop.at
    BY <1>0, <1>1 DEF Unlock, StopType
  <2>2. stop.at \notin Teardown
    BY <2>1 DEF TeardownInv, StopInv, Teardown, Flushing
  <2> QED
    BY <2>1, <2>2 DEF FlushInv, Teardown, Flushing
<1>2. CASE Publish
  BY <1>2 DEF Publish, Starting, FlushInv
<1>3. CASE StartFails
  BY <1>3 DEF StartFails, Starting, Begin, FlushInv
<1>4. ASSUME NEW c \in Shut, Shutdown(c) \/ Waited(c) PROVE FlushInv'
  BY <1>4 DEF Shutdown, Waited, FlushInv
<1>5. ASSUME NEW c \in Lock, LockNode(c) PROVE FlushInv'
  BY <1>5 DEF LockNode, FlushInv
<1>6. ASSUME NEW c \in Caller, EnterStop(c) PROVE FlushInv'
  BY <1>6 DEF EnterStop, Begin, FlushInv
<1>7. CASE TakeSession
  BY <1>0, <1>7 DEF TakeSession, To, FlushInv, StopType
<1>8. CASE JoinWorkers \/ JoinCompletions
  BY <1>0, <1>8 DEF JoinWorkers, JoinCompletions, JoinTakes, JoinAwaits, JoinReaps, After, FlushInv, StopType
<1>9. CASE SendBpExit
  <2>1. sess = "stopping"
    BY <1>9 DEF SendBpExit, TeardownInv, StopInv, Rollback
  <2>2. bp' \in {"exiting", "done", "failed"} /\ stop'.at = "flush" /\ sess' = sess
    BY <1>0, <1>9, <2>1 DEF SendBpExit, To, FlushInv, StopType, TeardownInv, TypeOK
  <2> QED
    BY <2>2 DEF FlushInv
<1>10. CASE CancelWorkers \/ DisconnectPeers \/ JoinBp \/ StopStores \/ DropManagers
  BY <1>0, <1>10
     DEF CancelWorkers, DisconnectPeers, JoinBp, StopStores, DropManagers, To, After, FlushInv, StopType
<1>11. CASE FlushTimesOut
  BY <1>11 DEF FlushTimesOut, FlushInv
<1>12. CASE SettleFence \/ CloseDatabase \/ ReturnFromStop
  BY <1>0, <1>12 DEF SettleFence, CloseDatabase, ReturnFromStop, To, After, FlushInv, StopType
<1>13. CASE BpFails \/ BpFlushed
  BY <1>13 DEF BpFails, BpFlushed, FlushInv
<1>14. CASE \/ \E w \in Loop : SpawnWorker(w)
            \/ \E m \in Completion : SpawnCompletion(m)
            \/ \E t \in Task : Return(t) \/ Panic(t)
            \/ \E k \in Conn : PeerLeaves(k) \/ ConnEnds(k)
            \/ AdapterLetsGo \/ AcceptFails \/ RecordFailure \/ LastDisconnect
  BY <1>14
     DEF SpawnWorker, SpawnCompletion, Return, Panic, PeerLeaves, ConnEnds, AdapterLetsGo,
         AcceptFails, RecordFailure, LastDisconnect, FlushInv
<1>15. ASSUME NEW d \in Dialer, Dial(d) PROVE FlushInv'
  BY <1>15
     DEF Dial, Look, NoPeer, Connect, HandOver, KeepInline, InlineEnds, SeeCancelled, FlushInv
<1>16. CASE UNCHANGED vars
  BY <1>16 DEF vars, FlushInv
<1> QED
  BY <1>1, <1>2, <1>3, <1>4, <1>5, <1>6, <1>7, <1>8, <1>9, <1>10, <1>11, <1>12, <1>13, <1>14,
     <1>15, <1>16
     DEF Next, StopNode

LEMMA DatabaseStep ==
  ASSUME TeardownInv, DatabaseInv, [Next]_vars
  PROVE  DatabaseInv'
<1> USE DEF session, calls
<1>0. stop \in StopType /\ app \in AppType
  BY DEF TeardownInv, TypeOK, StopType, AppType
<1>u. ASSUME app'.db = app.db, app'.outcome = app.outcome, stop'.by = stop.by,
             stop'.at = "record" => stop.at = "record" /\ stop'.errs = stop.errs
      PROVE  DatabaseInv'
  BY <1>u DEF DatabaseInv
<1>1. CASE Unlock
  BY <1>0, <1>1, <1>u DEF Unlock, StopType, AppType
<1>2. CASE Publish
  BY <1>0, <1>2, <1>u DEF Publish, AppType
<1>3. CASE StartFails
  <2>1. app.outcome = "none" /\ app' = app /\ stop'.at = "drain"
    BY <1>3 DEF StartFails, Starting, Begin, TeardownInv, CallInv
  <2> QED
    BY <2>1 DEF DatabaseInv
<1>4. ASSUME NEW c \in Shut, Shutdown(c) \/ Waited(c) PROVE DatabaseInv'
  BY <1>0, <1>4, <1>u DEF Shutdown, Waited, AppType
<1>5. ASSUME NEW c \in Lock, LockNode(c) PROVE DatabaseInv'
  BY <1>0, <1>5, <1>u DEF LockNode, AppType
<1>6. ASSUME NEW c \in Caller, EnterStop(c) PROVE DatabaseInv'
  <2>1. app' = app /\ (Recorded => stop' = stop) /\ (~Recorded => stop'.at = "take")
    BY <1>6 DEF EnterStop, Begin
  <2>2. ~Recorded => app.outcome = "none"
    BY DEF Recorded, TeardownInv, CallInv
  <2> QED
    BY <2>1, <2>2 DEF DatabaseInv
<1>7. CASE TakeSession
  BY <1>0, <1>7, <1>u DEF TakeSession, To, StopType
<1>8. CASE JoinWorkers \/ JoinCompletions
  BY <1>0, <1>8, <1>u DEF JoinWorkers, JoinCompletions, JoinTakes, JoinAwaits, JoinReaps, After, StopType
<1>9. CASE CancelWorkers \/ DisconnectPeers \/ SendBpExit \/ JoinBp \/ StopStores \/ DropManagers \/ FlushTimesOut
  BY <1>0, <1>9, <1>u
     DEF CancelWorkers, DisconnectPeers, SendBpExit, JoinBp, StopStores, DropManagers,
         FlushTimesOut, To, After, StopType
<1>10. CASE SettleFence
  BY <1>0, <1>10, <1>u DEF SettleFence, To, StopType, AppType
<1>11. CASE CloseDatabase
  <2>1. app.outcome = "none"
    BY <1>11 DEF CloseDatabase, TeardownInv, CallInv
  <2>2. stop.by \in Shut => app.cancelled
    BY <1>11 DEF CloseDatabase, TeardownInv, StopInv, CallInv, Rollback
  <2>3. app'.outcome = app.outcome /\ stop'.by = stop.by
    BY <1>0, <1>11 DEF CloseDatabase, To, After, StopType, AppType
  <2>4. app.cancelled => app'.db = "closed" \/ stop'.errs
    BY <1>0, <1>11 DEF CloseDatabase, To, After, StopType, AppType
  <2> QED
    BY <2>1, <2>2, <2>3, <2>4 DEF DatabaseInv
<1>12. CASE ReturnFromStop
  <2>1. stop.at = "record" /\ stop'.at = "rest" /\ stop'.by = stop.by /\ app'.db = app.db
    BY <1>0, <1>12 DEF ReturnFromStop, To, StopType, AppType
  <2>2. stop.by \in Shut \cup Lock
    BY <2>1 DEF TeardownInv, StopInv, Rollback, Caller
  <2>3. app'.outcome = "ok" => app.outcome = "ok" \/ ~stop.errs
    BY <1>0, <1>12 DEF ReturnFromStop, Result, AppType
  <2> QED
    BY <2>1, <2>2, <2>3 DEF DatabaseInv
<1>13. CASE RecordFailure
  BY <1>0, <1>13, <1>u DEF RecordFailure, AppType
<1>14. CASE \/ \E w \in Loop : SpawnWorker(w)
            \/ \E m \in Completion : SpawnCompletion(m)
            \/ \E t \in Task : Return(t) \/ Panic(t)
            \/ \E k \in Conn : PeerLeaves(k) \/ ConnEnds(k)
            \/ AdapterLetsGo \/ AcceptFails \/ LastDisconnect \/ BpFails \/ BpFlushed
  BY <1>14, <1>u
     DEF SpawnWorker, SpawnCompletion, Return, Panic, PeerLeaves, ConnEnds, AdapterLetsGo,
         AcceptFails, LastDisconnect, BpFails, BpFlushed
<1>15. ASSUME NEW d \in Dialer, Dial(d) PROVE DatabaseInv'
  BY <1>15, <1>u
     DEF Dial, Look, NoPeer, Connect, HandOver, KeepInline, InlineEnds, SeeCancelled
<1>16. CASE UNCHANGED vars
  BY <1>16, <1>u DEF vars
<1> QED
  BY <1>1, <1>2, <1>3, <1>4, <1>5, <1>6, <1>7, <1>8, <1>9, <1>10, <1>11, <1>12, <1>13, <1>14,
     <1>15, <1>16
     DEF Next, StopNode

LEMMA PeerStep ==
  ASSUME TeardownInv, PeerInv, [Next]_vars
  PROVE  PeerInv'
<1> USE DEF session, calls
<1>0. /\ stop \in StopType /\ reg \in RegType
      /\ task \in [Task -> {"none", "run", "done", "panic"}]
      /\ link \in [Conn -> {"none", "up", "down"}]
      /\ dial \in [Dialer -> [at : {"watch", "checked", "open", "inline", "failing", "last"},
                              conn : Conn \cup {None}]]
  BY DEF TeardownInv, TypeOK, StopType, RegType
<1>t. Dialer \subseteq Task /\ Conn \subseteq Task /\ Conn \cap (Dialer \cup Loop \cup Completion) = {}
      /\ Dialer \cap (Loop \cup Completion) = {} /\ Loop \subseteq Task /\ Completion \subseteq Task
  BY DistinctAssumption DEF Task
<1>i. \A d \in Dialer : dial[d].at \in {"open", "inline"} =>
        /\ dial[d].conn \in Conn /\ Running(d)
        /\ link[dial[d].conn] # "none" /\ task[dial[d].conn] = "none"
        /\ \A e \in Dialer : dial[e].conn = dial[d].conn => e = d
  BY DistinctAssumption, <1>t DEF TeardownInv, DialInv, Task
<1>d. \A d \in Dialer : Running(d) => sess # "starting"
  BY DEF PeerInv, Running
<1>u. ASSUME UNCHANGED <<link, dial>>, sess' = sess,
             stop'.at \in {"drain", "await"} => stop.at \in {"drain", "await"},
             \A t \in Conn : task'[t] = "run" => task[t] = "run",
             \A t \in Conn \cup Dialer : task[t] = "none" => task'[t] = "none",
             reg["tasks"].closed => reg'["tasks"].closed,
             stop'.at = "await" => reg'["tasks"].cancelled
      PROVE  PeerInv'
  BY <1>u DEF PeerInv, Running
<1>1. CASE Unlock
  <2>1. sess = "none" /\ sess' = "starting" /\ stop'.at = stop.at /\ task' = task /\ link' = link
        /\ \A d \in Dialer : dial'[d].at = "watch"
    BY <1>0, <1>1 DEF Unlock, StopType, Watching
  <2>2. stop.at \notin Teardown
    BY <2>1 DEF TeardownInv, StopInv, Teardown, Flushing
  <2>3. \A t \in Task : task[t] = "none"
    BY <2>1 DEF TeardownInv, StageInv
  <2> QED
    BY <1>t, <2>1, <2>2, <2>3 DEF PeerInv, Running, Teardown, Flushing
<1>2. CASE Publish
  <2>1. sess' = "up" /\ stop' = stop /\ link' = link /\ dial' = dial /\ stop.at = "rest"
    BY <1>2 DEF Publish, Starting
  <2>2. \A t \in Conn : task'[t] = "none"
    BY <1>2, <1>t DEF Publish, Starting, Spawn, PeerInv
  <2> QED
    BY <2>1, <2>2 DEF PeerInv, Running
<1>3. CASE StartFails
  <2>1. sess = "starting" /\ stop'.at = "drain" /\ UNCHANGED <<sess, task, link, dial, reg>>
    BY <1>3 DEF StartFails, Starting, Begin
  <2> QED
    BY <2>1 DEF PeerInv, Running
<1>4. ASSUME NEW c \in Shut, Shutdown(c) \/ Waited(c) PROVE PeerInv'
  BY <1>4 DEF Shutdown, Waited, PeerInv, Running
<1>5. ASSUME NEW c \in Lock, LockNode(c) PROVE PeerInv'
  BY <1>5 DEF LockNode, PeerInv, Running
<1>6. ASSUME NEW c \in Caller, EnterStop(c) PROVE PeerInv'
  BY <1>6 DEF EnterStop, Begin, PeerInv, Running
<1>7. CASE TakeSession
  <2>1. UNCHANGED <<task, link, dial>>
    BY <1>7 DEF TakeSession
  <2>2. CASE sess = "up"
    <3>1. /\ sess' = "stopping" /\ reg' = [reg EXCEPT !["tasks"].closed = TRUE]
          /\ stop' = [stop EXCEPT !.at = "cancel", !.took = stop.by]
      BY <1>7, <2>2 DEF TakeSession
    <3>2. reg'["tasks"].closed
      BY <1>0, <3>1 DEF RegType
    <3>3. stop'.at = "cancel"
      BY <1>0, <3>1 DEF StopType
    <3> QED
      BY <2>1, <3>1, <3>2, <3>3 DEF PeerInv, Running
  <2>3. CASE sess # "up"
    <3>1. sess' = sess /\ reg' = reg /\ stop'.at = "database"
      BY <1>0, <1>7, <2>3 DEF TakeSession, To, StopType
    <3> QED
      BY <2>1, <3>1 DEF PeerInv, Running
  <2> QED
    BY <2>2, <2>3
<1>8. CASE CancelWorkers
  BY <1>0, <1>8, <1>u DEF CancelWorkers, To, StopType, RegType
<1>9. CASE DisconnectPeers
  <2>1. /\ UNCHANGED <<sess, task, dial, reg>> /\ stop'.at = "drain"
        /\ \A k \in Conn : link'[k] = IF link[k] = "up" THEN "down" ELSE link[k]
    BY <1>0, <1>9 DEF DisconnectPeers, DisconnectAll, To, StopType
  <2>2. \A k \in Conn : link'[k] # "up" /\ (link'[k] = "none" <=> link[k] = "none")
                         /\ (link[k] = "down" => link'[k] = "down") /\ (link'[k] # "none" => link'[k] = "down")
    BY <1>0, <2>1
  <2> QED
    BY <1>i, <2>1, <2>2 DEF PeerInv, Running
<1>10. CASE SendBpExit
  <2>1. /\ UNCHANGED <<sess, task, dial, reg>> /\ stop'.at = "flush"
        /\ \A k \in Conn : link'[k] = IF link[k] = "up" THEN "down" ELSE link[k]
    BY <1>0, <1>10 DEF SendBpExit, DisconnectAll, To, StopType
  <2> QED
    BY <1>i, <2>1 DEF PeerInv, Running
<1>11. CASE JoinTakes("tasks", "drain", "await")
  <2>1. UNCHANGED <<sess, task, link, dial>> /\ stop.at = "drain" /\ stop'.at = "await"
        /\ reg'["tasks"].closed /\ reg'["tasks"].cancelled
    BY <1>0, <1>11 DEF JoinTakes, StopType, RegType, Registry
  <2> QED
    BY <2>1 DEF PeerInv, Running
<1>12. CASE JoinTakes("completions", "seal", "settle")
  <2>1. UNCHANGED <<sess, task, link, dial>> /\ stop'.at = "settle" /\ reg'["tasks"] = reg["tasks"]
    BY <1>0, <1>12 DEF JoinTakes, StopType, RegType
  <2> QED
    BY <2>1 DEF PeerInv, Running
<1>13. ASSUME NEW from, NEW to \in {"reap", "collect"}, JoinAwaits(from, to) PROVE PeerInv'
  <2>1. UNCHANGED <<sess, link, dial, reg>> /\ stop'.at = to
        /\ \A t \in Task : task'[t] \in {"none", task[t]}
    BY <1>0, <1>13 DEF JoinAwaits, StopType
  <2> QED
    BY <1>t, <1>u, <2>1
<1>14. ASSUME NEW q \in {"tasks", "completions"}, NEW from, NEW to \in {"stores", "exit", "fence", "drop"},
              JoinReaps(q, from, to)
       PROVE  PeerInv'
  <2>1. UNCHANGED <<sess, link, dial, task>> /\ stop'.at = to
        /\ reg'["tasks"].closed = reg["tasks"].closed
    BY <1>0, <1>14 DEF JoinReaps, After, StopType, RegType
  <2> QED
    BY <1>u, <2>1
<1>15. CASE JoinBp \/ StopStores \/ DropManagers \/ CloseDatabase \/ ReturnFromStop
  <2>1. UNCHANGED <<sess, link, dial, task, reg>>
    BY <1>15 DEF JoinBp, StopStores, DropManagers, CloseDatabase, ReturnFromStop
  <2>2. stop'.at \in {"stores", "seal", "fence", "record", "rest"}
    <3>1. CASE JoinBp \/ StopStores \/ DropManagers
      BY <1>0, <3>1 DEF JoinBp, StopStores, DropManagers, To, After, StopType
    <3>2. CASE CloseDatabase
      BY <1>0, <3>2 DEF CloseDatabase, To, After, StopType
    <3>3. CASE ReturnFromStop
      BY <1>0, <3>3 DEF ReturnFromStop, To, StopType
    <3> QED
      BY <1>15, <3>1, <3>2, <3>3
  <2> QED
    BY <1>u, <2>1, <2>2
<1>16. CASE SettleFence
  <2>1. UNCHANGED <<link, dial, task, reg>> /\ stop'.at \notin {"drain", "await"} /\ sess' = "none"
    BY <1>0, <1>16 DEF SettleFence, To, StopType
  <2> QED
    BY <2>1 DEF PeerInv, Running
<1>17. ASSUME NEW w \in Loop, SpawnWorker(w) PROVE PeerInv'
  <2>1. /\ UNCHANGED <<link, dial, sess, stop>> /\ Spawn("tasks", {w})
        /\ \A t \in Conn \cup Dialer : task'[t] \in {"none", task[t]}
    BY <1>t, <1>17 DEF SpawnWorker, Spawn
  <2>2. /\ reg'["tasks"].closed = reg["tasks"].closed /\ reg'["tasks"].cancelled = reg["tasks"].cancelled
    BY <1>0, <2>1 DEF Spawn, RegType
  <2> QED
    BY <1>u, <2>1, <2>2 DEF PeerInv
<1>18. ASSUME NEW m \in Completion, SpawnCompletion(m) PROVE PeerInv'
  <2>1. /\ UNCHANGED <<link, dial, sess, stop>> /\ Spawn("completions", {m})
        /\ \A t \in Conn \cup Dialer : task'[t] \in {"none", task[t]}
    BY <1>t, <1>18 DEF SpawnCompletion, Spawn
  <2>2. reg'["tasks"] = reg["tasks"]
    BY <1>0, <2>1 DEF Spawn, RegType
  <2> QED
    BY <1>u, <2>1, <2>2 DEF PeerInv
<1>19. ASSUME NEW t \in Task, Return(t) PROVE PeerInv'
  <2>1. UNCHANGED <<link, dial, sess, stop, reg>> /\ \A x \in Conn \cup Dialer : task'[x] = task[x]
    BY <1>0, <1>t, <1>19 DEF Return
  <2> QED
    BY <1>u, <2>1 DEF PeerInv
<1>20. ASSUME NEW t \in Task, Panic(t) PROVE PeerInv'
  <2>1. UNCHANGED <<dial, sess, stop, reg>> /\ task' = [task EXCEPT ![t] = "panic"]
        /\ t \notin Dialer /\ task[t] = "run" /\ \A k \in Conn : k # t => link'[k] = link[k]
    BY <1>0, <1>20 DEF Panic, Running
  <2>2. \A x \in Task : task'[x] = IF x = t THEN "panic" ELSE task[x]
    BY <1>0, <2>1
  <2>3. \A d \in Dialer : dial[d].at = "inline" => dial[d].conn # t
    BY <1>i, <2>1
  <2>4. t \in Conn => sess # "starting"
    BY <2>1 DEF PeerInv
  <2> QED
    BY <1>i, <1>t, <2>1, <2>2, <2>3, <2>4 DEF PeerInv, Running
<1>21. ASSUME NEW k \in Conn, PeerLeaves(k) PROVE PeerInv'
  <2>1. UNCHANGED <<dial, sess, stop, reg, task>> /\ link' = [link EXCEPT ![k] = "down"] /\ link[k] = "up"
    BY <1>21 DEF PeerLeaves
  <2> QED
    BY <1>0, <1>i, <2>1 DEF PeerInv, Running
<1>22. ASSUME NEW k \in Conn, ConnEnds(k) PROVE PeerInv'
  <2>1. UNCHANGED <<dial, sess, stop, reg>> /\ link' = [link EXCEPT ![k] = "none"]
        /\ task' = [task EXCEPT ![k] = "done"] /\ task[k] = "run"
    BY <1>22 DEF ConnEnds, Running
  <2>2. \A d \in Dialer : dial[d].at = "inline" => dial[d].conn # k
    BY <1>i, <2>1
  <2>3. \A x \in Task : task'[x] = IF x = k THEN "done" ELSE task[x]
    BY <1>0, <2>1
  <2>4. sess # "starting"
    BY <2>1 DEF PeerInv
  <2> QED
    BY <1>0, <1>i, <1>t, <2>1, <2>2, <2>3, <2>4 DEF PeerInv, Running
<1>23. CASE AdapterLetsGo \/ BpFails \/ BpFlushed \/ FlushTimesOut
  BY <1>23 DEF AdapterLetsGo, BpFails, BpFlushed, FlushTimesOut, PeerInv, Running
<1>24. ASSUME NEW d \in Dialer, Look(d) \/ NoPeer(d) PROVE PeerInv'
  <2>1. UNCHANGED <<link, sess, stop, reg, task>>
        /\ dial'[d].at \in {"checked", "watch"} /\ \A e \in Dialer : e # d => dial'[e] = dial[e]
    BY <1>0, <1>24 DEF Look, NoPeer, Go
  <2> QED
    BY <2>1 DEF PeerInv, Running
<1>25. ASSUME NEW d \in Dialer, NEW k \in Conn, Connect(d, k) PROVE PeerInv'
  <2>1. /\ UNCHANGED <<sess, stop, reg, task>> /\ task[k] = "none" /\ link[k] = "none"
        /\ \A j \in Conn : j # k => link'[j] = link[j]
        /\ dial'[d].at = "open" /\ \A e \in Dialer : e # d => dial'[e] = dial[e]
    BY <1>0, <1>25 DEF Connect, Go
  <2>2. \A e \in Dialer : dial[e].at = "inline" => dial[e].conn # k /\ dial[e].conn \in Conn
    BY <1>i, <2>1
  <2>3. ASSUME NEW e \in Dialer, dial'[e].at = "inline" PROVE e # d /\ dial[e].at = "inline"
    <3>1. CASE e = d
      BY <2>1, <2>3, <3>1
    <3>2. CASE e # d
      BY <2>1, <2>3, <3>2
    <3> QED
      BY <3>1, <3>2
  <2>4. \A e \in Dialer : dial'[e].at = "inline" => link'[dial'[e].conn] = "down"
    BY <2>1, <2>2, <2>3 DEF PeerInv
  <2>5. \A j \in Conn : Running(j)' => j # k /\ Running(j)
    <3>1. task' = task
      BY <2>1
    <3> QED
      BY <2>1, <3>1 DEF Running
  <2> QED
    BY <2>1, <2>4, <2>5 DEF PeerInv, Running
<1>26. ASSUME NEW d \in Dialer, HandOver(d) PROVE PeerInv'
  <2> DEFINE k == dial[d].conn
  <2>1. /\ UNCHANGED <<link, sess, stop>> /\ Spawn("tasks", {k}) /\ ~reg["tasks"].closed
        /\ dial'[d].at = "watch" /\ \A e \in Dialer : e # d => dial'[e] = dial[e]
    BY <1>0, <1>26 DEF HandOver, Go, Spawn
  <2>2. k \in Conn /\ link[k] # "none" /\ Running(d)
    BY <1>26, <1>i DEF HandOver, At
  <2>3. reg'["tasks"].closed = reg["tasks"].closed /\ reg'["tasks"].cancelled = reg["tasks"].cancelled
    BY <1>0, <2>1 DEF Spawn, RegType
  <2>4. \A t \in Task : t # k => task'[t] \in {"none", task[t]}
    BY <2>1 DEF Spawn
  <2>5. sess \notin {"starting", "stopping"} /\ stop.at \notin {"drain", "await"}
    <3>1. sess \notin {"starting", "stopping"}
      BY <1>d, <2>1, <2>2 DEF PeerInv
    <3> QED
      BY <3>1 DEF TeardownInv, StopInv, Teardown, Flushing
  <2> HIDE DEF k
  <2>6. \A j \in Conn : link'[j] = link[j]
    BY <2>1
  <2> QED
    BY <1>t, <2>1, <2>2, <2>3, <2>4, <2>5, <2>6 DEF PeerInv, Running
<1>27. ASSUME NEW d \in Dialer, KeepInline(d) PROVE PeerInv'
  <2>1. /\ UNCHANGED <<sess, stop, reg, task>> /\ dial[d].at = "open"
        /\ dial'[d] = [at |-> "inline", conn |-> dial[d].conn]
        /\ \A e \in Dialer : e # d => dial'[e] = dial[e]
        /\ \A k \in Conn : link'[k] = IF link[k] = "up" THEN "down" ELSE link[k]
    BY <1>0, <1>27 DEF KeepInline, Go, DisconnectAll, At
  <2>2. \A k \in Conn : (link[k] # "none" => link'[k] = "down")
    BY <1>0, <2>1
  <2> QED
    BY <1>i, <2>1, <2>2 DEF PeerInv, Running
<1>28. ASSUME NEW d \in Dialer, InlineEnds(d) PROVE PeerInv'
  <2>1. /\ UNCHANGED <<sess, stop, reg, task>> /\ dial[d].at \in {"open", "inline"}
        /\ dial'[d].at = "watch" /\ \A e \in Dialer : e # d => dial'[e] = dial[e]
        /\ link' = [link EXCEPT ![dial[d].conn] = "none"]
    BY <1>0, <1>28 DEF InlineEnds, Go, At
  <2>2. \A k \in Conn : k # dial[d].conn => link'[k] = link[k]
    BY <1>0, <2>1
  <2>3. task[dial[d].conn] = "none"
    BY <1>i, <2>1
  <2>4. \A e \in Dialer : e # d /\ dial[e].at = "inline" => dial[e].conn # dial[d].conn /\ dial[e].conn \in Conn
    BY <1>i, <2>1
  <2> QED
    BY <2>1, <2>2, <2>3, <2>4 DEF PeerInv, Running
<1>29. ASSUME NEW d \in Dialer, SeeCancelled(d) PROVE PeerInv'
  <2>1. UNCHANGED <<link, sess, stop, reg>> /\ Running(d) /\ dial[d].at = "watch"
        /\ (dial'[d].at # "inline" /\ \A e \in Dialer : e # d => dial'[e] = dial[e])
    BY <1>0, <1>29 DEF SeeCancelled, Go, At
  <2>2. \A x \in Task : x # d => task'[x] = task[x]
    BY <1>0, <1>29 DEF SeeCancelled
  <2> QED
    BY <1>d, <1>t, <2>1, <2>2 DEF PeerInv, Running
<1>30. CASE AcceptFails
  <2>1. UNCHANGED <<link, sess, stop, reg, task>>
        /\ dial'["listener"].at = "failing" /\ \A e \in Dialer : e # "listener" => dial'[e] = dial[e]
    BY <1>0, <1>30 DEF AcceptFails, Go, Dialer
  <2> QED
    BY <2>1 DEF PeerInv, Running
<1>31. CASE RecordFailure
  <2>1. UNCHANGED <<link, sess, stop, task>>
        /\ reg'["tasks"].closed = reg["tasks"].closed /\ reg'["tasks"].cancelled = reg["tasks"].cancelled
    BY <1>0, <1>31 DEF RecordFailure, RegType
  <2>2. dial'["listener"].at = "last" /\ \A e \in Dialer : e # "listener" => dial'[e] = dial[e]
    BY <1>0, <1>31 DEF RecordFailure, Go, Dialer
  <2>3. \A e \in Dialer : dial'[e].at = "inline" => dial[e].at = "inline" /\ dial'[e].conn = dial[e].conn
    BY <2>2
  <2> QED
    BY <2>1, <2>3 DEF PeerInv, Running
<1>32. CASE LastDisconnect
  <2>1. /\ UNCHANGED <<sess, dial, reg, stop>> /\ Running("listener")
        /\ \A k \in Conn : link'[k] = IF link[k] = "up" THEN "down" ELSE link[k]
        /\ \A x \in Task : x # "listener" => task'[x] = task[x]
    BY <1>0, <1>32 DEF LastDisconnect, DisconnectAll, At
  <2>2. "listener" \in Dialer /\ "listener" \notin Conn
    BY <1>t DEF Dialer
  <2> QED
    BY <1>d, <1>i, <1>t, <2>1, <2>2 DEF PeerInv, Running
<1>33. CASE UNCHANGED vars
  BY <1>33 DEF vars, PeerInv, Running
<1>34. CASE StopNode
  BY <1>7, <1>8, <1>9, <1>10, <1>11, <1>12, <1>13, <1>14, <1>15, <1>16, <1>23, <1>34
     DEF StopNode, JoinWorkers, JoinCompletions
<1>35. ASSUME NEW d \in Dialer, Dial(d) PROVE PeerInv'
  BY <1>24, <1>25, <1>26, <1>27, <1>28, <1>29, <1>35 DEF Dial
<1> QED
  BY <1>1, <1>2, <1>3, <1>4, <1>5, <1>6, <1>17, <1>18, <1>19, <1>20, <1>21, <1>22, <1>23,
     <1>30, <1>31, <1>32, <1>33, <1>34, <1>35
     DEF Next

LEMMA WaitStep ==
  ASSUME TeardownInv, WaitInv, [Next]_vars
  PROVE  WaitInv'
  BY ChangeStep, PeerStep, FlushStep, DatabaseStep DEF WaitInv

LEMMA WaitInvariant == Spec => []WaitInv
<1>1. TeardownInv /\ WaitInv /\ [Next]_vars => WaitInv'
  BY WaitStep
<1> QED
  BY <1>1, WaitInit, TeardownInvariant, PTL DEF Spec

(* No stop waits for what only a peer or a store out of reach could end,    *)
(* and nobody waits for a flag that no one will lower.                      *)
THEOREM NoStopIsStuck == Spec => []WaitsCanEnd
<1>1. TeardownInv /\ WaitInv => WaitsCanEnd
  BY DEF TeardownInv, StageInv, WaitInv, ChangeInv, PeerInv, FlushInv, WaitsCanEnd, At
<1> QED
  BY <1>1, TeardownInvariant, WaitInvariant, PTL

(* The database stays open after a terminal shutdown only when a lock       *)
(* performed it.                                                            *)
THEOREM OnlyALockLeavesItOpen == Spec => []OpenOnlyForALock
<1>1. TeardownInv /\ WaitInv => OpenOnlyForALock
  BY DEF TeardownInv, CallInv, WaitInv, DatabaseInv, OpenOnlyForALock
<1> QED
  BY <1>1, TeardownInvariant, WaitInvariant, PTL

(* So it is always closed when the node is never locked.                    *)
THEOREM ClosedWithoutLocks ==
  ASSUME Lock = {}
  PROVE  Spec => []TerminalClosesDatabase
<1>1. OpenOnlyForALock => TerminalClosesDatabase
  BY DEF OpenOnlyForALock, TerminalClosesDatabase
<1> QED
  BY <1>1, OnlyALockLeavesItOpen, PTL

-----------------------------------------------------------------------------
(* Why a stop ends.                                                         *)

(* The stages in the order of stop_node's statements.                       *)
Order(at) ==
  IF at = "rest" THEN 0 ELSE IF at = "take" THEN 1 ELSE IF at = "cancel" THEN 2
  ELSE IF at = "disconnect" THEN 3 ELSE IF at = "drain" THEN 4 ELSE IF at = "await" THEN 5
  ELSE IF at = "reap" THEN 6 ELSE IF at = "exit" THEN 7 ELSE IF at = "flush" THEN 8
  ELSE IF at = "stores" THEN 9 ELSE IF at = "seal" THEN 10 ELSE IF at = "settle" THEN 11
  ELSE IF at = "collect" THEN 12 ELSE IF at = "drop" THEN 13 ELSE IF at = "fence" THEN 14
  ELSE IF at = "database" THEN 15 ELSE 16

(* A stop, or the rollback of a start, goes through its stages without      *)
(* going back; while it awaits the handles it took, nothing is added to     *)
(* them and what has finished stays finished, however many workers and      *)
(* completions are spawned beside it (SessionTasks::join).                  *)
StopAdvances ==
  [][stop.at # "rest" =>
       \/ /\ stop'.at = stop.at /\ stop'.waits = stop.waits
          /\ stop.at \in {"await", "settle"} => \A t \in stop.waits : Over(t) => Over(t)'
       \/ Order(stop'.at) > Order(stop.at)
       \/ stop'.at = "rest" /\ stop.at \in {"fence", "record"}]_vars

(* Each statement of stop_node leads to a later one.                        *)
LEMMA StageAfter ==
  ASSUME TeardownInv, StopNode, stop.at # "rest"
  PROVE  \/ FlushTimesOut
         \/ Order(stop'.at) > Order(stop.at)
         \/ stop'.at = "rest" /\ stop.at \in {"fence", "record"}
<1>1. stop \in StopType
  BY DEF TeardownInv, TypeOK, StopType
<1>2. ASSUME NEW at, To(at) \/ \E f : After(at, f) PROVE stop'.at = at
  BY <1>1, <1>2 DEF To, After, StopType
<1>3. ASSUME NEW q, NEW from, NEW to, JoinTakes(q, from, to) \/ JoinAwaits(from, to)
      PROVE  stop'.at = to /\ stop.at = from
  BY <1>1, <1>3 DEF JoinTakes, JoinAwaits, StopType
<1>4. ASSUME NEW q, NEW from, NEW to, JoinReaps(q, from, to) PROVE stop'.at = to /\ stop.at = from
  BY <1>2, <1>4 DEF JoinReaps
<1>5. CASE TakeSession
  <2>1. stop.at = "take" /\ stop'.at \in {"cancel", "database"}
    BY <1>1, <1>2, <1>5 DEF TakeSession, StopType
  <2> QED
    BY <2>1 DEF Order
<1>6. CASE JoinWorkers
  <2>1. \/ stop.at = "drain" /\ stop'.at = "await"
        \/ stop.at = "await" /\ stop'.at = "reap"
        \/ stop.at = "reap" /\ stop'.at \in {"stores", "exit"}
    BY <1>3, <1>4, <1>6 DEF JoinWorkers
  <2> QED
    BY <2>1 DEF Order
<1>7. CASE JoinCompletions
  <2>1. \/ stop.at = "seal" /\ stop'.at = "settle"
        \/ stop.at = "settle" /\ stop'.at = "collect"
        \/ stop.at = "collect" /\ stop'.at \in {"fence", "drop"}
    BY <1>3, <1>4, <1>7 DEF JoinCompletions
  <2> QED
    BY <2>1 DEF Order
<1>8. CASE CancelWorkers \/ DisconnectPeers \/ SendBpExit \/ JoinBp \/ StopStores \/ DropManagers
  BY <1>2, <1>8 DEF CancelWorkers, DisconnectPeers, SendBpExit, JoinBp, StopStores, DropManagers, Order
<1>9. CASE SettleFence
  <2>1. stop.at = "fence" /\ stop'.at \in {"rest", "database"}
    BY <1>2, <1>9 DEF SettleFence
  <2> QED
    BY <2>1 DEF Order
<1>10. CASE CloseDatabase
  <2>1. To("record") \/ After("record", TRUE)
    BY <1>10 DEF CloseDatabase
  <2>2. stop.at = "database" /\ stop'.at = "record"
    BY <1>2, <1>10, <2>1 DEF CloseDatabase
  <2> QED
    BY <2>2 DEF Order
<1>11. CASE ReturnFromStop
  BY <1>2, <1>11 DEF ReturnFromStop
<1> QED
  BY <1>5, <1>6, <1>7, <1>8, <1>9, <1>10, <1>11 DEF StopNode

(* Reaping at an admission touches no future that a join has taken.         *)
LEMMA SpawnLeavesJoined ==
  ASSUME TeardownInv, stop.at \in {"await", "settle"}, NEW t \in stop.waits, Over(t),
         NEW q \in {"tasks", "completions"}, NEW new \in SUBSET Task,
         \A u \in new : task[u] = "none", Spawn(q, new)
  PROVE  task'[t] = task[t]
<1>1. t \in Task /\ task[t] # "none"
  BY DEF TeardownInv, TypeOK, Over
<1>2. t \notin reg[q].handles
  BY DistinctAssumption DEF TeardownInv, OwnInv, StageInv, Worker
<1> QED
  BY <1>1, <1>2 DEF Spawn, Finished

(* Whatever else happens, a stop stays where it is with what it awaits.     *)
LEMMA StopStays ==
  ASSUME TeardownInv, Next, ~StopNode, stop.at # "rest"
  PROVE  stop'.at = stop.at /\ stop'.waits = stop.waits
<1>1. stop \in StopType
  BY DEF TeardownInv, TypeOK, StopType
<1>2. CASE Unlock
  BY <1>1, <1>2 DEF Unlock, StopType
<1>3. CASE UNCHANGED stop
  BY <1>3
<1>4. ~Publish /\ ~StartFails /\ \A c \in Caller : EnterStop(c) => UNCHANGED stop
  BY DEF Publish, StartFails, Starting, EnterStop
<1>5. ASSUME NEW c, Shutdown(c) \/ Waited(c) \/ LockNode(c) PROVE UNCHANGED stop
  BY <1>5 DEF Shutdown, Waited, LockNode
<1>6. ASSUME NEW t, SpawnWorker(t) \/ SpawnCompletion(t) \/ Return(t) \/ Panic(t) PROVE UNCHANGED stop
  BY <1>6 DEF SpawnWorker, SpawnCompletion, Return, Panic, calls
<1>7. ASSUME NEW k, PeerLeaves(k) \/ ConnEnds(k) PROVE UNCHANGED stop
  BY <1>7 DEF PeerLeaves, ConnEnds, calls
<1>8. AdapterLetsGo \/ BpFails \/ BpFlushed => UNCHANGED stop
  BY DEF AdapterLetsGo, BpFails, BpFlushed, calls
<1>9. ASSUME NEW d, Dial(d) PROVE UNCHANGED stop
  BY <1>9 DEF Dial, Look, NoPeer, Connect, HandOver, KeepInline, InlineEnds, SeeCancelled, calls
<1>10. AcceptFails \/ RecordFailure \/ LastDisconnect => UNCHANGED stop
  BY DEF AcceptFails, RecordFailure, LastDisconnect, calls
<1> QED
  BY <1>2, <1>3, <1>4, <1>5, <1>6, <1>7, <1>8, <1>9, <1>10 DEF Next

(* What a join awaits and has finished stays finished.                      *)
LEMMA JoinedStayOver ==
  ASSUME TeardownInv, Next, ~StopNode \/ FlushTimesOut, stop.at \in {"await", "settle"},
         NEW t \in stop.waits, Over(t)
  PROVE  task'[t] = task[t]
<1>1. /\ task \in [Task -> {"none", "run", "done", "panic"}] /\ t \in Task /\ ~Running(t)
      /\ Dialer \subseteq Task /\ Conn \subseteq Task
  BY DEF TeardownInv, TypeOK, Over, Running, Task
<1>2. CASE UNCHANGED task
  BY <1>2
<1>3. ~Publish /\ ~StartFails /\ ~FlushTimesOut
  BY DEF Publish, StartFails, Starting, FlushTimesOut
<1>4. CASE Unlock \/ \E c \in Caller : Shutdown(c) \/ Waited(c) \/ LockNode(c) \/ EnterStop(c)
  BY <1>2, <1>4 DEF Unlock, Shutdown, Waited, LockNode, EnterStop
<1>5. ASSUME NEW w \in Loop, SpawnWorker(w) PROVE task'[t] = task[t]
  BY <1>5, SpawnLeavesJoined DEF SpawnWorker, Task
<1>6. ASSUME NEW m \in Completion, SpawnCompletion(m) PROVE task'[t] = task[t]
  BY <1>6, SpawnLeavesJoined DEF SpawnCompletion, Task
<1>7. ASSUME NEW u \in Task, Return(u) \/ Panic(u) PROVE task'[t] = task[t]
  BY <1>1, <1>7 DEF Return, Panic
<1>8. ASSUME NEW k \in Conn, PeerLeaves(k) \/ ConnEnds(k) PROVE task'[t] = task[t]
  BY <1>1, <1>8 DEF PeerLeaves, ConnEnds
<1>9. CASE AdapterLetsGo \/ BpFails \/ BpFlushed \/ AcceptFails \/ RecordFailure
  BY <1>2, <1>9 DEF AdapterLetsGo, BpFails, BpFlushed, AcceptFails, RecordFailure
<1>10. CASE LastDisconnect
  BY <1>1, <1>10 DEF LastDisconnect, At, Dialer
<1>11. ASSUME NEW d \in Dialer, Dial(d) PROVE task'[t] = task[t]
  <2>1. CASE HandOver(d)
    <3>1. dial[d].conn \in Conn /\ task[dial[d].conn] = "none"
      <4>1. dial[d].at = "open"
        BY <2>1 DEF HandOver, At
      <4>2. dial[d].conn \in Conn
        BY <4>1 DEF TeardownInv, DialInv
      <4>3. dial[d].conn # None
        BY <4>2, DistinctAssumption DEF Task
      <4> QED
        BY <4>2, <4>3 DEF TeardownInv, DialInv
    <3> QED
      BY <1>1, <2>1, <3>1, SpawnLeavesJoined DEF HandOver
  <2>2. CASE SeeCancelled(d)
    BY <1>1, <2>2 DEF SeeCancelled, At
  <2> QED
    BY <1>11, <2>1, <2>2 DEF Dial, Look, NoPeer, Connect, KeepInline, InlineEnds
<1> QED
  BY <1>3, <1>4, <1>5, <1>6, <1>7, <1>8, <1>9, <1>10, <1>11 DEF Next, Caller

(* A stop takes at most sixteen stages, and each wait in it is for a set    *)
(* of futures that only shrinks: with NoStopIsStuck, nothing but the        *)
(* runtime's fairness is left to its end (stop_node, SessionTasks::join).   *)
THEOREM StopsMoveOn == Spec => StopAdvances
<1> DEFINE Onward ==
      stop.at # "rest" =>
       \/ /\ stop'.at = stop.at /\ stop'.waits = stop.waits
          /\ stop.at \in {"await", "settle"} => \A t \in stop.waits : Over(t) => Over(t)'
       \/ Order(stop'.at) > Order(stop.at)
       \/ stop'.at = "rest" /\ stop.at \in {"fence", "record"}
<1>1. TeardownInv /\ [Next]_vars => [Onward]_vars
  <2> SUFFICES ASSUME TeardownInv, Next, stop.at # "rest" PROVE Onward
    OBVIOUS
  <2>1. CASE StopNode /\ ~FlushTimesOut
    BY <2>1, StageAfter
  <2>2. CASE FlushTimesOut
    BY <2>2 DEF FlushTimesOut, calls
  <2>3. CASE ~StopNode
    BY <2>3, StopStays, JoinedStayOver DEF Over
  <2> QED
    BY <2>1, <2>2, <2>3
<1> QED
  BY <1>1, TeardownInvariant, PTL DEF Spec, StopAdvances

(* Types; the fence is free only after a clean stop; every shutdown is     *)
(* told one outcome; the database closes after its last user, and stays    *)
(* open only for a lock; no stop is stuck.                                 *)
THEOREM SessionIsSafe == Spec => []SessionInv
<1>1. ASSUME TeardownInv PROVE FenceNeedsCleanStop
  BY <1>1, NoSessionIsQuiet DEF FenceNeedsCleanStop, TeardownInv, FailInv
<1>2. ASSUME TeardownInv PROVE OneOutcome
  BY <1>2 DEF OneOutcome, TeardownInv, CallInv
<1>3. ASSUME TeardownInv PROVE ClosedDatabaseIsUnused
  BY <1>3, NoSessionIsQuiet DEF ClosedDatabaseIsUnused, TeardownInv, CallInv
<1>4. TeardownInv /\ OpenOnlyForALock /\ WaitsCanEnd => SessionInv
  BY <1>1, <1>2, <1>3 DEF SessionInv, TeardownInv
<1> QED
  BY <1>4, TeardownInvariant, OnlyALockLeavesItOpen, NoStopIsStuck, PTL
=============================================================================
