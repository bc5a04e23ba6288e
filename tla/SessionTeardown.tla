--------------------------- MODULE SessionTeardown ---------------------------
(***************************************************************************)
(* One node's unlocked sessions, from start_lightning to stop_node         *)
(* (src/ldk.rs, src/node.rs and src/utils.rs in the runtime patch): the    *)
(* workers a SessionTasks registry owns, the background processor (BP),    *)
(* the VSS fence, and the REST lock and the terminal shutdowns that tear   *)
(* the session down while workers still spawn others.                      *)
(*                                                                         *)
(* A critical section of a registry's mutex is one step.  Time is          *)
(* abstract: a timeout may strike at any moment.  A store that is cut off  *)
(* is a completion, or a final flush, that ends only once the stores stop. *)
(* The admission of unlock and lock (check, then changing_state raised) is *)
(* code outside the patch and assumed atomic.                              *)
(***************************************************************************)
CONSTANTS
  Loop,        \* workers that watch the cancellation: chain sync, sweeps, lookups
  Conn,        \* peer connections, each with its completion future
  Completion,  \* monitor persistence and broadcasts, in the second registry
  Shut,        \* callers of NodeHandle::shutdown
  Lock,        \* callers of the REST lock
  None

Dialer == {"listener", "connector"}  \* the accept loop and the reconnect loop
Caller == Shut \cup Lock
Task == Dialer \cup Loop \cup Conn \cup Completion

ASSUME DistinctAssumption ==
  /\ Dialer \cap (Loop \cup Conn \cup Completion) = {}
  /\ Loop \cap (Conn \cup Completion) = {} /\ Conn \cap Completion = {}
  /\ Shut \cap Lock = {} /\ "unlock" \notin Caller
  /\ None \notin Task \cup Caller \cup {"unlock"}

VARIABLES
  app,      \* AppState: cancel_token, changing_state, the teardown outcome, the database pool
  sess,     \* where the one session is
  reg,      \* the two SessionTasks registries
  task,     \* the future behind each handle
  link,     \* what the peer manager knows of each connection
  dial,     \* where each dialer is, and the connection it still owns itself
  bp,       \* the background processor
  stopped,  \* the stores no longer retry
  adapter,  \* a hidden event worker of the network adapter holds the managers
  fence,    \* the cross-device VSS fence
  hurt,     \* history: something of this session failed
  pc,       \* each caller
  stop      \* the stop_node, or the startup rollback, in progress

vars == <<app, sess, reg, task, link, dial, bp, stopped, adapter, fence, hurt, pc, stop>>

Stages == {"rest", "take", "cancel", "disconnect", "drain", "await", "reap", "exit", "flush",
           "stores", "seal", "settle", "collect", "drop", "fence", "database", "record"}

(* A handle always names a future that was spawned and not yet joined.     *)
TypeOK ==
  /\ app \in [cancelled : BOOLEAN, changing : BOOLEAN, outcome : {"none", "ok", "err"},
              db : {"open", "closed"}]
  /\ sess \in {"none", "starting", "up", "stopping"}
  /\ reg \in [{"tasks", "completions"} ->
                [closed : BOOLEAN, cancelled : BOOLEAN, handles : SUBSET Task, failed : BOOLEAN]]
  /\ task \in [Task -> {"none", "run", "done", "panic"}]
  /\ \A q \in DOMAIN reg : \A t \in reg[q].handles : task[t] # "none"
  /\ link \in [Conn -> {"none", "up", "down"}]
  /\ dial \in [Dialer -> [at : {"watch", "checked", "open", "inline", "failing", "last"},
                          conn : Conn \cup {None}]]
  /\ bp \in {"none", "run", "exiting", "done", "failed"}
  /\ stopped \in BOOLEAN /\ adapter \in BOOLEAN /\ hurt \in BOOLEAN
  /\ fence \in {"free", "held"}
  /\ pc \in [Caller -> {"idle", "wait", "queue", "in", "ok", "err"}]
  /\ stop \in [by : Caller \cup {"unlock", None}, at : Stages, waits : SUBSET Task,
               errs : BOOLEAN, took : Caller \cup {None}]

Registry == [closed |-> FALSE, cancelled |-> FALSE, handles |-> {}, failed |-> FALSE]

Watching == [at |-> "watch", conn |-> None]

Init ==
  /\ app = [cancelled |-> FALSE, changing |-> FALSE, outcome |-> "none", db |-> "open"]
  /\ sess = "none"
  /\ reg = [q \in {"tasks", "completions"} |-> Registry]
  /\ task = [t \in Task |-> "none"]
  /\ link = [k \in Conn |-> "none"]
  /\ dial = [d \in Dialer |-> Watching]
  /\ bp = "none" /\ stopped = FALSE /\ adapter = FALSE /\ hurt = FALSE
  /\ fence = "free"
  /\ pc = [c \in Caller |-> "idle"]
  /\ stop = [by |-> None, at |-> "rest", waits |-> {}, errs |-> FALSE, took |-> None]

(***************************************************************************)
(* SessionTasks: admission reaps what has finished, and keeps its panics.  *)
(***************************************************************************)
Over(t) == task[t] \in {"done", "panic"}

Finished(q) == {t \in reg[q].handles : Over(t)}

Panicked(ts) == \E t \in ts : task[t] = "panic"

\* mutant: admission does not look at closed
SpawnAfterClose(q, new) ==
  /\ reg' = [reg EXCEPT ![q].handles = (@ \ Finished(q)) \cup new,
                        ![q].failed = @ \/ Panicked(Finished(q))]
  /\ task' = [t \in Task |-> IF t \in new THEN "run"
                             ELSE IF t \in Finished(q) THEN "none" ELSE task[t]]

Spawn(q, new) ==
  /\ ~reg[q].closed
  /\ reg' = [reg EXCEPT ![q].handles = (@ \ Finished(q)) \cup new,
                        ![q].failed = @ \/ Panicked(Finished(q))]
  /\ task' = [t \in Task |-> IF t \in new THEN "run"
                             ELSE IF t \in Finished(q) THEN "none" ELSE task[t]]

DisconnectAll == link' = [k \in Conn |-> IF link[k] = "up" THEN "down" ELSE link[k]]

(***************************************************************************)
(* The session's own work.  Events, peers and startup create workers;      *)
(* every producer of channel state creates completions.  A refused future  *)
(* is dropped unstarted, except by a dialer (below).                       *)
(***************************************************************************)
session == <<sess, bp, stopped, fence>>
calls == <<pc, stop>>

Running(t) == task[t] = "run"

BpAlive == bp \in {"run", "exiting"}

Starting == sess = "starting" /\ stop.at = "rest"

Producing == Starting \/ BpAlive \/ \E t \in Loop \cup Conn : Running(t)

SpawnWorker(w) ==
  /\ task[w] = "none"
  /\ Producing
  /\ Spawn("tasks", {w})
  /\ UNCHANGED <<app, link, dial, adapter, hurt, session, calls>>

SpawnCompletion(m) ==
  /\ task[m] = "none"
  /\ Producing
  /\ Spawn("completions", {m})
  /\ UNCHANGED <<app, link, dial, adapter, hurt, session, calls>>

Return(t) ==
  /\ t \in Loop \cup Completion
  /\ Running(t)
  /\ task' = [task EXCEPT ![t] = "done"]
  /\ UNCHANGED <<app, reg, link, dial, adapter, hurt, session, calls>>

Panic(t) ==
  /\ t \notin Dialer
  /\ Running(t)
  /\ task' = [task EXCEPT ![t] = "panic"]
  /\ link' = IF t \in Conn THEN [link EXCEPT ![t] = "none"] ELSE link
  /\ hurt' = TRUE
  /\ UNCHANGED <<app, reg, dial, adapter, session, calls>>

PeerLeaves(k) ==
  /\ link[k] = "up"
  /\ link' = [link EXCEPT ![k] = "down"]
  /\ UNCHANGED <<app, reg, task, dial, adapter, hurt, session, calls>>

ConnEnds(k) ==
  /\ Running(k) /\ link[k] = "down"
  /\ task' = [task EXCEPT ![k] = "done"]
  /\ link' = [link EXCEPT ![k] = "none"]
  /\ UNCHANGED <<app, reg, dial, adapter, hurt, session, calls>>

AdapterLetsGo ==
  /\ adapter /\ \A k \in Conn : link[k] # "up"
  /\ adapter' = FALSE
  /\ UNCHANGED <<app, reg, task, link, dial, hurt, session, calls>>

BpFails ==
  /\ BpAlive
  /\ bp' = "failed" /\ hurt' = TRUE
  /\ UNCHANGED <<app, sess, reg, task, link, dial, stopped, adapter, fence, calls>>

BpFlushed ==
  /\ bp = "exiting"
  /\ bp' = "done"
  /\ UNCHANGED <<app, sess, reg, task, link, dial, stopped, adapter, fence, hurt, calls>>

(***************************************************************************)
(* The dialers.  Between the look at the cancellation and the spawn of the *)
(* connection's future the session may close: the dialer then disconnects  *)
(* everyone and awaits the future itself.                                  *)
(***************************************************************************)
Go(d, at, conn) == dial' = [dial EXCEPT ![d] = [at |-> at, conn |-> conn]]

At(d, at) == Running(d) /\ dial[d].at = at

Look(d) ==
  /\ At(d, "watch") /\ ~reg["tasks"].cancelled
  /\ Go(d, "checked", None)
  /\ UNCHANGED <<app, reg, task, link, adapter, hurt, session, calls>>

NoPeer(d) ==
  /\ At(d, "checked")
  /\ Go(d, "watch", None)
  /\ UNCHANGED <<app, reg, task, link, adapter, hurt, session, calls>>

Connect(d, k) ==
  /\ At(d, "checked")
  /\ link[k] = "none" /\ task[k] = "none"
  /\ link' = [link EXCEPT ![k] = "up"]
  /\ adapter' = TRUE
  /\ Go(d, "open", k)
  /\ UNCHANGED <<app, reg, task, hurt, session, calls>>

HandOver(d) ==
  /\ At(d, "open")
  /\ Spawn("tasks", {dial[d].conn})
  /\ Go(d, "watch", None)
  /\ UNCHANGED <<app, link, adapter, hurt, session, calls>>

\* mutant: awaits the future of a peer it did not disconnect
KeepInlineConnected(d) ==
  /\ At(d, "open")
  /\ reg["tasks"].closed \/ (d = "connector" /\ reg["tasks"].cancelled)
  /\ Go(d, "inline", dial[d].conn)
  /\ UNCHANGED <<app, reg, task, link, adapter, hurt, session, calls>>

(* Refused by the closed registry, or seen cancelled by do_connect_peer.   *)
KeepInline(d) ==
  /\ At(d, "open")
  /\ reg["tasks"].closed \/ (d = "connector" /\ reg["tasks"].cancelled)
  /\ DisconnectAll
  /\ Go(d, "inline", dial[d].conn)
  /\ UNCHANGED <<app, reg, task, adapter, hurt, session, calls>>

(* do_connect_peer also notices a peer that left before it was admitted.   *)
InlineEnds(d) ==
  /\ At(d, "inline") \/ (d = "connector" /\ At(d, "open"))
  /\ link[dial[d].conn] = "down"
  /\ link' = [link EXCEPT ![dial[d].conn] = "none"]
  /\ Go(d, "watch", None)
  /\ UNCHANGED <<app, reg, task, adapter, hurt, session, calls>>

AcceptFails ==
  /\ At("listener", "watch") /\ ~reg["tasks"].cancelled
  /\ Go("listener", "failing", None)
  /\ UNCHANGED <<app, reg, task, link, adapter, hurt, session, calls>>

RecordFailure ==
  /\ At("listener", "failing")
  /\ reg' = [reg EXCEPT !["tasks"].failed = TRUE]
  /\ app' = [app EXCEPT !.cancelled = TRUE]
  /\ hurt' = TRUE
  /\ Go("listener", "last", None)
  /\ UNCHANGED <<task, link, adapter, session, calls>>

SeeCancelled(d) ==
  /\ At(d, "watch") /\ reg["tasks"].cancelled
  /\ IF d = "listener"
     THEN Go(d, "last", None) /\ UNCHANGED task
     ELSE task' = [task EXCEPT ![d] = "done"] /\ UNCHANGED dial
  /\ UNCHANGED <<app, reg, link, adapter, hurt, session, calls>>

LastDisconnect ==
  /\ At("listener", "last")
  /\ DisconnectAll
  /\ task' = [task EXCEPT !["listener"] = "done"]
  /\ UNCHANGED <<app, reg, dial, adapter, hurt, session, calls>>

(***************************************************************************)
(* Unlock: start_lightning publishes a session, or rolls its start back.   *)
(***************************************************************************)
Admitted == ~app.cancelled /\ ~app.changing

Unlock ==
  /\ Admitted /\ sess = "none"
  /\ app' = [app EXCEPT !.changing = TRUE]
  /\ sess' = "starting" /\ fence' = "held"
  /\ reg' = [q \in DOMAIN reg |-> Registry]
  /\ dial' = [d \in Dialer |-> Watching]
  /\ bp' = "none" /\ stopped' = FALSE /\ adapter' = FALSE /\ hurt' = FALSE
  /\ stop' = [stop EXCEPT !.took = None]
  /\ UNCHANGED <<task, link, pc>>

Publish ==
  /\ Starting
  /\ Spawn("tasks", Dialer)
  /\ sess' = "up" /\ bp' = "run"
  /\ app' = [app EXCEPT !.changing = FALSE]
  /\ UNCHANGED <<link, dial, stopped, adapter, fence, hurt, calls>>

Begin(by, at) == stop' = [by |-> by, at |-> at, waits |-> {}, errs |-> FALSE, took |-> stop.took]

StartFails ==
  /\ Starting
  /\ Begin("unlock", "drain")
  /\ UNCHANGED <<app, reg, task, link, dial, adapter, hurt, session, pc>>

(***************************************************************************)
(* The callers of stop_node.                                               *)
(***************************************************************************)
Shutdown(c) ==
  /\ pc[c] = "idle"
  /\ app' = [app EXCEPT !.cancelled = TRUE]
  /\ pc' = [pc EXCEPT ![c] = "wait"]
  /\ UNCHANGED <<reg, task, link, dial, adapter, hurt, session, stop>>

Waited(c) ==
  /\ pc[c] = "wait" /\ ~app.changing
  /\ pc' = [pc EXCEPT ![c] = "queue"]
  /\ UNCHANGED <<app, reg, task, link, dial, adapter, hurt, session, stop>>

LockNode(c) ==
  /\ pc[c] \in {"idle", "ok", "err"}
  /\ Admitted /\ sess = "up"
  /\ app' = [app EXCEPT !.changing = TRUE]
  /\ pc' = [pc EXCEPT ![c] = "queue"]
  /\ UNCHANGED <<reg, task, link, dial, adapter, hurt, session, stop>>

Recorded == app.cancelled /\ app.outcome # "none"

\* mutant: a stop that finds another one at work has nothing to do
EnterStopAtOnce(c) ==
  /\ pc[c] = "queue"
  /\ IF Recorded \/ stop.at # "rest"
     THEN pc' = [pc EXCEPT ![c] = IF Recorded THEN app.outcome ELSE "ok"] /\ UNCHANGED stop
     ELSE pc' = [pc EXCEPT ![c] = "in"] /\ Begin(c, "take")
  /\ UNCHANGED <<app, reg, task, link, dial, adapter, hurt, session>>

EnterStop(c) ==
  /\ pc[c] = "queue" /\ stop.at = "rest"
  /\ IF Recorded
     THEN pc' = [pc EXCEPT ![c] = app.outcome] /\ UNCHANGED stop
     ELSE pc' = [pc EXCEPT ![c] = "in"] /\ Begin(c, "take")
  /\ UNCHANGED <<app, reg, task, link, dial, adapter, hurt, session>>

(***************************************************************************)
(* stop_node, in the order of its statements.  The rollback shares the     *)
(* two joins and what lies between them, but for the BP it never had.      *)
(***************************************************************************)
To(at) == stop' = [stop EXCEPT !.at = at]

After(at, failed) == stop' = [stop EXCEPT !.at = at, !.errs = @ \/ failed]

RollingBack == stop.by = "unlock"

\* mutant: closes the completions with the workers
TakeSessionClosesBoth ==
  /\ stop.at = "take"
  /\ IF sess = "up"
     THEN /\ sess' = "stopping"
          /\ reg' = [q \in DOMAIN reg |-> [reg[q] EXCEPT !.closed = TRUE]]
          /\ stop' = [stop EXCEPT !.at = "cancel", !.took = stop.by]
     ELSE To("database") /\ UNCHANGED <<sess, reg>>
  /\ UNCHANGED <<app, task, link, dial, bp, stopped, adapter, fence, hurt, pc>>

TakeSession ==
  /\ stop.at = "take"
  /\ IF sess = "up"
     THEN /\ sess' = "stopping"
          /\ reg' = [reg EXCEPT !["tasks"].closed = TRUE]
          /\ stop' = [stop EXCEPT !.at = "cancel", !.took = stop.by]
     ELSE To("database") /\ UNCHANGED <<sess, reg>>
  /\ UNCHANGED <<app, task, link, dial, bp, stopped, adapter, fence, hurt, pc>>

CancelWorkers ==
  /\ stop.at = "cancel"
  /\ reg' = [reg EXCEPT !["tasks"].cancelled = TRUE]
  /\ To("disconnect")
  /\ UNCHANGED <<app, task, link, dial, adapter, hurt, session, pc>>

DisconnectPeers ==
  /\ stop.at = "disconnect"
  /\ DisconnectAll
  /\ To("drain")
  /\ UNCHANGED <<app, reg, task, dial, adapter, hurt, session, pc>>

(* join: close, take handles and failures; await them all; take the        *)
(* failures reported meanwhile.                                            *)
JoinTakes(q, from, to) ==
  /\ stop.at = from
  /\ reg' = [reg EXCEPT ![q] = [Registry EXCEPT !.closed = TRUE, !.cancelled = TRUE]]
  /\ stop' = [stop EXCEPT !.at = to, !.waits = reg[q].handles, !.errs = @ \/ reg[q].failed]
  /\ UNCHANGED <<app, task, link, dial, adapter, hurt, session, pc>>

JoinAwaits(from, to) ==
  /\ stop.at = from
  /\ \A t \in stop.waits : Over(t)
  /\ stop' = [stop EXCEPT !.at = to, !.waits = {}, !.errs = @ \/ Panicked(stop.waits)]
  /\ task' = [t \in Task |-> IF t \in stop.waits THEN "none" ELSE task[t]]
  /\ UNCHANGED <<app, reg, link, dial, adapter, hurt, session, pc>>

\* mutant: the failures taken first are thought to be all
JoinReapsNothing(q, from, to) ==
  /\ stop.at = from
  /\ To(to)
  /\ UNCHANGED <<app, reg, task, link, dial, adapter, hurt, session, pc>>

JoinReaps(q, from, to) ==
  /\ stop.at = from
  /\ After(to, reg[q].failed)
  /\ reg' = [reg EXCEPT ![q].failed = FALSE]
  /\ UNCHANGED <<app, task, link, dial, adapter, hurt, session, pc>>

JoinWorkers ==
  \/ JoinTakes("tasks", "drain", "await")
  \/ JoinAwaits("await", "reap")
  \/ JoinReaps("tasks", "reap", IF RollingBack THEN "stores" ELSE "exit")

SendBpExit ==
  /\ stop.at = "exit"
  /\ DisconnectAll
  /\ bp' = IF bp = "run" THEN "exiting" ELSE bp
  /\ To("flush")
  /\ UNCHANGED <<app, sess, reg, task, dial, stopped, adapter, fence, hurt, pc>>

FlushTimesOut ==
  /\ stop.at = "flush" /\ bp = "exiting" /\ ~stopped
  /\ stopped' = TRUE
  /\ UNCHANGED <<app, sess, reg, task, link, dial, bp, adapter, fence, hurt, calls>>

JoinBp ==
  /\ stop.at = "flush" /\ bp \in {"done", "failed"}
  /\ After("stores", bp = "failed")
  /\ UNCHANGED <<app, reg, task, link, dial, adapter, hurt, session, pc>>

StopStores ==
  /\ stop.at = "stores"
  /\ stopped' = TRUE
  /\ To("seal")
  /\ UNCHANGED <<app, sess, reg, task, link, dial, bp, adapter, fence, hurt, pc>>

JoinCompletions ==
  \/ JoinTakes("completions", "seal", "settle")
  \/ JoinAwaits("settle", "collect")
  \/ JoinReaps("completions", "collect", IF RollingBack THEN "fence" ELSE "drop")

(* The managers' last owners: gone, or still there after five seconds.     *)
DropManagers ==
  /\ stop.at = "drop"
  /\ After("fence", adapter)
  /\ UNCHANGED <<app, reg, task, link, dial, adapter, hurt, session, pc>>

\* mutant: releases the fence after a failed cleanup
SettleFenceAlways ==
  /\ stop.at = "fence"
  /\ fence' = "free"
  /\ sess' = "none"
  /\ app' = IF RollingBack THEN [app EXCEPT !.changing = FALSE] ELSE app
  /\ To(IF RollingBack THEN "rest" ELSE "database")
  /\ UNCHANGED <<reg, task, link, dial, bp, stopped, adapter, hurt, pc>>

(* The release is a remote call whose outcome is not looked at: the fence   *)
(* may stay although the stop goes on without an error.                     *)
SettleFence ==
  /\ stop.at = "fence"
  /\ fence' \in IF stop.errs THEN {fence} ELSE {fence, "free"}
  /\ sess' = "none"
  /\ app' = IF RollingBack THEN [app EXCEPT !.changing = FALSE] ELSE app
  /\ To(IF RollingBack THEN "rest" ELSE "database")
  /\ UNCHANGED <<reg, task, link, dial, bp, stopped, adapter, hurt, pc>>

CloseDatabase ==
  /\ stop.at = "database"
  /\ \/ ~app.cancelled /\ To("record") /\ UNCHANGED app
     \/ app.cancelled /\ To("record") /\ app' = [app EXCEPT !.db = "closed"]
     \/ app.cancelled /\ After("record", TRUE) /\ UNCHANGED app
  /\ UNCHANGED <<reg, task, link, dial, adapter, hurt, session, pc>>

Result == IF stop.errs THEN "err" ELSE "ok"

ReturnFromStop ==
  /\ stop.at = "record"
  /\ app' = [app EXCEPT !.outcome = IF app.cancelled THEN Result ELSE @,
                        !.changing = IF stop.by \in Lock THEN FALSE ELSE @]
  /\ pc' = [pc EXCEPT ![stop.by] = Result]
  /\ To("rest")
  /\ UNCHANGED <<reg, task, link, dial, adapter, hurt, session>>

StopNode ==
  \/ TakeSession \/ CancelWorkers \/ DisconnectPeers \/ JoinWorkers
  \/ SendBpExit \/ FlushTimesOut \/ JoinBp
  \/ StopStores \/ JoinCompletions \/ DropManagers
  \/ SettleFence \/ CloseDatabase \/ ReturnFromStop

Dial(d) ==
  \/ Look(d) \/ NoPeer(d) \/ (\E k \in Conn : Connect(d, k))
  \/ HandOver(d) \/ KeepInline(d) \/ InlineEnds(d) \/ SeeCancelled(d)

Next ==
  \/ Unlock \/ Publish \/ StartFails
  \/ \E c \in Shut : Shutdown(c) \/ Waited(c)
  \/ \E c \in Lock : LockNode(c)
  \/ \E c \in Caller : EnterStop(c)
  \/ StopNode
  \/ \E w \in Loop : SpawnWorker(w)
  \/ \E m \in Completion : SpawnCompletion(m)
  \/ \E t \in Task : Return(t) \/ Panic(t)
  \/ \E k \in Conn : PeerLeaves(k) \/ ConnEnds(k)
  \/ AdapterLetsGo \/ BpFails \/ BpFlushed
  \/ \E d \in Dialer : Dial(d)
  \/ AcceptFails \/ RecordFailure \/ LastDisconnect

(* The runtime polls every ready future.  A loop is only sure to return    *)
(* once cancelled, a connection once its link is down, a completion and    *)
(* the BP's flush once the stores stopped retrying; peers owe nothing.     *)
(* SF: a dialer's spawn and a caller's turn wait for a mutex others take.  *)
Fairness ==
  /\ WF_vars(StopNode) /\ WF_vars(Publish \/ StartFails)
  /\ \A c \in Shut : WF_vars(Waited(c)) /\ SF_vars(EnterStop(c))
  /\ \A c \in Lock : SF_vars(EnterStop(c))
  /\ \A d \in Dialer : WF_vars(Dial(d))
  /\ WF_vars(RecordFailure) /\ WF_vars(LastDisconnect)
  /\ \A w \in Loop : WF_vars(reg["tasks"].cancelled /\ Return(w))
  /\ \A m \in Completion : WF_vars(stopped /\ Return(m))
  /\ \A k \in Conn : WF_vars(ConnEnds(k))
  /\ WF_vars(stopped /\ BpFlushed)

Spec == Init /\ [][Next]_vars /\ Fairness

-----------------------------------------------------------------------------
Quiet ==
  /\ \A t \in Task : ~Running(t)
  /\ \A k \in Conn : link[k] = "none"
  /\ ~BpAlive

(* stop_node and the startup rollback leave nothing behind: whenever no    *)
(* session exists, no worker, connection, completion or BP of an earlier   *)
(* one still runs, however late it was spawned.                            *)
NothingOutlivesTheSession == sess = "none" => Quiet

(* "Critical persistence and broadcast completions must remain admitted    *)
(* until final background-processor persistence has finished"              *)
(* (SIGNER-LIFECYCLE.md): the second registry refuses nothing while        *)
(* anything that produces completions is alive.                            *)
CompletionsStayAdmitted == reg["completions"].closed => ~Producing

(* The fence is handed to other devices only when nothing of this session  *)
(* can write any more and no part of it failed.                            *)
FenceNeedsCleanStop == fence = "free" => Quiet /\ ~hurt

(* No failure of an owned worker is lost on its way through reaping, the   *)
(* two takes and the awaits: the caller that tore the session down is told *)
(* Err if anything of it failed, or if the managers outlived it.  Ok says  *)
(* nothing of the fence, whose release may have failed unnoticed.          *)
FailureIsReported ==
  stop.took # None /\ pc[stop.took] = "ok" => ~hurt /\ ~adapter

(* A shutdown returns only after the terminal teardown is complete, even   *)
(* when another caller performs it: the host may then revoke the signer.   *)
ShutdownWaits ==
  \A c \in Shut : pc[c] \in {"ok", "err"} => app.cancelled /\ sess = "none" /\ Quiet

(* All terminal shutdowns are told the same outcome.                       *)
OneOutcome == \A c, d \in Shut : {pc[c], pc[d]} # {"ok", "err"}

(* The database is closed for good, after the last user of it, and never   *)
(* by a lock that no shutdown joined.                                      *)
ClosedDatabaseIsUnused ==
  app.db = "closed" => app.cancelled /\ sess = "none" /\ Quiet

(* A shutdown told Ok left the database closed, or the terminal teardown    *)
(* it was told of was performed by a lock that had passed the database      *)
(* before the shutdown came (CloseDatabase's look at the cancellation).     *)
OpenOnlyForALock ==
  \A c \in Shut : pc[c] = "ok" => app.db = "closed" \/ stop.by \in Lock

(* What a stop waits for can end without its peers: whoever raised          *)
(* changing_state is there to lower it, a worker in the join has been       *)
(* cancelled, its own link or the one it awaits inline is down (the         *)
(* dialer's disconnect after a refused spawn), the processor has been told  *)
(* to exit, and completions are awaited only once the stores gave up.       *)
WaitsCanEnd ==
  /\ app.changing => sess = "starting" \/ \E c \in Lock : pc[c] \in {"queue", "in"}
  /\ stop.at = "await" =>
       /\ reg["tasks"].closed /\ reg["tasks"].cancelled
       /\ \A k \in stop.waits \cap Conn : Running(k) => link[k] = "down"
       /\ \A d \in stop.waits \cap Dialer : At(d, "inline") => link[dial[d].conn] = "down"
  /\ stop.at = "flush" => bp \in {"exiting", "done", "failed"}
  /\ stop.at = "settle" => stopped

(* Every variable keeps its type; the fence, the outcome and the database   *)
(* are treated as a finished session demands; and no stop is stuck.         *)
SessionInv ==
  /\ TypeOK /\ FenceNeedsCleanStop /\ OneOutcome
  /\ ClosedDatabaseIsUnused /\ OpenOnlyForALock /\ WaitsCanEnd

(* A shutdown returns in the end, whatever the session was doing, with the *)
(* stores out of reach and peers that never leave of their own accord.     *)
ShutdownReturns == \A c \in Shut : pc[c] = "wait" ~> pc[c] \in {"ok", "err"}

(* "Terminal shutdown explicitly closes the metadata database pool"        *)
(* (SIGNER-LIFECYCLE.md): a shutdown that returned Ok left it closed.      *)
TerminalClosesDatabase == \A c \in Shut : pc[c] = "ok" => app.db = "closed"
=============================================================================
