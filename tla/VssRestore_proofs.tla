-------------------------- MODULE VssRestore_proofs --------------------------
(* The safety properties of VssRestore for any number of nodes, versions     *)
(* and faults.                                                               *)
EXTENDS VssRestore, SequenceTheorems, TLAPS

Unsynced(entry) == entry \in Range(pending)

(* Only what is in place waits for a sync.                                   *)
PendingInv ==
  /\ Unsynced("key") => key # None
  /\ Unsynced("wallet") => wallet # None

Staged == {"confirm", "key", "newkey", "keysync", "seal", "flush", "promote"}
Confirmed == {"key", "newkey", "keysync", "seal", "flush", "promote"}
Keyed == {"keysync", "seal", "flush", "promote"}

(* What a prepare has in its private directory, at each of its places.  The  *)
(* archive is no older than the version that was read before it, and no      *)
(* newer than the store's.                                                   *)
StageInv(n) ==
  /\ job[n].at \in Staged \cup {"extract"} => job[n].stage \in Wallet
  /\ job[n].at \in Staged => "files" \in job[n].stage.parts
  /\ job[n].at \in Staged \cup {"download", "extract", "settle"} => job[n].version > 0
  /\ job[n].at \in {"download", "extract", "confirm"} => job[n].version <= remote
  /\ job[n].at \in {"extract", "confirm"} => job[n].stage.content \in job[n].version..remote
  /\ job[n].at \in Confirmed => job[n].stage.content = job[n].version
  /\ job[n].at \in Keyed => job[n].stage.key = key /\ key # None
  /\ job[n].at \in {"flush", "promote"} =>
       job[n].stage.version = job[n].version /\ Parts \subseteq job[n].stage.parts
  /\ job[n].at = "promote" => Parts \subseteq job[n].stage.durable
  /\ job[n].at = "settle" => wallet # None /\ wallet.version = job[n].version

(* What holds of the wallet in place, and of what a power loss would leave.  *)
(* Its key is in place, and is never less durable than the wallet.           *)
WalletInv ==
  /\ wallet # None /\ wallet.key = None => wallet.version = 0
  /\ wallet # None /\ wallet.key # None =>
       /\ {"files", "receipt"} \subseteq wallet.parts /\ Parts \subseteq wallet.durable
       /\ wallet.version = wallet.content /\ wallet.version > 0
       /\ ~hist.checked => "marker" \in wallet.parts
       /\ OrderedRenames => wallet.key = key
       /\ OrderedRenames /\ Unsynced("key") => pending = <<"key", "wallet">>

AnswerInv ==
  \A n \in Nodes : answer[n].unlocked => node[n] = "unlocked" /\ hist.checked /\ wallet # None

AckInv == hist.acked > 0 => wallet # None /\ wallet.version = hist.acked /\ ~Unsynced("wallet")

RestoreInv ==
  /\ TypeOK
  /\ PendingInv
  /\ \A n \in Nodes : StageInv(n)
  /\ WalletInv
  /\ AnswerInv
  /\ AckInv

-----------------------------------------------------------------------------
(* The renames that wait for a sync.                                         *)

LEMMA Ranges ==
  /\ Range(<<>>) = {}
  /\ Range(<<"key">>) = {"key"} /\ Range(<<"wallet">>) = {"wallet"}
  /\ Range(<<"key", "wallet">>) = {"key", "wallet"}
  /\ Range(<<"wallet", "key">>) = {"key", "wallet"}
<1>1. Range(<<>>) = {}
  BY DEF Range
<1>2. Range(<<"key">>) = {"key"} /\ Range(<<"wallet">>) = {"wallet"}
  BY DEF Range
<1>3. Range(<<"key", "wallet">>) = {"key", "wallet"}
  BY DEF Range
<1>4. Range(<<"wallet", "key">>) = {"key", "wallet"}
  BY DEF Range
<1> QED
  BY <1>1, <1>2, <1>3, <1>4

LEMMA PairAppend ==
  ASSUME NEW a \in {"key", "wallet"}, NEW b \in {"key", "wallet"}
  PROVE  Append(<<a>>, b) = <<a, b>>
<1> DEFINE S == {"key", "wallet"}
<1>1. <<a>> \in Seq(S) /\ <<a, b>> \in Seq(S) /\ Len(<<a>>) = 1 /\ Len(<<a, b>>) = 2
  OBVIOUS
<1>2. /\ Append(<<a>>, b) \in Seq(S) /\ Len(Append(<<a>>, b)) = 2
      /\ Append(<<a>>, b)[1] = a /\ Append(<<a>>, b)[2] = b
  BY <1>1, AppendProperties
<1>3. \A i \in 1..2 : Append(<<a>>, b)[i] = <<a, b>>[i]
  BY <1>2
<1> QED
  BY <1>1, <1>2, <1>3, SeqEqual

LEMMA Appends ==
  ASSUME TypeOK
  PROVE  /\ ~Unsynced("key") => /\ Append(pending, "key") \in {<<"key">>, <<"wallet", "key">>}
                                /\ Range(Append(pending, "key")) = Range(pending) \cup {"key"}
         /\ ~Unsynced("wallet") => /\ Append(pending, "wallet") \in {<<"wallet">>, <<"key", "wallet">>}
                                   /\ Range(Append(pending, "wallet")) = Range(pending) \cup {"wallet"}
<1> USE Ranges DEF Unsynced
<1>1. pending \in {<<>>, <<"key">>, <<"wallet">>, <<"key", "wallet">>, <<"wallet", "key">>}
  BY DEF TypeOK
<1>2. CASE pending = <<>>
  BY <1>2
<1>3. CASE pending = <<"key">>
  <2>1. Append(<<"key">>, "wallet") = <<"key", "wallet">>
    BY PairAppend
  <2> QED
    BY <1>3, <2>1
<1>4. CASE pending = <<"wallet">>
  <2>1. Append(<<"wallet">>, "key") = <<"wallet", "key">>
    BY PairAppend
  <2> QED
    BY <1>4, <2>1
<1>5. CASE pending \in {<<"key", "wallet">>, <<"wallet", "key">>}
  BY <1>5
<1> QED
  BY <1>1, <1>2, <1>3, <1>4, <1>5

(* A power loss keeps some of the renames, and the later one only with the   *)
(* earlier one when they are ordered.                                        *)
LEMMA SurvivorsAreUnsynced ==
  ASSUME TypeOK, NEW kept \in Survivors
  PROVE  /\ kept \subseteq Range(pending)
         /\ OrderedRenames /\ pending = <<"key", "wallet">> /\ "wallet" \in kept => "key" \in kept
<1>1. CASE ~OrderedRenames
  BY <1>1 DEF Survivors
<1>2. CASE OrderedRenames
  <2>1. PICK i \in 0..Len(pending) : kept = Range(SubSeq(pending, 1, i))
    BY <1>2 DEF Survivors
  <2>2. pending \in Seq({"key", "wallet"})
    <3>1. /\ <<>> \in Seq({"key", "wallet"})
          /\ <<"key">> \in Seq({"key", "wallet"}) /\ <<"wallet">> \in Seq({"key", "wallet"})
          /\ <<"key", "wallet">> \in Seq({"key", "wallet"})
          /\ <<"wallet", "key">> \in Seq({"key", "wallet"})
      OBVIOUS
    <3> QED
      BY <3>1 DEF TypeOK
  <2>3. /\ DOMAIN SubSeq(pending, 1, i) = 1..i
        /\ \A x \in 1..i : SubSeq(pending, 1, i)[x] = pending[x] /\ x \in DOMAIN pending
    BY <2>1, <2>2
  <2>4. kept = {pending[x] : x \in 1..i}
    BY <2>1, <2>3 DEF Range
  <2>5. kept \subseteq Range(pending)
    BY <2>3, <2>4 DEF Range
  <2>6. ASSUME pending = <<"key", "wallet">>, "wallet" \in kept PROVE "key" \in kept
    <3>1. PICK x \in 1..i : pending[x] = "wallet"
      BY <2>4, <2>6
    <3>2. x # 1
      BY <3>1, <2>6
    <3>3. 1 \in 1..i /\ pending[1] = "key"
      BY <3>2, <2>1, <2>6
    <3> QED
      BY <3>3, <2>4
  <2> QED
    BY <2>5, <2>6
<1> QED
  BY <1>1, <1>2

-----------------------------------------------------------------------------
(* The invariant.                                                            *)

LEMMA RestoreInit == Init => RestoreInv
<1> SUFFICES ASSUME Init PROVE RestoreInv
  OBVIOUS
<1>1. Range(pending) = {}
  BY Ranges DEF Init
<1>2. TypeOK
  BY ConstantsAssumption DEF Init, TypeOK, Idle, Silent, Reply, Version, Places, Job, Answer
<1>3. PendingInv /\ WalletInv /\ AckInv /\ AnswerInv
  BY <1>1 DEF Init, PendingInv, WalletInv, AckInv, AnswerInv, Unsynced, Silent, Reply
<1>4. \A n \in Nodes : StageInv(n)
  BY DEF Init, StageInv, Idle, Staged, Confirmed, Keyed
<1> QED
  BY <1>2, <1>3, <1>4 DEF RestoreInv

(* A step of n that touches neither the storage nor another node keeps the   *)
(* invariant when it keeps n's part of it.                                   *)
LEMMA PrivateStep ==
  ASSUME RestoreInv, TypeOK', NEW n \in Nodes, UNCHANGED <<remote, storage, hist>>,
         \A m \in Nodes \ {n} : job'[m] = job[m] /\ answer'[m] = answer[m] /\ node'[m] = node[m],
         StageInv(n)',
         answer'[n].unlocked => node'[n] = "unlocked" /\ hist.checked /\ wallet # None
  PROVE  RestoreInv'
<1> USE DEF RestoreInv, storage
<1>1. PendingInv'
  BY DEF PendingInv, Unsynced
<1>2. WalletInv' /\ AckInv'
  BY DEF WalletInv, AckInv, Unsynced
<1>3. AnswerInv'
  BY DEF AnswerInv
<1>4. ASSUME NEW m \in Nodes PROVE StageInv(m)'
  <2>1. CASE m = n
    BY <2>1
  <2>2. CASE m # n
    BY <2>2 DEF StageInv
  <2> QED
    BY <2>1, <2>2
<1> QED
  BY <1>1, <1>2, <1>3, <1>4

(* How a job changes.                                                        *)
LEMMA JobMoves ==
  ASSUME TypeOK, NEW n \in Nodes, NEW at \in Places, job' = [job EXCEPT ![n].at = at]
  PROVE  /\ job' \in [Nodes -> Job]
         /\ job'[n].at = at /\ job'[n].version = job[n].version /\ job'[n].stage = job[n].stage
         /\ \A m \in Nodes \ {n} : job'[m] = job[m]
  BY DEF TypeOK, Job

LEMMA Returns ==
  ASSUME TypeOK, NEW n \in Nodes, NEW what \in {"error", "not_found", "restored", "null", "info"},
         NEW version \in Version, NEW unlocked \in BOOLEAN, Return(n, Reply(what, version, unlocked))
  PROVE  /\ job' \in [Nodes -> Job] /\ answer' \in [Nodes -> Answer]
         /\ job'[n].at = "idle" /\ answer'[n].unlocked = unlocked
         /\ \A m \in Nodes \ {n} : job'[m] = job[m] /\ answer'[m] = answer[m]
<1>1. Idle \in Job /\ Reply(what, version, unlocked) \in Answer
  BY ConstantsAssumption DEF Idle, Job, Places, Version, Reply, Answer
<1> QED
  BY <1>1 DEF TypeOK, Return, Idle, Reply

(* Nothing is staged by an idle job.                                         *)
LEMMA IdleStage == \A n : job[n].at \in {"idle", "scan", "version"} => StageInv(n)
  BY DEF StageInv, Staged, Confirmed, Keyed

LEMMA RefusedStep ==
  ASSUME RestoreInv, NEW n \in Nodes, Refuse(n), UNCHANGED <<remote, storage, node, hist>>,
         faults' \in 0..MaxFaults
  PROVE  RestoreInv'
<1>1. TypeOK /\ 0 \in Version
  BY ConstantsAssumption DEF RestoreInv, Version
<1>2. /\ job' \in [Nodes -> Job] /\ answer' \in [Nodes -> Answer]
      /\ job'[n].at = "idle" /\ answer'[n].unlocked = FALSE
      /\ \A m \in Nodes \ {n} : job'[m] = job[m] /\ answer'[m] = answer[m]
  BY <1>1, Returns DEF Refuse
<1>3. TypeOK'
  BY <1>1, <1>2 DEF TypeOK, storage
<1>4. StageInv(n)'
  BY <1>2 DEF StageInv, Staged, Confirmed, Keyed
<1> QED
  BY <1>2, <1>3, <1>4, PrivateStep

(* A prepare that goes on, staging something or not.                         *)
LEMMA GoneOn ==
  ASSUME RestoreInv, NEW n \in Nodes, UNCHANGED <<remote, storage, node, answer, faults, hist>>,
         job' \in [Nodes -> Job], \A m \in Nodes \ {n} : job'[m] = job[m], StageInv(n)'
  PROVE  RestoreInv'
<1>1. TypeOK'
  BY DEF RestoreInv, TypeOK, storage
<1>2. answer'[n].unlocked => node'[n] = "unlocked" /\ hist.checked /\ wallet # None
  BY DEF RestoreInv, AnswerInv
<1> QED
  BY <1>1, <1>2, PrivateStep

LEMMA StagedJob ==
  ASSUME TypeOK, NEW n \in Nodes, NEW stage \in Wallet, NEW at \in Places,
         Stage(n, at, stage)
  PROVE  /\ job' \in [Nodes -> Job] /\ answer' = answer
         /\ job'[n].at = at /\ job'[n].version = job[n].version /\ job'[n].stage = stage
         /\ \A m \in Nodes \ {n} : job'[m] = job[m]
  BY DEF TypeOK, Job, Stage

LEMMA PrepareStep ==
  ASSUME RestoreInv, NEW n \in Nodes,
         \/ Prepare(n) \/ Scan(n) \/ ReadVersion(n) \/ Download(n) \/ Extract(n)
         \/ ConfirmVersion(n) \/ TakeKey(n) \/ Seal(n) \/ Flush(n) \/ Fail(n)
  PROVE  RestoreInv'
<1> USE DEF RestoreInv
<1>0. TypeOK /\ StageInv(n) /\ 0 \in Version /\ job[n] \in Job /\ key \in Nodes \cup {None}
      /\ remote \in Version /\ faults \in 0..MaxFaults /\ Version \subseteq Nat
      /\ job[n].version \in Version
  BY ConstantsAssumption DEF TypeOK, Version, Job
<1>1. CASE Refuse(n)
  <2>1. CASE Fail(n)
    <3>1. UNCHANGED <<remote, storage, node, hist>> /\ faults' \in 0..MaxFaults
      BY <1>0, <2>1, ConstantsAssumption DEF Fail
    <3> QED
      BY <1>1, <3>1, RefusedStep
  <2>2. CASE ~Fail(n)
    <3>1. UNCHANGED <<remote, storage, node, hist, faults>>
      BY <2>2 DEF Prepare, Scan, ReadVersion, Download, Extract, ConfirmVersion,
         TakeKey, Seal, Flush
    <3> QED
      BY <1>0, <1>1, <3>1, RefusedStep
  <2> QED
    BY <2>1, <2>2
<1>2. CASE Prepare(n) /\ ~Refuse(n)
  <2>1. CASE job' = [job EXCEPT ![n].at = "scan"] /\ answer' = [answer EXCEPT ![n] = Silent]
    <3>1. UNCHANGED <<remote, storage, node, faults, hist>>
      BY <1>2 DEF Prepare
    <3>2. "scan" \in Places /\ Silent \in Answer /\ ~Silent.unlocked
      BY <1>0 DEF Places, Silent, Reply, Answer
    <3>3. /\ job' \in [Nodes -> Job] /\ job'[n].at = "scan"
          /\ \A m \in Nodes \ {n} : job'[m] = job[m]
      BY <1>0, <2>1, <3>2, JobMoves
    <3>4. TypeOK'
      BY <1>0, <2>1, <3>1, <3>2, <3>3 DEF TypeOK, storage
    <3>5. StageInv(n)'
      BY <3>3 DEF StageInv, Staged, Confirmed, Keyed
    <3>6. /\ \A m \in Nodes \ {n} : answer'[m] = answer[m] /\ node'[m] = node[m]
          /\ ~answer'[n].unlocked
      BY <1>0, <2>1, <3>1, <3>2 DEF TypeOK
    <3> QED
      BY <3>1, <3>3, <3>4, <3>5, <3>6, PrivateStep
  <2>2. CASE Verifies /\ Return(n, Reply("restored", wallet.version, FALSE))
    <3>1. UNCHANGED <<remote, storage, node, faults, hist>>
      BY <1>2 DEF Prepare
    <3>2. wallet.version \in Version
      BY <1>0, <2>2 DEF Verifies, TypeOK, Wallet
    <3>3. /\ job' \in [Nodes -> Job] /\ answer' \in [Nodes -> Answer]
          /\ job'[n].at = "idle" /\ ~answer'[n].unlocked
          /\ \A m \in Nodes \ {n} : job'[m] = job[m] /\ answer'[m] = answer[m]
      BY <1>0, <2>2, <3>2, Returns
    <3>4. TypeOK'
      BY <1>0, <3>1, <3>3 DEF TypeOK, storage
    <3>5. StageInv(n)'
      BY <3>3 DEF StageInv, Staged, Confirmed, Keyed
    <3> QED
      BY <3>1, <3>3, <3>4, <3>5, PrivateStep
  <2> QED
    BY <1>2, <2>1, <2>2 DEF Prepare
<1>3. CASE Scan(n) /\ ~Refuse(n)
  <2>1. job' = [job EXCEPT ![n].at = "version"] /\ "version" \in Places
    BY <1>3 DEF Scan, Goto, Places
  <2>2. TypeOK
    BY <1>0 DEF RestoreInv
  <2>3. job'[n].at = "version"
    BY <2>1, <2>2, JobMoves
  <2>4. StageInv(n)'
    BY <2>3 DEF StageInv, Staged, Confirmed, Keyed
  <2> QED
    BY <1>0, <1>3, <2>1, <2>4, JobMoves, GoneOn DEF Scan, Goto
<1>4. CASE ReadVersion(n) /\ ~Refuse(n)
  <2>1. CASE remote = 0
    <3>1. Return(n, Reply("not_found", 0, FALSE)) /\ UNCHANGED <<remote, storage, node, faults, hist>>
      BY <1>4, <2>1 DEF ReadVersion
    <3>2. /\ job' \in [Nodes -> Job] /\ answer' \in [Nodes -> Answer]
          /\ job'[n].at = "idle" /\ ~answer'[n].unlocked
          /\ \A m \in Nodes \ {n} : job'[m] = job[m] /\ answer'[m] = answer[m]
      BY <1>0, <3>1, Returns
    <3>3. TypeOK'
      BY <1>0, <3>1, <3>2 DEF TypeOK, storage
    <3>4. StageInv(n)'
      BY <3>2 DEF StageInv, Staged, Confirmed, Keyed
    <3> QED
      BY <3>1, <3>2, <3>3, <3>4, PrivateStep
  <2>2. CASE remote # 0
    <3>1. job' = [job EXCEPT ![n] = [at |-> "download", version |-> remote, stage |-> None]]
      BY <1>4, <2>2 DEF ReadVersion
    <3>2. [at |-> "download", version |-> remote, stage |-> None] \in Job
      BY <1>0 DEF Job, Places
    <3>3. job' \in [Nodes -> Job] /\ \A m \in Nodes \ {n} : job'[m] = job[m]
      BY <1>0, <3>1, <3>2 DEF TypeOK
    <3>4. /\ job'[n].at = "download" /\ job'[n].version = remote
          /\ remote \in Nat /\ remote > 0 /\ remote' = remote
      BY <1>0, <1>4, <2>2, <3>1 DEF ReadVersion, TypeOK
    <3>5. StageInv(n)'
      BY <3>4 DEF StageInv, Staged, Confirmed, Keyed
    <3> QED
      BY <1>4, <2>2, <3>3, <3>5, GoneOn DEF ReadVersion
  <2> QED
    BY <2>1, <2>2
<1>5. CASE Download(n)
  <2> DEFINE stage == [version |-> 0, content |-> remote, key |-> None, parts |-> {}, durable |-> {}]
  <2>1. stage \in Wallet /\ "extract" \in Places
    BY <1>0 DEF Wallet, Places
  <2>2. Stage(n, "extract", stage)
    BY <1>5 DEF Download
  <2> HIDE DEF stage
  <2>3. job'[n].at = "extract" /\ job'[n].version = job[n].version /\ job'[n].stage = stage
    BY <1>0, <2>1, <2>2, StagedJob
  <2>4. stage.content = remote /\ job[n].version \in Nat /\ remote \in Nat /\ remote' = remote
    BY <1>0, <1>5 DEF Download, stage
  <2>5. StageInv(n)'
    BY <1>0, <1>5, <2>1, <2>3, <2>4 DEF Download, StageInv, Staged, Confirmed, Keyed
  <2> QED
    BY <1>0, <1>5, <2>1, <2>2, <2>5, StagedJob, GoneOn DEF Download
<1>10. CASE Extract(n)
  <2> DEFINE stage == [job[n].stage EXCEPT !.parts = {"files"}]
  <2>1. job[n].stage \in Wallet
    BY <1>0, <1>10 DEF Extract, StageInv
  <2>2. /\ stage \in Wallet /\ "files" \in stage.parts /\ stage.content = job[n].stage.content
        /\ "confirm" \in Places
    BY <2>1 DEF Wallet, Places, Parts
  <2>3. Stage(n, "confirm", stage)
    BY <1>10 DEF Extract
  <2> HIDE DEF stage
  <2>4. job'[n].at = "confirm" /\ job'[n].version = job[n].version /\ job'[n].stage = stage
    BY <1>0, <2>2, <2>3, StagedJob
  <2>5. StageInv(n)'
    BY <1>0, <1>10, <2>2, <2>4 DEF Extract, StageInv, Staged, Confirmed, Keyed
  <2> QED
    BY <1>0, <1>10, <2>2, <2>3, <2>5, StagedJob, GoneOn DEF Extract
<1>6. CASE ConfirmVersion(n) /\ ~Refuse(n)
  <2>1. job' = [job EXCEPT ![n].at = "key"] /\ "key" \in Places
    BY <1>6 DEF ConfirmVersion, Goto, Places
  <2>2. /\ job'[n].at = "key" /\ job'[n].version = job[n].version /\ job'[n].stage = job[n].stage
    BY <1>0, <2>1, JobMoves
  <2>3. job[n].at = "confirm" /\ remote = job[n].version /\ UNCHANGED <<key, wallet>>
    BY <1>6 DEF ConfirmVersion, storage
  <2>4. job[n].stage.content = job[n].version
    BY <1>0, <2>3 DEF StageInv
  <2>5. StageInv(n)'
    BY <1>0, <2>2, <2>3, <2>4 DEF StageInv, Staged, Confirmed, Keyed
  <2> QED
    BY <1>0, <1>6, <2>1, <2>5, JobMoves, GoneOn DEF ConfirmVersion, Goto
<1>7. CASE TakeKey(n) /\ ~Refuse(n)
  <2>1. CASE key = None
    <3>1. job' = [job EXCEPT ![n].at = "newkey"] /\ "newkey" \in Places
      BY <1>7, <2>1 DEF TakeKey, Goto, Places
    <3>2. /\ job'[n].at = "newkey" /\ job'[n].version = job[n].version /\ job'[n].stage = job[n].stage
      BY <1>0, <3>1, JobMoves
    <3>3. StageInv(n)'
      BY <1>0, <1>7, <3>2 DEF TakeKey, StageInv, Staged, Confirmed, Keyed, storage
    <3> QED
      BY <1>0, <1>7, <2>1, <3>1, <3>3, JobMoves, GoneOn DEF TakeKey, Goto
  <2>2. CASE key # None
    <3> DEFINE stage == [job[n].stage EXCEPT !.key = key]
    <3>1. job[n].stage \in Wallet
      BY <1>0, <1>7 DEF TakeKey, StageInv, Staged
    <3>2. /\ stage \in Wallet /\ stage.key = key /\ stage.content = job[n].stage.content
          /\ stage.parts = job[n].stage.parts /\ "seal" \in Places
      BY <1>0, <3>1 DEF Wallet, Places
    <3>3. Stage(n, "seal", stage)
      BY <1>7, <2>2 DEF TakeKey
    <3> HIDE DEF stage
    <3>4. job'[n].at = "seal" /\ job'[n].version = job[n].version /\ job'[n].stage = stage
      BY <1>0, <3>2, <3>3, StagedJob
    <3>5. StageInv(n)'
      BY <1>0, <1>7, <2>2, <3>2, <3>4 DEF TakeKey, StageInv, Staged, Confirmed, Keyed, storage
    <3> QED
      BY <1>0, <1>7, <2>2, <3>2, <3>3, <3>5, StagedJob, GoneOn DEF TakeKey
  <2> QED
    BY <2>1, <2>2
<1>8. CASE Seal(n)
  <2> DEFINE stage == [job[n].stage EXCEPT !.version = job[n].version,
                                         !.parts = @ \cup {"receipt", "marker"}]
  <2>1. job[n].stage \in Wallet
    BY <1>0, <1>8 DEF Seal, StageInv, Staged
  <2>2. /\ stage \in Wallet /\ stage.version = job[n].version /\ stage.key = job[n].stage.key
        /\ stage.content = job[n].stage.content
        /\ stage.parts = job[n].stage.parts \cup {"receipt", "marker"} /\ "flush" \in Places
    BY <1>0, <2>1 DEF Wallet, Places, Parts
  <2>3. Stage(n, "flush", stage)
    BY <1>8 DEF Seal
  <2> HIDE DEF stage
  <2>4. job'[n].at = "flush" /\ job'[n].version = job[n].version /\ job'[n].stage = stage
    BY <1>0, <2>2, <2>3, StagedJob
  <2>5. Parts \subseteq stage.parts
    BY <1>0, <1>8, <2>2 DEF Seal, StageInv, Staged, Parts
  <2>6. StageInv(n)'
    BY <1>0, <1>8, <2>2, <2>4, <2>5 DEF Seal, StageInv, Staged, Confirmed, Keyed, storage
  <2> QED
    BY <1>0, <1>8, <2>2, <2>3, <2>6, StagedJob, GoneOn DEF Seal
<1>9. CASE Flush(n) /\ ~Refuse(n)
  <2> DEFINE stage == [job[n].stage EXCEPT !.durable = job[n].stage.parts]
  <2>1. job[n].stage \in Wallet
    BY <1>0, <1>9 DEF Flush, StageInv, Staged
  <2>2. /\ stage \in Wallet /\ stage.version = job[n].stage.version /\ stage.key = job[n].stage.key
        /\ stage.content = job[n].stage.content /\ stage.parts = job[n].stage.parts
        /\ stage.durable = stage.parts /\ "promote" \in Places
    BY <1>0, <2>1 DEF Wallet, Places
  <2>3. Stage(n, "promote", stage)
    BY <1>9 DEF Flush
  <2> HIDE DEF stage
  <2>4. job'[n].at = "promote" /\ job'[n].version = job[n].version /\ job'[n].stage = stage
    BY <1>0, <2>2, <2>3, StagedJob
  <2>5. StageInv(n)'
    BY <1>0, <1>9, <2>2, <2>4 DEF Flush, StageInv, Staged, Confirmed, Keyed, storage
  <2> QED
    BY <1>0, <1>9, <2>2, <2>3, <2>5, StagedJob, GoneOn DEF Flush
<1> QED
  BY <1>1, <1>2, <1>3, <1>4, <1>5, <1>6, <1>7, <1>8, <1>9, <1>10 DEF Fail

-----------------------------------------------------------------------------
(* The steps that change the storage directory.                              *)

LEMMA PublishStep == ASSUME RestoreInv, NEW n \in Nodes, PublishKey(n) PROVE RestoreInv'
<1> USE DEF RestoreInv
<1>0. /\ TypeOK /\ StageInv(n) /\ job[n].at = "newkey" /\ job[n].stage \in Wallet
      /\ UNCHANGED <<remote, wallet, node, answer, faults, hist>>
  BY DEF PublishKey, Stage, StageInv, Staged
<1>1. CASE key = None
  <2> DEFINE stage == [job[n].stage EXCEPT !.key = n]
  <2>1. key' = n /\ pending' = Append(pending, "key") /\ Stage(n, "keysync", stage)
    BY <1>1 DEF PublishKey, Renamed
  <2>2. ~Unsynced("key")
    BY <1>1 DEF PendingInv
  <2>3. /\ pending' \in {<<"key">>, <<"wallet", "key">>}
        /\ Range(pending') = Range(pending) \cup {"key"}
    BY <1>0, <2>1, <2>2, Appends
  <2>4. /\ stage \in Wallet /\ stage.key = n /\ stage.content = job[n].stage.content
        /\ stage.parts = job[n].stage.parts /\ "keysync" \in Places
    BY <1>0 DEF Wallet, Places
  <2> HIDE DEF stage
  <2>5. /\ job' \in [Nodes -> Job] /\ job'[n].at = "keysync"
        /\ job'[n].version = job[n].version /\ job'[n].stage = stage
        /\ \A m \in Nodes \ {n} : job'[m] = job[m]
    BY <1>0, <2>1, <2>4, StagedJob
  <2>6. TypeOK'
    BY <1>0, <2>1, <2>3, <2>5 DEF TypeOK
  <2>7. PendingInv' /\ AckInv' /\ AnswerInv'
    BY <1>0, <2>1, <2>3, ConstantsAssumption DEF PendingInv, AckInv, AnswerInv, Unsynced
  <2>8. ASSUME NEW m \in Nodes PROVE StageInv(m)'
    <3>1. CASE m = n
      BY <1>0, <2>1, <2>4, <2>5, <3>1, ConstantsAssumption DEF StageInv, Staged, Confirmed, Keyed
    <3>2. CASE m # n
      BY <1>0, <1>1, <2>5, <3>2 DEF StageInv, Staged, Confirmed, Keyed
    <3> QED
      BY <3>1, <3>2
  <2>9. WalletInv'
    <3>1. wallet # None /\ wallet.key # None => ~OrderedRenames
      BY <1>1 DEF WalletInv
    <3> QED
      BY <1>0, <3>1 DEF WalletInv
  <2> QED
    BY <2>6, <2>7, <2>8, <2>9
<1>2. CASE key # None
  <2> DEFINE stage == [job[n].stage EXCEPT !.key = key]
  <2>1. Stage(n, "seal", stage) /\ UNCHANGED <<key, pending>>
    BY <1>2 DEF PublishKey
  <2>2. /\ stage \in Wallet /\ stage.key = key /\ stage.content = job[n].stage.content
        /\ stage.parts = job[n].stage.parts /\ "seal" \in Places
    BY <1>0 DEF Wallet, Places, TypeOK
  <2> HIDE DEF stage
  <2>3. /\ job' \in [Nodes -> Job] /\ job'[n].at = "seal"
        /\ job'[n].version = job[n].version /\ job'[n].stage = stage
        /\ \A m \in Nodes \ {n} : job'[m] = job[m]
    BY <1>0, <2>1, <2>2, StagedJob
  <2>4. StageInv(n)'
    BY <1>0, <1>2, <2>1, <2>2, <2>3 DEF StageInv, Staged, Confirmed, Keyed
  <2> QED
    BY <1>0, <2>1, <2>3, <2>4, GoneOn DEF storage
<1> QED
  BY <1>1, <1>2

LEMMA SyncStep == ASSUME RestoreInv, NEW n \in Nodes, SyncKey(n) \/ Settle(n) PROVE RestoreInv'
<1> USE DEF RestoreInv
<1>0. /\ TypeOK /\ StageInv(n) /\ pending' = <<>> /\ Range(pending') = {}
      /\ job[n] \in Job /\ job[n].version \in Version
      /\ UNCHANGED <<remote, key, wallet, node, faults>>
  BY Ranges DEF SyncKey, Settle, SyncBase, TypeOK, Job
<1>1. CASE SyncKey(n)
  <2>1. job' = [job EXCEPT ![n].at = "seal"] /\ "seal" \in Places /\ UNCHANGED <<answer, hist>>
    BY <1>1 DEF SyncKey, Goto, Places
  <2>2. /\ job' \in [Nodes -> Job] /\ job'[n].at = "seal"
        /\ job'[n].version = job[n].version /\ job'[n].stage = job[n].stage
        /\ \A m \in Nodes \ {n} : job'[m] = job[m]
    BY <1>0, <2>1, JobMoves
  <2>3. TypeOK'
    BY <1>0, <2>1, <2>2 DEF TypeOK
  <2>4. PendingInv' /\ AckInv' /\ AnswerInv' /\ WalletInv'
    BY <1>0, <2>1 DEF PendingInv, AckInv, AnswerInv, WalletInv, Unsynced
  <2>5. ASSUME NEW m \in Nodes PROVE StageInv(m)'
    BY <1>0, <1>1, <2>2 DEF SyncKey, StageInv, Staged, Confirmed, Keyed
  <2> QED
    BY <2>3, <2>4, <2>5
<1>2. CASE Settle(n)
  <2>1. Return(n, Reply("restored", job[n].version, FALSE))
    BY <1>2 DEF Settle
  <2>2. /\ job' \in [Nodes -> Job] /\ answer' \in [Nodes -> Answer]
        /\ job'[n].at = "idle" /\ answer'[n].unlocked = FALSE
        /\ \A m \in Nodes \ {n} : job'[m] = job[m] /\ answer'[m] = answer[m]
    BY <1>0, <2>1, Returns
  <2>3. hist' = [hist EXCEPT !.acked = job[n].version]
    BY <1>2 DEF Settle
  <2>4. hist'.acked = job[n].version /\ hist'.checked = hist.checked
        /\ hist' \in [acked : Version, checked : BOOLEAN]
    BY <1>0, <2>3 DEF TypeOK
  <2>5. TypeOK'
    BY <1>0, <2>2, <2>4 DEF TypeOK
  <2>6. PendingInv' /\ AnswerInv' /\ WalletInv'
    BY <1>0, <2>2, <2>4 DEF PendingInv, AnswerInv, WalletInv, Unsynced
  <2>7. AckInv'
    BY <1>0, <1>2, <2>4 DEF Settle, StageInv, AckInv, Unsynced
  <2>8. ASSUME NEW m \in Nodes PROVE StageInv(m)'
    BY <1>0, <2>2 DEF StageInv, Staged, Confirmed, Keyed
  <2> QED
    BY <2>5, <2>6, <2>7, <2>8
<1> QED
  BY <1>1, <1>2

LEMMA PromoteStep == ASSUME RestoreInv, NEW n \in Nodes, Promote(n) PROVE RestoreInv'
<1> USE DEF RestoreInv
<1>0. /\ TypeOK /\ StageInv(n) /\ job[n].at = "promote" /\ job[n].stage \in Wallet
      /\ UNCHANGED <<remote, key, node, faults>>
  BY DEF Promote, StageInv, Staged
<1>1. CASE wallet # None
  <2>1. Refuse(n) /\ UNCHANGED <<remote, storage, node, hist>> /\ faults' \in 0..MaxFaults
    BY <1>0, <1>1 DEF Promote, storage, TypeOK
  <2> QED
    BY <2>1, RefusedStep
<1>2. CASE wallet = None
  <2>1. /\ wallet' = job[n].stage /\ pending' = Append(pending, "wallet")
        /\ hist' = [hist EXCEPT !.checked = FALSE]
        /\ job' = [job EXCEPT ![n].at = "settle"] /\ "settle" \in Places /\ UNCHANGED answer
    BY <1>2 DEF Promote, Renamed, Goto, Places
  <2>2. ~Unsynced("wallet")
    BY <1>2 DEF PendingInv
  <2>3. /\ pending' \in {<<"wallet">>, <<"key", "wallet">>}
        /\ Range(pending') = Range(pending) \cup {"wallet"}
    BY <1>0, <2>1, <2>2, Appends
  <2>4. /\ job' \in [Nodes -> Job] /\ job'[n].at = "settle"
        /\ job'[n].version = job[n].version /\ job'[n].stage = job[n].stage
        /\ \A m \in Nodes \ {n} : job'[m] = job[m]
    BY <1>0, <2>1, JobMoves
  <2>5. hist' \in [acked : Version, checked : BOOLEAN] /\ hist'.acked = hist.acked /\ ~hist'.checked
    BY <1>0, <2>1 DEF TypeOK
  <2>6. wallet' # None
    BY <1>0, <2>1, NoneAssumption
  <2>8. TypeOK'
    BY <1>0, <2>1, <2>3, <2>4, <2>5 DEF TypeOK
  <2>9. PendingInv' /\ AckInv' /\ AnswerInv'
    BY <1>0, <1>2, <2>1, <2>3, <2>5, <2>6 DEF PendingInv, AckInv, AnswerInv, Unsynced
  <2>10. ASSUME NEW m \in Nodes PROVE StageInv(m)'
    <3>1. CASE m = n
      BY <1>0, <2>1, <2>4, <2>6, <3>1 DEF StageInv, Staged, Confirmed, Keyed
    <3>2. CASE m # n
      BY <1>0, <1>2, <2>4, <3>2 DEF StageInv, Staged, Confirmed, Keyed
    <3> QED
      BY <3>1, <3>2
  <2>11. WalletInv'
    <3>1. /\ wallet'.key = key' /\ key' # None
          /\ {"files", "receipt"} \subseteq wallet'.parts /\ Parts \subseteq wallet'.durable
          /\ wallet'.version = wallet'.content /\ wallet'.version > 0 /\ "marker" \in wallet'.parts
      BY <1>0, <2>1 DEF StageInv, Staged, Confirmed, Keyed, Parts
    <3>2. Unsynced("key")' => pending' = <<"key", "wallet">>
      BY <2>3, Ranges DEF Unsynced
    <3> QED
      BY <3>1, <3>2 DEF WalletInv
  <2> QED
    BY <2>8, <2>9, <2>10, <2>11
<1> QED
  BY <1>1, <1>2

-----------------------------------------------------------------------------
(* What else nodes do, and what happens to them.                             *)

LEMMA SilentAnswer == Silent \in Answer /\ ~Silent.unlocked /\ Idle \in Job /\ Idle.at = "idle"
  BY ConstantsAssumption DEF Silent, Reply, Answer, Version, Idle, Job, Places

LEMMA InfoStep == ASSUME RestoreInv, NEW n \in Nodes, Info(n) PROVE RestoreInv'
<1> USE DEF RestoreInv
<1>0. TypeOK /\ UNCHANGED <<remote, storage, node, faults, hist>> /\ 0 \in Version /\ faults' \in 0..MaxFaults
  BY ConstantsAssumption DEF Info, TypeOK, Version
<1>1. CASE Refuse(n)
  BY <1>0, <1>1, RefusedStep
<1>2. CASE Return(n, Reply("null", 0, FALSE))
  <2>1. /\ job' \in [Nodes -> Job] /\ answer' \in [Nodes -> Answer]
        /\ job'[n].at = "idle" /\ answer'[n].unlocked = FALSE
        /\ \A m \in Nodes \ {n} : job'[m] = job[m] /\ answer'[m] = answer[m]
    BY <1>0, <1>2, Returns
  <2>2. TypeOK' /\ StageInv(n)'
    BY <1>0, <2>1 DEF TypeOK, storage, StageInv, Staged, Confirmed, Keyed
  <2> QED
    BY <1>0, <2>1, <2>2, PrivateStep
<1>3. CASE Verifies /\ Return(n, Reply("info", wallet.version,
                                       node[n] = "unlocked" /\ "marker" \notin wallet.parts))
  <2> DEFINE unlocked == node[n] = "unlocked" /\ "marker" \notin wallet.parts
  <2>1. wallet.version \in Version /\ unlocked \in BOOLEAN
    BY <1>0, <1>3 DEF Verifies, TypeOK, Wallet
  <2>2. /\ job' \in [Nodes -> Job] /\ answer' \in [Nodes -> Answer]
        /\ job'[n].at = "idle" /\ answer'[n].unlocked = unlocked
        /\ \A m \in Nodes \ {n} : job'[m] = job[m] /\ answer'[m] = answer[m]
    BY <1>0, <1>3, <2>1, Returns
  <2>3. TypeOK' /\ StageInv(n)'
    BY <1>0, <2>2 DEF TypeOK, storage, StageInv, Staged, Confirmed, Keyed
  <2>4. unlocked => node'[n] = "unlocked" /\ hist.checked /\ wallet # None
    <3>1. wallet # None /\ wallet.version > 0
      BY <1>3 DEF Verifies
    <3>2. wallet.key # None
      BY <3>1 DEF WalletInv
    <3> QED
      BY <1>0, <3>1, <3>2 DEF WalletInv
  <2> QED
    BY <1>0, <2>2, <2>3, <2>4, PrivateStep
<1> QED
  BY <1>1, <1>2, <1>3 DEF Info

LEMMA UnlockStep == ASSUME RestoreInv, NEW n \in Nodes, Unlock(n) PROVE RestoreInv'
<1> USE DEF RestoreInv
<1>0. /\ TypeOK /\ UNCHANGED <<remote, key, job, faults>>
      /\ node' = [node EXCEPT ![n] = "unlocked"] /\ answer' = [answer EXCEPT ![n] = Silent]
  BY DEF Unlock
<1>1. /\ node' \in [Nodes -> {"locked", "unlocked", "stopping", "off"}]
      /\ answer' \in [Nodes -> Answer] /\ ~answer'[n].unlocked
      /\ \A m \in Nodes \ {n} : answer'[m] = answer[m] /\ node'[m] = node[m]
  BY <1>0, SilentAnswer DEF TypeOK
<1>2. CASE wallet = None
  <2> DEFINE own == [version |-> 0, content |-> 0, key |-> None, parts |-> {"files"}, durable |-> {"files"}]
  <2>1. wallet' = own /\ pending' = Append(pending, "wallet") /\ hist' = [hist EXCEPT !.checked = FALSE]
    BY <1>2 DEF Unlock, Renamed
  <2>2. own \in Wallet /\ own.key = None /\ own.version = 0
    BY ConstantsAssumption DEF Wallet, Parts, Version
  <2> HIDE DEF own
  <2>3. ~Unsynced("wallet")
    BY <1>2 DEF PendingInv
  <2>4. /\ pending' \in {<<"wallet">>, <<"key", "wallet">>}
        /\ Range(pending') = Range(pending) \cup {"wallet"}
    BY <1>0, <2>1, <2>3, Appends
  <2>5. hist' \in [acked : Version, checked : BOOLEAN] /\ hist'.acked = hist.acked
    BY <1>0, <2>1 DEF TypeOK
  <2>6. wallet' # None
    BY <2>1, <2>2, NoneAssumption
  <2>7. TypeOK'
    BY <1>0, <1>1, <2>1, <2>2, <2>4, <2>5 DEF TypeOK
  <2>8. PendingInv' /\ AckInv' /\ WalletInv'
    BY <1>0, <1>2, <2>1, <2>2, <2>4, <2>5, <2>6 DEF PendingInv, AckInv, WalletInv, Unsynced
  <2>9. AnswerInv'
    BY <1>1, <1>2 DEF AnswerInv
  <2>10. \A m \in Nodes : StageInv(m)'
    BY <1>0, <1>2 DEF StageInv, Staged, Confirmed, Keyed
  <2> QED
    BY <2>7, <2>8, <2>9, <2>10
<1>3. CASE wallet # None
  <2>1. /\ wallet' = [wallet EXCEPT !.parts = @ \ {"marker"}] /\ UNCHANGED pending
        /\ hist' = [hist EXCEPT !.checked = @ \/ "marker" \in wallet.parts]
    BY <1>3 DEF Unlock
  <2>2. wallet \in Wallet
    BY <1>0, <1>3 DEF TypeOK
  <2>3. /\ wallet' \in Wallet /\ wallet'.version = wallet.version /\ wallet'.content = wallet.content
        /\ wallet'.key = wallet.key /\ wallet'.durable = wallet.durable
        /\ wallet'.parts = wallet.parts \ {"marker"}
    BY <2>1, <2>2 DEF Wallet
  <2>4. /\ hist' \in [acked : Version, checked : BOOLEAN] /\ hist'.acked = hist.acked
        /\ hist'.checked = (hist.checked \/ "marker" \in wallet.parts)
    BY <1>0, <2>1 DEF TypeOK
  <2>5. wallet' # None
    BY <2>3, NoneAssumption
  <2>6. TypeOK'
    BY <1>0, <1>1, <2>1, <2>3, <2>4 DEF TypeOK
  <2>7. PendingInv' /\ AckInv'
    BY <1>0, <1>3, <2>1, <2>3, <2>4, <2>5 DEF PendingInv, AckInv, Unsynced
  <2>8. AnswerInv'
    BY <1>1, <2>4, <2>5 DEF AnswerInv
  <2>9. WalletInv'
    BY <1>0, <1>3, <2>1, <2>3, <2>4 DEF WalletInv, Unsynced
  <2>10. \A m \in Nodes : StageInv(m)'
    BY <1>0, <2>3, <2>5 DEF StageInv, Staged, Confirmed, Keyed
  <2> QED
    BY <2>6, <2>7, <2>8, <2>9, <2>10
<1> QED
  BY <1>2, <1>3

LEMMA NodeStep ==
  ASSUME RestoreInv, NEW n \in Nodes, Lock(n) \/ Cancel(n) \/ Stopped(n) \/ Start(n) \/ Crash(n)
  PROVE  RestoreInv'
<1> USE DEF RestoreInv
<1>0. TypeOK /\ UNCHANGED <<remote, storage, hist>>
  BY DEF Lock, Cancel, Stopped, Start, Crash
<1>1. CASE Start(n)
  <2>1. TypeOK'
    BY <1>0, <1>1 DEF TypeOK, Start, storage
  <2>2. StageInv(n)'
    BY <1>0, <1>1 DEF Start, StageInv, storage
  <2>3. ~answer[n].unlocked
    BY <1>1 DEF AnswerInv, Start
  <2>4. /\ \A m \in Nodes \ {n} : job'[m] = job[m] /\ answer'[m] = answer[m] /\ node'[m] = node[m]
        /\ ~answer'[n].unlocked
    BY <1>0, <1>1, <2>3 DEF Start, TypeOK
  <2> QED
    BY <1>0, <2>1, <2>2, <2>4, PrivateStep
<1>2. CASE Lock(n) \/ Cancel(n) \/ Stopped(n) \/ Crash(n)
  <2>1. answer' = [answer EXCEPT ![n] = Silent]
    BY <1>2 DEF Lock, Cancel, Stopped, Crash
  <2>2. /\ answer' \in [Nodes -> Answer] /\ ~answer'[n].unlocked
        /\ \A m \in Nodes \ {n} : answer'[m] = answer[m]
    BY <1>0, <2>1, SilentAnswer DEF TypeOK
  <2>3. /\ job' \in [Nodes -> Job] /\ \A m \in Nodes \ {n} : job'[m] = job[m]
        /\ job'[n] = job[n] \/ job'[n].at = "idle"
    BY <1>0, <1>2, SilentAnswer DEF Lock, Cancel, Stopped, Crash, TypeOK
  <2>4. /\ node' \in [Nodes -> {"locked", "unlocked", "stopping", "off"}]
        /\ \A m \in Nodes \ {n} : node'[m] = node[m]
    BY <1>0, <1>2 DEF Lock, Cancel, Stopped, Crash, TypeOK
  <2>5. faults' \in 0..MaxFaults
    BY <1>0, <1>2, ConstantsAssumption DEF Lock, Cancel, Stopped, Crash, TypeOK
  <2>6. TypeOK'
    BY <1>0, <2>2, <2>3, <2>4, <2>5 DEF TypeOK, storage
  <2>7. StageInv(n)'
    BY <1>0, <2>3 DEF StageInv, Staged, Confirmed, Keyed, storage
  <2> QED
    BY <1>0, <2>2, <2>3, <2>4, <2>6, <2>7, PrivateStep
<1> QED
  BY <1>1, <1>2

LEMMA PowerStep == ASSUME RestoreInv, PowerLoss PROVE RestoreInv'
<1> USE DEF RestoreInv
<1>0. /\ TypeOK /\ pending' = <<>> /\ Range(pending') = {} /\ UNCHANGED <<remote, hist>>
      /\ node' = [n \in Nodes |-> "off"] /\ job' = [n \in Nodes |-> Idle]
      /\ answer' = [n \in Nodes |-> Silent] /\ faults' \in 0..MaxFaults
  BY Ranges, ConstantsAssumption DEF PowerLoss, TypeOK
<1>1. PICK kept \in Survivors :
        /\ key' = IF "key" \in Range(pending) \ kept THEN None ELSE key
        /\ wallet' = IF wallet = None \/ "wallet" \in Range(pending) \ kept
                     THEN None ELSE [wallet EXCEPT !.parts = wallet.durable]
  BY DEF PowerLoss
<1>2. /\ kept \subseteq Range(pending)
      /\ OrderedRenames /\ pending = <<"key", "wallet">> /\ "wallet" \in kept => "key" \in kept
  BY <1>0, SurvivorsAreUnsynced
<1>3. \/ wallet' = None
      \/ /\ wallet # None /\ ("wallet" \in Range(pending) => "wallet" \in kept)
         /\ wallet' \in Wallet /\ wallet'.version = wallet.version /\ wallet'.content = wallet.content
         /\ wallet'.key = wallet.key /\ wallet'.durable = wallet.durable /\ wallet'.parts = wallet.durable
  <2>1. wallet # None => wallet \in Wallet
    BY <1>0 DEF TypeOK
  <2> QED
    BY <1>1, <2>1 DEF Wallet
<1>4. TypeOK'
  BY <1>0, <1>1, <1>3, SilentAnswer, ConstantsAssumption DEF TypeOK
<1>5. PendingInv' /\ (\A n \in Nodes : StageInv(n)') /\ AnswerInv'
  BY <1>0, SilentAnswer DEF PendingInv, StageInv, AnswerInv, Unsynced, Staged, Confirmed, Keyed
<1>6. AckInv'
  <2>1. hist.acked > 0 => wallet # None /\ wallet.version = hist.acked /\ "wallet" \notin Range(pending)
    BY DEF AckInv, Unsynced
  <2>2. wallet # None => wallet \in Wallet
    BY <1>0 DEF TypeOK
  <2>3. hist.acked > 0 => wallet' = [wallet EXCEPT !.parts = wallet.durable]
    BY <1>1, <2>1
  <2>4. hist.acked > 0 => wallet' \in Wallet /\ wallet'.version = wallet.version
    BY <2>1, <2>2, <2>3 DEF Wallet
  <2>5. hist.acked > 0 => wallet' # None
    BY <2>4, NoneAssumption
  <2> QED
    BY <1>0, <2>1, <2>4, <2>5 DEF AckInv, Unsynced
<1>7. WalletInv'
  <2>1. CASE wallet' = None
    BY <2>1 DEF WalletInv
  <2>2. CASE wallet' # None /\ wallet.key = None
    BY <1>3, <2>2 DEF WalletInv
  <2>3. CASE wallet' # None /\ wallet.key # None
    <3>1. OrderedRenames => key' = key
      <4> SUFFICES ASSUME OrderedRenames, Unsynced("key") PROVE "key" \in kept
        BY <1>1 DEF Unsynced
      <4>1. pending = <<"key", "wallet">> /\ "wallet" \in Range(pending)
        BY <1>3, <2>3, Ranges DEF WalletInv
      <4> QED
        BY <1>2, <1>3, <2>3, <4>1
    <3> QED
      BY <1>0, <1>3, <2>3, <3>1 DEF WalletInv, Parts, Unsynced
  <2> QED
    BY <2>1, <2>2, <2>3
<1> QED
  BY <1>4, <1>5, <1>6, <1>7

LEMMA UploadStep == ASSUME RestoreInv, ForeignUpload PROVE RestoreInv'
<1> USE DEF RestoreInv
<1>0. TypeOK /\ remote' = remote + 1 /\ UNCHANGED <<storage, node, job, answer, faults, hist>>
      /\ remote \in Nat /\ remote' \in Version
  BY ConstantsAssumption DEF ForeignUpload, TypeOK, Version
<1>1. TypeOK'
  BY <1>0 DEF TypeOK, storage
<1>2. PendingInv' /\ WalletInv' /\ AnswerInv' /\ AckInv'
  BY <1>0 DEF PendingInv, WalletInv, AnswerInv, AckInv, Unsynced, storage
<1>3. ASSUME NEW n \in Nodes PROVE StageInv(n)'
  <2>1. job[n].version \in Nat
    BY <1>0, ConstantsAssumption DEF TypeOK, Job, Version
  <2> QED
    BY <1>0, <2>1 DEF StageInv, storage, Staged, Confirmed, Keyed
<1> QED
  BY <1>1, <1>2, <1>3

-----------------------------------------------------------------------------
(* The theorems.                                                             *)

LEMMA RestoreNext == RestoreInv /\ [Next]_vars => RestoreInv'
<1> SUFFICES ASSUME RestoreInv, [Next]_vars PROVE RestoreInv'
  OBVIOUS
<1>1. ASSUME NEW n \in Nodes, Preparing(n) PROVE RestoreInv'
  BY <1>1, PrepareStep, PublishStep, SyncStep, PromoteStep DEF Preparing
<1>2. ASSUME NEW n \in Nodes, Info(n) \/ Unlock(n) \/ Lock(n) \/ Cancel(n) \/ Stopped(n) \/ Start(n)
                              \/ Crash(n)
      PROVE  RestoreInv'
  BY <1>2, InfoStep, UnlockStep, NodeStep
<1>3. CASE UNCHANGED vars
  BY <1>3 DEF vars, RestoreInv, TypeOK, PendingInv, StageInv, WalletInv, AnswerInv, AckInv, Unsynced
<1> QED
  BY <1>1, <1>2, <1>3, PowerStep, UploadStep DEF Next

(* The inductive invariant holds of every reachable state of vss_restore.    *)
THEOREM RestoreInvariant == Spec => []RestoreInv
  BY RestoreInit, RestoreNext, PTL DEF Spec

(* The variables keep their types: in particular no rename waits twice.      *)
THEOREM TypeCorrect == Spec => []TypeOK
<1>1. RestoreInv => TypeOK
  BY DEF RestoreInv
<1> QED
  BY <1>1, RestoreInvariant, PTL

(* Whatever a prepare leaves in place is whole, and of the version its       *)
(* receipt names (prepare, load_receipt).                                    *)
THEOREM RestoresWhole == Spec => []RestoredIsWhole
<1>1. RestoreInv => RestoredIsWhole
  BY DEF RestoreInv, WalletInv, RestoredIsWhole
<1> QED
  BY <1>1, RestoreInvariant, PTL

(* Where renames are kept in order, an interrupted preparation can always be *)
(* resumed: the receipt verifies with the key in place (receipt_key).        *)
THEOREM ResumesWhenOrdered == OrderedRenames => (Spec => []ResumeVerifies)
<1> SUFFICES ASSUME OrderedRenames PROVE Spec => []ResumeVerifies
  OBVIOUS
<1>1. RestoreInv => ResumeVerifies
  BY DEF RestoreInv, WalletInv, ResumeVerifies, Verifies
<1> QED
  BY <1>1, RestoreInvariant, PTL

(* No restored wallet escapes the SDK's check (the .vss_restored marker).    *)
THEOREM MarkerStays == Spec => []UncheckedIsMarked
<1>1. RestoreInv => UncheckedIsMarked
  BY DEF RestoreInv, WalletInv, UncheckedIsMarked
<1> QED
  BY <1>1, RestoreInvariant, PTL

(* info's unlocked flag is true only of an unlocked node and a checked       *)
(* wallet (info).                                                            *)
THEOREM UnlockedMeansChecked == Spec => []UnlockedIsChecked
<1>1. RestoreInv => UnlockedIsChecked
  BY DEF RestoreInv, AnswerInv, UnlockedIsChecked
<1> QED
  BY <1>1, RestoreInvariant, PTL

(* Both together: the check is neither skipped nor made up (prepare, info).  *)
THEOREM ChecksAreMade == Spec => []CheckNotSkipped
<1>1. UncheckedIsMarked /\ UnlockedIsChecked => CheckNotSkipped
  BY DEF CheckNotSkipped
<1> QED
  BY <1>1, MarkerStays, UnlockedMeansChecked, PTL

(* A restore acknowledged by the prepare that did it survives every crash    *)
(* and power loss (prepare's last sync).                                     *)
THEOREM AcknowledgedForGood == Spec => []AcknowledgedStays
<1>1. RestoreInv => AcknowledgedStays
  BY DEF RestoreInv, AckInv, AcknowledgedStays, Unsynced
<1> QED
  BY <1>1, RestoreInvariant, PTL

(* A prepare never changes a wallet directory that exists (promote).         *)
THEOREM NothingReplaced == Spec => NeverReplaced
<1>1. RestoreInv /\ [Next]_vars =>
        [(\E n \in Nodes : Preparing(n)) /\ wallet # None => wallet' = wallet]_vars
  <2> SUFFICES ASSUME NEW n \in Nodes, Preparing(n), wallet # None PROVE wallet' = wallet
    OBVIOUS
  <2> QED
    BY DEF Preparing, storage, Prepare, Scan, ReadVersion, Download, Extract, ConfirmVersion, TakeKey,
       PublishKey, SyncKey, Seal, Flush, Promote, Settle, Fail
<1> QED
  BY <1>1, RestoreInvariant, PTL DEF Spec, NeverReplaced

-----------------------------------------------------------------------------
(* Why a preparation that is tried again ends.                               *)

(* The places of a prepare in the order it passes them.                      *)
Place(at) ==
  IF at = "idle" THEN 0 ELSE IF at = "scan" THEN 1 ELSE IF at = "version" THEN 2
  ELSE IF at = "download" THEN 3 ELSE IF at = "extract" THEN 4 ELSE IF at = "confirm" THEN 5
  ELSE IF at = "key" THEN 6 ELSE IF at = "newkey" THEN 7 ELSE IF at = "keysync" THEN 8
  ELSE IF at = "seal" THEN 9 ELSE IF at = "flush" THEN 10 ELSE IF at = "promote" THEN 11 ELSE 12

(* A prepare ends with the wallet in place, or for a reason outside of it:   *)
(* an effect failed or the machine did, another wallet is in place, the node *)
(* is shutting down, or the archive is missing or was replaced meanwhile.    *)
(* What an interrupted prepare left behind is none: neither its key nor its  *)
(* private directory stops the next one (receipt_key, prepare).              *)
EndsForAReason(n) ==
  \/ answer'[n].what = "restored" /\ wallet' # None
  \/ faults' > faults
  \/ wallet # None
  \/ ~Admitted(n)
  \/ job[n].at = "version" /\ remote = 0
  \/ job[n].at = "confirm" /\ remote # job[n].version

(* Whatever other nodes do to the directory, a prepare stays where it is,    *)
(* goes on to a later place, or ends for one of those reasons.               *)
PreparationAdvances ==
  [][\A n \in Nodes : job[n].at # "idle" =>
       \/ job'[n] = job[n]
       \/ Place(job'[n].at) > Place(job[n].at)
       \/ job'[n].at = "idle" /\ EndsForAReason(n)]_vars

(* The next place of a prepare that goes on.                                 *)
LEMMA PlaceAfter ==
  ASSUME RestoreInv, NEW n \in Nodes, job[n].at # "idle", Preparing(n), ~Fail(n)
  PROVE  \/ Place(job'[n].at) > Place(job[n].at)
         \/ job'[n].at = "idle" /\ EndsForAReason(n)
<1>1. /\ job \in [Nodes -> Job] /\ answer \in [Nodes -> Answer]
      /\ job[n] \in Job /\ remote \in Nat
  BY ConstantsAssumption DEF RestoreInv, TypeOK, Version
<1>2. ASSUME Refuse(n) PROVE job'[n].at = "idle"
  BY <1>1, <1>2 DEF Refuse, Return, Idle
<1>3. ASSUME NEW at, Goto(n, at) PROVE job'[n].at = at
  BY <1>1, <1>3 DEF Goto, Job
<1>4. ASSUME NEW at, NEW stage, Stage(n, at, stage) PROVE job'[n].at = at
  BY <1>1, <1>4 DEF Stage
<1>5. CASE Scan(n)
  BY <1>2, <1>3, <1>5 DEF Scan, Place, EndsForAReason
<1>6. CASE ReadVersion(n)
  <2>1. CASE remote = 0
    BY <1>1, <1>6, <2>1 DEF ReadVersion, Return, Idle, EndsForAReason
  <2>2. CASE remote # 0
    <3>1. job' = [job EXCEPT ![n] = [at |-> "download", version |-> remote, stage |-> None]]
      BY <1>6, <2>2 DEF ReadVersion
    <3>2. job'[n].at = "download" /\ job[n].at = "version"
      BY <1>1, <1>6, <3>1 DEF ReadVersion
    <3> QED
      BY <3>2 DEF Place
  <2> QED
    BY <2>1, <2>2
<1>7. CASE Download(n) \/ Extract(n) \/ Seal(n)
  BY <1>4, <1>7 DEF Download, Extract, Seal, Place
<1>8. CASE ConfirmVersion(n)
  BY <1>2, <1>3, <1>8 DEF ConfirmVersion, Place, EndsForAReason
<1>9. CASE TakeKey(n)
  BY <1>3, <1>4, <1>9 DEF TakeKey, Place
<1>10. CASE PublishKey(n)
  BY <1>4, <1>10 DEF PublishKey, Place
<1>11. CASE SyncKey(n)
  BY <1>3, <1>11 DEF SyncKey, Place
<1>12. CASE Flush(n)
  BY <1>2, <1>4, <1>12 DEF Flush, Place, EndsForAReason
<1>13. CASE Promote(n)
  BY <1>2, <1>3, <1>13 DEF Promote, Place, EndsForAReason
<1>14. CASE Settle(n)
  <2>1. wallet # None /\ wallet' = wallet
    BY <1>14 DEF Settle, RestoreInv, StageInv
  <2> QED
    BY <1>1, <1>14, <2>1 DEF Settle, Return, Idle, EndsForAReason
<1>15. ~Prepare(n)
  BY DEF Prepare
<1> QED
  BY <1>5, <1>6, <1>7, <1>8, <1>9, <1>10, <1>11, <1>12, <1>13, <1>14, <1>15 DEF Preparing

(* A prepare goes through at most twelve places and is refused for nothing   *)
(* that an earlier, interrupted one left behind: what remains between it and *)
(* its end is bounded faults and a program that asks again.                  *)
THEOREM PreparationsMoveOn == Spec => PreparationAdvances
<1> DEFINE Onward(n) ==
      job[n].at # "idle" =>
        \/ job'[n] = job[n]
        \/ Place(job'[n].at) > Place(job[n].at)
        \/ job'[n].at = "idle" /\ EndsForAReason(n)
<1>1. RestoreInv /\ [Next]_vars => [\A n \in Nodes : Onward(n)]_vars
  <2> SUFFICES ASSUME RestoreInv, Next, NEW n \in Nodes, job[n].at # "idle" PROVE Onward(n)
    OBVIOUS
  <2>1. job \in [Nodes -> Job] /\ faults \in Nat
    BY ConstantsAssumption DEF RestoreInv, TypeOK
  <2>2. ASSUME NEW m \in Nodes, Fail(m) \/ Crash(m) PROVE Onward(n)
    <3>1. faults' > faults
      BY <2>1, <2>2 DEF Fail, Crash
    <3>2. job' = [job EXCEPT ![m] = Idle] /\ Idle.at = "idle"
      BY <2>2 DEF Fail, Crash, Refuse, Return, Idle
    <3> QED
      BY <2>1, <3>1, <3>2 DEF EndsForAReason
  <2>3. CASE PowerLoss
    BY <2>1, <2>3 DEF PowerLoss, Idle, EndsForAReason
  <2>4. ASSUME NEW m \in Nodes, Preparing(m), ~Fail(m) PROVE Onward(n)
    <3>1. CASE m = n
      BY <2>4, <3>1, PlaceAfter
    <3>2. CASE m # n
      <4>1. job' = [job EXCEPT ![m] = job'[m]]
        BY <2>1, <2>4 DEF Preparing, Prepare, Scan, ReadVersion, Download, Extract, ConfirmVersion,
             TakeKey, PublishKey, SyncKey, Seal, Flush, Promote, Settle, Goto, Stage, Refuse, Return
      <4> QED
        BY <2>1, <3>2, <4>1
    <3> QED
      BY <3>1, <3>2
  <2>5. ASSUME NEW m \in Nodes,
               Info(m) \/ Unlock(m) \/ Lock(m) \/ Cancel(m) \/ Stopped(m) \/ Start(m) \/ ForeignUpload
        PROVE  Onward(n)
    <3>1. CASE Info(m)
      BY <2>1, <3>1 DEF Info, Refuse, Return
    <3> QED
      BY <2>5, <3>1 DEF Unlock, Lock, Cancel, Stopped, Start, ForeignUpload
  <2> QED
    BY <2>2, <2>3, <2>4, <2>5 DEF Next
<1> QED
  BY <1>1, RestoreInvariant, PTL DEF Spec, PreparationAdvances
=============================================================================
