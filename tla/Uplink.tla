------------------------------- MODULE Uplink -------------------------------
(***************************************************************************)
(* One device's way up: the agent's loop and its spool on disk             *)
(* (edge-agent agent.py, store.py), the line, and the server's threads     *)
(* that take a batch in (application/fleet/ingest_uplink.py) against the   *)
(* object store, the daily counters and the registry.                      *)
(*                                                                         *)
(* The agent is one thread and waits for its answer, but it gives up after *)
(* ten seconds while the server goes on, so several requests of one device *)
(* can be in the server at once.  A crash loses what is in memory; the     *)
(* spool and the state file survive.  The source counts samples from zero  *)
(* at every start and the epoch is a setting, so stamps start again too.   *)
(*                                                                         *)
(* A record is its number and its stamp; its columns, the checksum and the *)
(* base64 are left out, and every record weighs one unit of the budget.    *)
(***************************************************************************)
EXTENDS Integers, Sequences, FiniteSets

CONSTANTS
  BatchSize,     \* records a batch takes (Spool.batch_size)
  Capacity,      \* records the disk holds (Spool.max_bytes)
  Slot,          \* bound: requests in the server at once
  Settings       \* the installations to look at, each a record as below

(* What an installation is set to, and the bounds a run gives it.          *)
ASSUME UplinkAssumption ==
  /\ {BatchSize, Capacity} \subseteq Nat \ {0}
  /\ IsFiniteSet(Slot) /\ Slot # {}
  /\ \A i \in Settings :
    /\ {i.uplinkEvery,   \* answers between two flushes (AgentSettings.uplink_every)
        i.perHour,       \* stamps in an hour
        i.perDay}        \* stamps in a day
          \subseteq Nat \ {0}
    /\ {i.budget,        \* a day's allowance (daily_budget_kib_per_device)
        i.maxSamples,    \* bound: records a boot makes
        i.maxBoots,      \* bound: boots of the agent
        i.maxLost}       \* bound: sends the line loses or the agent gives up on
          \subseteq Nat
    /\ i.otherStamps \subseteq Nat   \* times other use cases report the device at

VARIABLE setting   \* the installation, chosen at the start

UplinkEvery == setting.uplinkEvery
Budget == setting.budget
PerHour == setting.perHour
PerDay == setting.perDay
OtherStamps == setting.otherStamps
MaxSamples == setting.maxSamples
MaxBoots == setting.maxBoots
MaxLost == setting.maxLost

Record == [id : Nat, at : Nat]

HourOf(at) == at \div PerHour

DayOf(at) == at \div PerDay

Stamps == 0 .. MaxSamples

Stage == {"free", "received", "accepted", "stored", "reporting", "upserting",
          "answering"}

(* A thread of the server: the batch it serves, what it has read, what it  *)
(* will answer, and whether the agent still waits for it.                  *)
Handler ==
  [stage : Stage, batch : Seq(Record), seen : Nat, ok : BOOLEAN, heard : BOOLEAN]

Free == [stage |-> "free", batch |-> <<>>, seen |-> 0, ok |-> FALSE, heard |-> FALSE]

VARIABLES
  spool,      \* pending.jsonl
  agent,      \* the running process: its place in the loop and its counters
  saved,      \* AgentState.answered as the state file has it
  handlers,   \* the server's threads
  lake,       \* the object under each key; a key is the hour a batch starts in
  bytes,      \* what a day has been charged for
  seen,       \* the fleet aggregate's last_seen_at of the device
  registry,   \* the same column in the registry's row
  log         \* history: records made, stored, refused, dropped; boots

agentVars == <<spool, agent, saved>>
cloudVars == <<lake, bytes, seen, registry, setting>>
vars == <<spool, agent, saved, handlers, lake, bytes, seen, registry, log, setting>>

Ids(records) == {records[i].id : i \in DOMAIN records}

Last(batch) == batch[Len(batch)]

FreshAgent(answered) ==
  [pc |-> "sampling", closing |-> FALSE, clock |-> 0, answered |-> answered,
   dropped |-> 0, slot |-> "none"]

Init ==
  /\ setting \in Settings
  /\ spool = <<>>
  /\ agent = FreshAgent(0)
  /\ saved = 0
  /\ handlers = [s \in Slot |-> Free]
  /\ lake = [h \in {HourOf(at) : at \in Stamps} |-> <<>>]
  /\ bytes = [d \in {DayOf(at) : at \in Stamps} |-> 0]
  /\ seen = 0
  /\ registry = 0
  /\ log = [made |-> 0, stored |-> {}, refused |-> {}, dropped |-> {},
            boots |-> 1, lost |-> 0]

-----------------------------------------------------------------------------
(* Spool                                                                   *)

(* _enforce_capacity: over the limit, the older half goes.                 *)
Enforced(records) ==
  IF Len(records) <= Capacity THEN records
  ELSE SubSeq(records, Len(records) \div 2 + 1, Len(records))

TakeBatch(records) ==
  SubSeq(records, 1, IF Len(records) < BatchSize THEN Len(records) ELSE BatchSize)

(* Mutant: one record too many goes. *)
CommittedOneMore(records, count) == SubSeq(records, count + 2, Len(records))

Committed(records, count) == SubSeq(records, count + 1, Len(records))

-----------------------------------------------------------------------------
(* The agent's loop                                                        *)

AfterFlush == IF agent.closing THEN "persisting" ELSE "sampling"

FlushDue(answered) == answered % UplinkEvery = 0

(* A window the model answers: a record on disk, then perhaps a flush.     *)
Answered ==
  /\ agent.pc = "sampling"
  /\ agent.clock < MaxSamples
  /\ LET record == [id |-> log.made + 1, at |-> agent.clock + 1]
         grown == Append(spool, record)
     IN  /\ spool' = Enforced(grown)
         /\ agent' = [agent EXCEPT
              !.clock = @ + 1,
              !.answered = @ + 1,
              !.dropped = @ + Len(grown) - Len(Enforced(grown)),
              !.pc = IF FlushDue(agent.answered + 1) THEN "flushing" ELSE @]
         /\ log' = [log EXCEPT
              !.made = @ + 1,
              !.dropped = @ \cup (Ids(grown) \ Ids(Enforced(grown)))]
  /\ UNCHANGED <<saved, handlers, cloudVars>>

(* Mutant: a window that is withheld ends the turn. *)
WithheldTurnsAway ==
  /\ agent.pc = "sampling"
  /\ UNCHANGED vars

(* A window it withholds: no record, and the flush is still looked at.     *)
Withheld ==
  /\ agent.pc = "sampling"
  /\ FlushDue(agent.answered)
  /\ agent' = [agent EXCEPT !.pc = "flushing"]
  /\ UNCHANGED <<spool, saved, handlers, cloudVars, log>>

(* SIGTERM, the end of the source or an exception: into `finally`.         *)
Stop ==
  /\ agent.pc = "sampling"
  /\ agent' = [agent EXCEPT !.pc = "flushing", !.closing = TRUE]
  /\ UNCHANGED <<spool, saved, handlers, cloudVars, log>>

FlushNothing ==
  /\ agent.pc = "flushing"
  /\ spool = <<>>
  /\ agent' = [agent EXCEPT !.pc = AfterFlush]
  /\ UNCHANGED <<spool, saved, handlers, cloudVars, log>>

(* take_batch and the request reaching the server.                         *)
Send(s) ==
  /\ agent.pc = "flushing"
  /\ spool # <<>>
  /\ handlers[s] = Free
  /\ handlers' = [handlers EXCEPT ![s] =
       [Free EXCEPT !.stage = "received", !.batch = TakeBatch(spool), !.heard = TRUE]]
  /\ agent' = [agent EXCEPT !.pc = "waiting", !.slot = s]
  /\ UNCHANGED <<spool, saved, cloudVars, log>>

(* Mutant: a line that fails counts as sent. *)
LoseRequestAsSent ==
  /\ agent.pc = "flushing"
  /\ spool # <<>>
  /\ log.lost < MaxLost
  /\ spool' = Committed(spool, Len(TakeBatch(spool)))
  /\ agent' = [agent EXCEPT !.pc = AfterFlush]
  /\ log' = [log EXCEPT !.lost = @ + 1]
  /\ UNCHANGED <<saved, handlers, cloudVars>>

(* The request never arrives.                                              *)
LoseRequest ==
  /\ agent.pc = "flushing"
  /\ spool # <<>>
  /\ log.lost < MaxLost
  /\ agent' = [agent EXCEPT !.pc = AfterFlush]
  /\ log' = [log EXCEPT !.lost = @ + 1]
  /\ UNCHANGED <<spool, saved, handlers, cloudVars>>

(* Mutant: the answer that comes too late is still taken. *)
GiveUpListening ==
  /\ agent.pc = "waiting"
  /\ log.lost < MaxLost
  /\ agent' = [agent EXCEPT !.pc = AfterFlush, !.slot = "none"]
  /\ log' = [log EXCEPT !.lost = @ + 1]
  /\ UNCHANGED <<spool, saved, handlers, cloudVars>>

(* The answer is lost, or it takes longer than the timeout.                *)
GiveUp ==
  /\ agent.pc = "waiting"
  /\ log.lost < MaxLost
  /\ handlers' = [handlers EXCEPT ![agent.slot].heard = FALSE]
  /\ agent' = [agent EXCEPT !.pc = AfterFlush, !.slot = "none"]
  /\ log' = [log EXCEPT !.lost = @ + 1]
  /\ UNCHANGED <<spool, saved, cloudVars>>

(* Mutant: whatever the server answers, the batch is deleted. *)
HearAnything(s) ==
  /\ handlers[s].stage = "answering"
  /\ handlers[s].heard
  /\ spool' = Committed(spool, Len(handlers[s].batch))
  /\ agent' = [agent EXCEPT !.pc = AfterFlush, !.slot = "none"]
  /\ handlers' = [handlers EXCEPT ![s] = Free]
  /\ UNCHANGED <<saved, cloudVars, log>>

(* The answer: any 2xx is a success, and only then the batch is deleted.   *)
Hear(s) ==
  /\ handlers[s].stage = "answering"
  /\ handlers[s].heard
  /\ spool' = IF handlers[s].ok THEN Committed(spool, Len(handlers[s].batch)) ELSE spool
  /\ agent' = [agent EXCEPT !.pc = AfterFlush, !.slot = "none"]
  /\ handlers' = [handlers EXCEPT ![s] = Free]
  /\ UNCHANGED <<saved, cloudVars, log>>

Persist ==
  /\ agent.pc = "persisting"
  /\ saved' = agent.answered
  /\ agent' = [agent EXCEPT !.pc = "stopped"]
  /\ UNCHANGED <<spool, handlers, cloudVars, log>>

(* The power goes: no `finally`, no state file.                            *)
Crash ==
  /\ agent.pc # "stopped"
  /\ agent' = [agent EXCEPT !.pc = "stopped", !.closing = FALSE, !.slot = "none"]
  /\ handlers' = [s \in Slot |->
       IF handlers[s].heard THEN [handlers[s] EXCEPT !.heard = FALSE] ELSE handlers[s]]
  /\ UNCHANGED <<spool, saved, cloudVars, log>>

Boot ==
  /\ agent.pc = "stopped"
  /\ log.boots < MaxBoots
  /\ agent' = FreshAgent(saved)
  /\ log' = [log EXCEPT !.boots = @ + 1]
  /\ UNCHANGED <<spool, saved, handlers, cloudVars>>

-----------------------------------------------------------------------------
(* IngestUplink.execute, cut where it reaches another store                *)

(* Mutant: the batch at hand is not added to what the day has used. *)
AcceptsLate(batch) == bytes[DayOf(batch[1].at)] <= Budget

(* UplinkPolicy.accepts: only the budget can be critical, since the agent  *)
(* has stripped the forbidden fields.                                      *)
Accepts(batch) == bytes[DayOf(batch[1].at)] + Len(batch) <= Budget

(* UplinkBatch's own check (a window that ends before it starts is a 422), *)
(* then the policy on what the day has used so far.  A refusal is a 202    *)
(* like a success: "거절도 결과다".                                          *)
Check(s) ==
  LET batch == handlers[s].batch
  IN  /\ handlers[s].stage = "received"
      /\ \/ /\ batch[1].at > Last(batch).at
            /\ handlers' = [handlers EXCEPT ![s].stage = "answering"]
            /\ UNCHANGED log
         \/ /\ batch[1].at <= Last(batch).at
            /\ Accepts(batch)
            /\ handlers' = [handlers EXCEPT ![s].stage = "accepted"]
            /\ UNCHANGED log
         \/ /\ batch[1].at <= Last(batch).at
            /\ ~ Accepts(batch)
            /\ handlers' = [handlers EXCEPT ![s].stage = "reporting"]
            /\ log' = [log EXCEPT !.refused = @ \cup Ids(batch)]
      /\ UNCHANGED <<agentVars, cloudVars>>

(* ObjectStore.put under KeyLayout.key_for: the agent sends no part, so    *)
(* the hour the batch starts in is the whole key.                          *)
Put(s) ==
  LET batch == handlers[s].batch
  IN  /\ handlers[s].stage = "accepted"
      /\ lake' = [lake EXCEPT ![HourOf(batch[1].at)] = batch]
      /\ log' = [log EXCEPT !.stored = @ \cup Ids(batch)]
      /\ handlers' = [handlers EXCEPT ![s].stage = "stored"]
      /\ UNCHANGED <<agentVars, setting, bytes, seen, registry>>

(* record_uplink: an atomic ADD.                                           *)
Count(s) ==
  LET batch == handlers[s].batch
  IN  /\ handlers[s].stage = "stored"
      /\ bytes' = [bytes EXCEPT ![DayOf(batch[1].at)] = @ + Len(batch)]
      /\ handlers' = [handlers EXCEPT ![s].stage = "reporting"]
      /\ UNCHANGED <<agentVars, setting, lake, seen, registry, log>>

(* Fleet.report and commit: a report older than the last one is an error   *)
(* (422), after the batch has been stored and charged for.  What goes to   *)
(* the registry is read here and written later.                            *)
Report(s) ==
  LET at == Last(handlers[s].batch).at
  IN  /\ handlers[s].stage = "reporting"
      /\ \/ /\ at >= seen
            /\ seen' = at
            /\ handlers' = [handlers EXCEPT ![s].stage = "upserting", ![s].seen = at]
         \/ /\ at < seen
            /\ handlers' = [handlers EXCEPT ![s].stage = "answering"]
            /\ UNCHANGED seen
      /\ UNCHANGED <<agentVars, setting, lake, bytes, registry, log>>

Upsert(s) ==
  /\ handlers[s].stage = "upserting"
  /\ registry' = handlers[s].seen
  /\ handlers' = [handlers EXCEPT ![s].stage = "answering", ![s].ok = TRUE]
  /\ UNCHANGED <<agentVars, setting, lake, bytes, seen, log>>

(* An answer nobody waits for.                                             *)
Forget(s) ==
  /\ handlers[s].stage = "answering"
  /\ ~ handlers[s].heard
  /\ handlers' = [handlers EXCEPT ![s] = Free]
  /\ UNCHANGED <<agentVars, cloudVars, log>>

(* Another use case (ApplyRolloutOutcomes) reports the device at a time of *)
(* the caller's and then writes its row.                                   *)
ReportElsewhere(s) ==
  /\ handlers[s] = Free
  /\ \E at \in OtherStamps :
       /\ at > seen
       /\ seen' = at
       /\ handlers' = [handlers EXCEPT ![s] =
            [Free EXCEPT !.stage = "upserting", !.seen = at]]
  /\ UNCHANGED <<agentVars, setting, lake, bytes, registry, log>>

-----------------------------------------------------------------------------
Serve(s) ==
  Check(s) \/ Put(s) \/ Count(s) \/ Report(s) \/ Upsert(s) \/ Forget(s) \/ Hear(s)

Next ==
  \/ Answered \/ Withheld \/ Stop \/ FlushNothing \/ LoseRequest \/ GiveUp
  \/ Persist \/ Crash \/ Boot
  \/ \E s \in Slot : Send(s) \/ Serve(s) \/ ReportElsewhere(s)

Spec == Init /\ [][Next]_vars

(* The loop goes on while its source gives windows, a request that is sent *)
(* arrives unless the line loses it, and a server thread finishes.  The    *)
(* source may end, the power may go, and nobody has to start the agent     *)
(* again: the repository has no supervisor (edge-agent/README.md:151).     *)
AgentSteps ==
  \/ Answered \/ Withheld \/ FlushNothing \/ Persist
  \/ \E s \in Slot : Send(s)

FairSpec ==
  /\ Spec
  /\ WF_vars(AgentSteps)
  /\ \A s \in Slot : WF_vars(Serve(s))

-----------------------------------------------------------------------------
(* Types; a waiting agent has its request in the server and shows it the   *)
(* head of the spool as it still is.                                       *)
TypeOK ==
  /\ spool \in Seq(Record)
  /\ agent.pc \in {"sampling", "flushing", "waiting", "persisting", "stopped"}
  /\ agent.slot \in Slot \cup {"none"}
  /\ saved \in Nat
  /\ handlers \in [Slot -> Handler]
  /\ \A s \in Slot : handlers[s].heard =>
       /\ agent.pc = "waiting" /\ agent.slot = s
       /\ handlers[s].batch = TakeBatch(spool)

(* Every record made is still on disk, or the server has stored or refused *)
(* it, or it was dropped for space: none slips through a crash, a timeout, *)
(* a late answer or a retry (take_batch, send, commit).                    *)
NoneSlipsThrough ==
  1 .. log.made = Ids(spool) \cup log.stored \cup log.refused \cup log.dropped

(* The day's charge exceeds the budget by at most one batch for every      *)
(* other request that had read the counter before it was raised            *)
(* (uplink_bytes_today is read, checked and only later added to).          *)
BudgetOvershoot ==
  \A d \in DOMAIN bytes :
    bytes[d] <= Budget + (Cardinality(Slot) - 1) * BatchSize

(* The spool is the buffer it promises to be.                              *)
Buffer == INSTANCE StoreAndForward WITH
  made <- log.made,
  queue <- [i \in DOMAIN spool |-> spool[i].id],
  decided <- log.stored \cup log.refused

BufferSpec == Buffer!Spec

(* The agent does not try: it has stopped, and what its last flush left is *)
(* on the disk, or it has not answered another uplink_every windows.       *)
Resting ==
  \/ agent.pc = "stopped"
  \/ agent.pc = "sampling" /\ ~ FlushDue(agent.answered)

(* The batch at the head is one the server answers with 422 whenever it is *)
(* sent: it ends before it starts, or before the last report.              *)
Blocked ==
  /\ spool # <<>>
  /\ LET batch == TakeBatch(spool)
     IN  batch[1].at > Last(batch).at \/ Last(batch).at < seen

(* "회선이 살아나면 보낸다" (store.py:4), as far as the code keeps it: once  *)
(* the line has stopped failing, a record stays on the disk for ever only  *)
(* because the agent does not try any more, or because the server refuses  *)
(* the batch at the head for ever and take_batch offers nothing else.  A   *)
(* failed flush is tried again by the next window, an answered one or not  *)
(* (agent.py:186).  NoneSlipsThrough says what has become of the others.   *)
\* Bound: the records looked at.
SpoolDrains ==
  \A n \in 1 .. 8 :
    <>[](n \in Ids(spool)) => <>[](Resting \/ Blocked)

-----------------------------------------------------------------------------
(* What the code's own words promise and the code does not keep.           *)

(* edge-agent/README.md:119 "하나도 안 버린다": a record that was stored can  *)
(* be found again (KeyLayout.key_for, ObjectStore.put).                    *)
StoredStays ==
  \A n \in log.stored : \E h \in DOMAIN lake : n \in Ids(lake[h])
=============================================================================
