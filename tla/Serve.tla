------------------------------- MODULE Serve -------------------------------
(***************************************************************************)
(* The decision service, integrations/rustev-serve/src/service.rs: the     *)
(* retained decisions of the idempotency window, the task of each admitted *)
(* decision, the settlement of evidence that was queued, resubmission,     *)
(* lookup, cancellation with a wait, and shutdown.                         *)
(*                                                                         *)
(* A step is a section under the state's lock, or a use of a Notify        *)
(* outside it. A decide call stands for the transport's future and for the *)
(* task it spawns; the future may be dropped, the task never is. What the  *)
(* runtime answers is external: any refusal, completion or delivery, or a  *)
(* panic. An id is one principal's; its plan is registered. Time is the    *)
(* expiry of a retained response, and the ends of waits.                   *)
(***************************************************************************)
EXTENDS Naturals, FiniteSets

CONSTANTS Calls,        \* the decide calls, and the tasks they spawn
          Cancels,      \* the cancel calls
          Ids,          \* decision ids
          MaxRetained,  \* ServeConfig::max_retained
          MaxBytes,     \* ServeConfig::max_retained_bytes
          RESERVED      \* the largest response, in units of a small one

ASSUME ServeAssumption == /\ MaxRetained \in Nat /\ MaxBytes \in Nat
                          /\ RESERVED \in Nat \ {0}
                          /\ Calls \cap Cancels = {}

VARIABLES entries,      \* id -> Entry, for the retained ids
          call,         \* the transport's futures
          task,         \* the tasks: where they are
          settler,      \* the settlement tasks: where they are
          settled,      \* what they learn of the delivery
          cancel,       \* the cancel calls: where they are, and for what
          woken,        \* the waiters that a Notify has woken
          raised,       \* the tasks whose CancelSignal is raised
          failed,       \* the tasks noted as failed
          shut,         \* shutdown: where it is, and its report
          active        \* the ids shutdown found without a reply

decideVars == <<entries, call, task, settler, settled, failed>>
shutVars == <<shut, active>>
vars == <<decideVars, cancel, woken, raised, shutVars>>

NoReply == "none"
Size(reply) == IF reply = "failed" THEN RESERVED ELSE 1

(* The bytes of some entries: a unit of an entry is a pair.                *)
Units(es) == UNION {{i} \X (1..es[i].bytes) : i \in DOMAIN es}
Bytes(es) == Cardinality(Units(es))
Without(es, i) == [j \in DOMAIN es \ {i} |-> es[j]]

(* prune: what has expired goes, unless its delivery is pending.           *)
Kept_unexpired == {i \in DOMAIN entries : ~entries[i].expired}
Kept == {i \in DOMAIN entries : entries[i].pending \/ ~entries[i].expired}
prune == [i \in Kept |-> entries[i]]

Stopping == shut.pc # "up"

Idle == [pc |-> "idle"]
Init ==
  /\ entries = [i \in {} |-> Idle]
  /\ call = [c \in Calls |-> Idle]
  /\ task = [c \in Calls |-> "none"]
  /\ settler = [c \in Calls |-> "none"]
  /\ settled = [c \in Calls |-> "none"]
  /\ cancel = [k \in Cancels |-> Idle]
  /\ woken = {} /\ raised = {} /\ failed = {}
  /\ shut = [pc |-> "up"] /\ active = {}

(***************************************************************************)
(* decide_stream, up to the task it spawns. A retained id is answered      *)
(* without running anything: a conflict for another digest, in progress    *)
(* before its reply, and otherwise the reply.                              *)
(***************************************************************************)
Answered(c) == call' = [call EXCEPT ![c].pc = "gone"]

Full == Cardinality(Kept) >= MaxRetained \/ Bytes(prune) + RESERVED > MaxBytes

Retained(i) == i \in Kept

Resubmit(c, i) ==
  /\ call[c] = Idle /\ Retained(i)
  /\ Answered(c)
  /\ entries' = prune
  /\ UNCHANGED <<task, settler, settled, failed, cancel, woken, raised, shutVars>>

Refuse(c, i) ==
  /\ call[c] = Idle /\ ~Retained(i) /\ (Stopping \/ Full)
  /\ Answered(c)
  /\ entries' = prune
  /\ UNCHANGED <<task, settler, settled, failed, cancel, woken, raised, shutVars>>

Decide(c, i) ==
  /\ call[c] = Idle /\ ~Retained(i) /\ ~Stopping /\ ~Full
  /\ call' = [call EXCEPT ![c] = [pc |-> "waiting", id |-> i]]
  /\ task' = [task EXCEPT ![c] = "running"]
  /\ entries' = [j \in Kept \cup {i} |->
                   IF j # i THEN entries[j]
                   ELSE [task |-> c, reply |-> NoReply, expired |-> FALSE,
                         pending |-> FALSE, bytes |-> RESERVED]]
  /\ UNCHANGED <<settler, settled, failed, cancel, woken, raised, shutVars>>

(***************************************************************************)
(* The task. run ends with a refusal, and the entry is removed; or with a  *)
(* decision, whose evidence has a receipt, was dropped, failed or is       *)
(* queued, in which case a settlement task waits for the ticket.           *)
(***************************************************************************)
Id(c) == call[c].id

RunRefused(c, code) ==
  /\ task[c] = "running"
  /\ code = "cancelled_before_admission" => c \in raised
  /\ task' = [task EXCEPT ![c] = "notifying"]
  /\ entries' = Without(entries, Id(c))
  /\ failed' = IF code = "internal_error" THEN failed \cup {c} ELSE failed
  /\ UNCHANGED <<call, settler, settled, cancel, woken, raised, shutVars>>

RunDecides(c, delivery) ==
  /\ task[c] = "running"
  /\ task' = [task EXCEPT ![c] = IF delivery = "failed" THEN "failed" ELSE "decided"]
  /\ entries' = [entries EXCEPT ![Id(c)].pending = (delivery = "queued")]
  /\ settler' = [settler EXCEPT ![c] = IF delivery = "queued" THEN "ticket" ELSE @]
  /\ UNCHANGED <<call, settled, failed, cancel, woken, raised, shutVars>>

Publish_actual_size(c) ==
  LET reply == IF task[c] = "failed" THEN "failed" ELSE "decided" IN
  /\ task[c] \in {"decided", "failed"}
  /\ task' = [task EXCEPT ![c] = "notifying"]
  /\ entries' = [entries EXCEPT ![Id(c)].reply = reply, ![Id(c)].bytes = Size(reply)]
  /\ failed' = IF reply = "failed" THEN failed \cup {c} ELSE failed
  /\ UNCHANGED <<call, settler, settled, cancel, woken, raised, shutVars>>

(* The reply is published. While the delivery is pending the entry keeps   *)
(* room for the record of its failure.                                     *)
Publish(c) ==
  LET reply == IF task[c] = "failed" THEN "failed" ELSE "decided" IN
  /\ task[c] \in {"decided", "failed"}
  /\ task' = [task EXCEPT ![c] = "notifying"]
  /\ entries' = [entries EXCEPT ![Id(c)].reply = reply,
                                ![Id(c)].bytes = IF entries[Id(c)].pending THEN RESERVED ELSE Size(reply)]
  /\ failed' = IF reply = "failed" THEN failed \cup {c} ELSE failed
  /\ UNCHANGED <<call, settler, settled, cancel, woken, raised, shutVars>>

(* notify_waiters wakes those that have registered and still wait.         *)
Waiting(c) == {w \in {c} : settler[w] \in {"look again", "wait"}}
                \cup {k \in Cancels : cancel[k].pc \in {"look", "wait"} /\ cancel[k].task = c}
Wakes(c) == woken' = woken \cup Waiting(c)

NotifyWaiters(c) ==
  /\ task[c] = "notifying" /\ task' = [task EXCEPT ![c] = "done"]
  /\ Wakes(c)
  /\ UNCHANGED <<entries, call, settler, settled, failed, cancel, raised, shutVars>>

(* A panic in run, or in making the reply, which may come after the        *)
(* settlement was spawned: that one lives on.                              *)
Panic(c) ==
  /\ task[c] \in {"running", "decided", "failed"}
  /\ task' = [task EXCEPT ![c] = "panicked"]
  /\ UNCHANGED <<entries, call, settler, settled, failed, cancel, woken, raised, shutVars>>

(***************************************************************************)
(* The transport's future: answered, or it finds that the task panicked    *)
(* and releases the entry, or it is dropped.                               *)
(***************************************************************************)
Answer(c) ==
  /\ call[c].pc = "waiting" /\ task[c] = "done" /\ Answered(c)
  /\ UNCHANGED <<entries, task, settler, settled, failed, cancel, woken, raised, shutVars>>

AnswerPanic(c) ==
  /\ call[c].pc = "waiting" /\ task[c] = "panicked"
  /\ call' = [call EXCEPT ![c].pc = "releasing"]
  /\ entries' = Without(entries, Id(c))
  /\ UNCHANGED <<task, settler, settled, failed, cancel, woken, raised, shutVars>>

Released(c) ==
  /\ call[c].pc = "releasing" /\ Wakes(c)
  /\ Answered(c)
  /\ UNCHANGED <<entries, task, settler, settled, failed, cancel, raised, shutVars>>

Drop(c) ==
  /\ call[c].pc = "waiting" /\ task[c] # "done" /\ Answered(c)
  /\ UNCHANGED <<entries, task, settler, settled, failed, cancel, woken, raised, shutVars>>

(***************************************************************************)
(* The settlement task. The initial reply is published before settlement   *)
(* replaces it: the task waits on the entry's Notify, registering before   *)
(* it looks again.                                                         *)
(***************************************************************************)
NotPublished(i) == i \in DOMAIN entries /\ entries[i].reply = NoReply
SettlerAt(c, from, to) == settler[c] = from /\ settler' = [settler EXCEPT ![c] = to]

TicketEnds(c, how) ==
  /\ SettlerAt(c, "ticket", "look") /\ settled' = [settled EXCEPT ![c] = how]
  /\ UNCHANGED <<entries, call, task, failed, cancel, woken, raised, shutVars>>

Look(c) ==
  /\ SettlerAt(c, "look", IF NotPublished(Id(c)) THEN "register" ELSE "write")
  /\ UNCHANGED <<entries, call, task, settled, failed, cancel, woken, raised, shutVars>>

Register(c) ==
  /\ SettlerAt(c, "register", "look again") /\ woken' = woken \ {c}
  /\ UNCHANGED <<entries, call, task, settled, failed, cancel, raised, shutVars>>

LookAgain_skipped(c) ==
  /\ SettlerAt(c, "look again", "wait")
  /\ UNCHANGED <<entries, call, task, settled, failed, cancel, woken, raised, shutVars>>

LookAgain(c) ==
  /\ SettlerAt(c, "look again", IF NotPublished(Id(c)) THEN "wait" ELSE "write")
  /\ UNCHANGED <<entries, call, task, settled, failed, cancel, woken, raised, shutVars>>

Woken(c) ==
  /\ c \in woken /\ SettlerAt(c, "wait", "look")
  /\ UNCHANGED <<entries, call, task, settled, failed, cancel, woken, raised, shutVars>>

Settle_uncounted(c) ==
  /\ SettlerAt(c, "write", "done")
  /\ entries' = [i \in DOMAIN entries |->
                   IF i # Id(c) THEN entries[i]
                   ELSE [entries[i] EXCEPT !.reply = settled[c], !.pending = FALSE,
                                           !.bytes = Size(settled[c])]]
  /\ UNCHANGED <<call, task, settled, failed, cancel, woken, raised, shutVars>>

Settle(c) ==
  /\ SettlerAt(c, "write", "done")
  /\ entries' = [i \in DOMAIN entries |->
                   IF i # Id(c) THEN entries[i]
                   ELSE [entries[i] EXCEPT !.reply = settled[c], !.pending = FALSE,
                                           !.bytes = Size(settled[c])]]
  /\ failed' = IF settled[c] = "failed" THEN failed \cup {c} ELSE failed
  /\ UNCHANGED <<call, task, settled, cancel, woken, raised, shutVars>>

(* The window of a published reply passes.                                 *)
Expire(i) ==
  /\ i \in DOMAIN entries /\ entries[i].reply # NoReply /\ ~entries[i].expired
  /\ entries' = [entries EXCEPT ![i].expired = TRUE]
  /\ UNCHANGED <<call, task, settler, settled, failed, cancel, woken, raised, shutVars>>

(* lookup, and metrics: they prune.                                        *)
Lookup ==
  /\ prune # entries /\ entries' = prune
  /\ UNCHANGED <<call, task, settler, settled, failed, cancel, woken, raised, shutVars>>

(***************************************************************************)
(* cancel, with wait_ms = 0 and with a wait.                               *)
(***************************************************************************)
Cancel(k, i, wait) ==
  /\ cancel[k] = Idle /\ entries' = prune
  /\ IF i \notin Kept
     THEN cancel' = [cancel EXCEPT ![k] = [pc |-> "done"]] /\ UNCHANGED raised
     ELSE /\ cancel' = [cancel EXCEPT ![k] = [pc |-> IF wait THEN "register" ELSE "reply",
                                              id |-> i, task |-> entries[i].task]]
          /\ raised' = raised \cup {entries[i].task}
  /\ UNCHANGED <<call, task, settler, settled, failed, woken, shutVars>>

CancelAt(k, from, to) == cancel[k].pc = from /\ cancel' = [cancel EXCEPT ![k].pc = to]

CancelRegister(k) ==
  /\ CancelAt(k, "register", "look")
  /\ UNCHANGED <<decideVars, woken, raised, shutVars>>

CancelLook(k) ==
  /\ CancelAt(k, "look", IF NotPublished(cancel[k].id) THEN "wait" ELSE "reply")
  /\ UNCHANGED <<decideVars, woken, raised, shutVars>>

(* The decision ended, or wait_ms passed.                                  *)
CancelWakes(k) ==
  /\ CancelAt(k, "wait", "reply")
  /\ UNCHANGED <<decideVars, woken, raised, shutVars>>

CancelReply(k) ==
  /\ cancel[k].pc = "reply"
  /\ cancel' = [cancel EXCEPT ![k] = [pc |-> "done"]]
  /\ UNCHANGED <<decideVars, woken, raised, shutVars>>

(***************************************************************************)
(* shutdown. What the report says of a decision is read under the lock.    *)
(***************************************************************************)
BeginShutdown ==
  /\ shut.pc = "up" /\ shut' = [pc |-> "collect"]
  /\ UNCHANGED <<decideVars, cancel, woken, raised, active>>

Collect ==
  /\ shut.pc = "collect" /\ shut' = [pc |-> "drain"]
  /\ active' = {i \in DOMAIN entries : NotPublished(i)}
  /\ UNCHANGED <<decideVars, cancel, woken, raised>>

(* Every decision has its reply, or drain_ms passed.                       *)
EndDrain ==
  LET open == {i \in active : NotPublished(i)} IN
  /\ shut.pc = "drain"
  /\ raised' = raised \cup {entries[i].task : i \in open}
  /\ shut' = [pc |-> "flush", drained |-> Cardinality(active \ open), cancelled |-> Cardinality(open)]
  /\ UNCHANGED <<decideVars, cancel, woken, active>>

Unflushed == {i \in DOMAIN entries : NotPublished(i) \/ entries[i].pending}

(* Every delivery is settled too, or flush_ms passed.                      *)
EndFlush ==
  /\ shut.pc = "flush"
  /\ shut' = [pc |-> "over", drained |-> shut.drained, cancelled |-> shut.cancelled,
              unflushed |-> Unflushed, failed |-> failed,
              exit |-> IF Unflushed = {} /\ failed = {} THEN 0 ELSE 3]
  /\ UNCHANGED <<decideVars, cancel, woken, raised, active>>

Task(c) == \/ \E code \in {"refused", "cancelled_before_admission", "internal_error"} : RunRefused(c, code)
           \/ \E delivery \in {"receipt", "queued", "failed"} : RunDecides(c, delivery)
           \/ Publish(c) \/ NotifyWaiters(c) \/ Panic(c)

Settlement(c) == \/ \E how \in {"decided", "failed"} : TicketEnds(c, how)
                 \/ Look(c) \/ Register(c) \/ LookAgain(c) \/ Woken(c) \/ Settle(c)

Caller(c) == \/ \E i \in Ids : Resubmit(c, i) \/ Decide(c, i) \/ Refuse(c, i)
             \/ Answer(c) \/ AnswerPanic(c) \/ Released(c) \/ Drop(c)

Canceller(k) == \/ \E i \in Ids, wait \in BOOLEAN : Cancel(k, i, wait)
                \/ CancelRegister(k) \/ CancelLook(k) \/ CancelWakes(k) \/ CancelReply(k)

Serving == \/ \E c \in Calls : Task(c) \/ Settlement(c) \/ Caller(c)
           \/ \E k \in Cancels : Canceller(k)
           \/ \E i \in Ids : Expire(i)
           \/ Lookup
           \/ BeginShutdown \/ Collect \/ EndDrain \/ EndFlush

(* Once the report is made the process exits.                              *)
Next == \/ shut.pc # "over" /\ Serving
        \/ shut.pc = "over" /\ UNCHANGED vars

Spec == Init /\ [][Next]_vars

-----------------------------------------------------------------------------
Live(c) == task[c] \in {"running", "decided", "failed"} \/ settler[c] \notin {"none", "done"}

(* The one case nothing below speaks of: a task that panicked after its    *)
(* settlement was spawned. Its entry is released, or left, while the       *)
(* settlement will still write to whatever entry it finds under the id.    *)
Orphaned == \E c \in Calls : task[c] = "panicked" /\ settler[c] # "none"

Within == Cardinality(DOMAIN entries) <= MaxRetained /\ Bytes(entries) <= MaxBytes

(* The idempotency window stays within both of its bounds, whatever the    *)
(* deliveries that are pending turn out to be: a response is never larger  *)
(* than what admission reserved for it.                                    *)
WindowBounded == ~Orphaned => Within

Owned(c) == Id(c) \in DOMAIN entries /\ entries[Id(c)].task = c

(* An id runs once at a time, and until its evidence is settled its entry  *)
(* is still that decision's: no later request, expiry or pruning removes   *)
(* it, or lets another task or settlement write to it.                     *)
OneRunPerId == ~Orphaned => \A c \in Calls : Live(c) => Owned(c)

Honest == shut.pc = "over" /\ shut.exit = 0 =>
            \A c \in Calls : ~Live(c) /\ settled[c] # "failed" /\ c \notin failed

(* Exit 0 is the truth: at that moment every decision that was admitted    *)
(* had ended and been answered or released, every queued record had its    *)
(* receipt, and none had failed, even one that the window has forgotten.   *)
ExitHonest == ~Orphaned => Honest

Awake ==
  /\ \A c \in Calls : settler[c] = "wait" /\ task[c] = "done" => c \in woken
  /\ \A k \in Cancels : cancel[k].pc = "wait" /\ task[cancel[k].task] = "done" =>
       \/ k \in woken
       \/ \E c \in Calls \ {cancel[k].task} : task[c] # "none" /\ Id(c) = cancel[k].id

(* Nobody sleeps through the end of a decision: once its task has          *)
(* notified, its settlement is awake, and so is a cancel that waits for    *)
(* it, unless it found another decision under the same id and waits for    *)
(* that one's reply with the Notify of the first.                          *)
NoLostWake == ~Orphaned => Awake

(* Section 3.7.2 of spec 042: the entry of a decision task that panics is  *)
(* released. So an entry without a reply has a task that is running, or a  *)
(* caller who will release it.                                             *)
PanicReleases ==
  \A i \in DOMAIN entries : NotPublished(i) =>
    \/ task[entries[i].task] # "panicked"
    \/ call[entries[i].task].pc = "waiting"
=============================================================================
