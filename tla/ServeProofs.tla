---------------------------- MODULE ServeProofs ----------------------------
(***************************************************************************)
(* What the decision service keeps for every number of calls, ids and      *)
(* cancels, every window and every interleaving of decisions, settlements, *)
(* expiries, cancellations and shutdown.                                   *)
(***************************************************************************)
EXTENDS Serve, FiniteSetTheorems, TLAPS

-----------------------------------------------------------------------------
(* The inductive invariant.                                                *)

\* A decide call before it has spawned a task, and with one.
Unstarted == [pc : {"idle", "gone"}]
Started == [pc : {"waiting", "releasing", "gone"}, id : Ids]

Entry == [task : Calls, reply : {"none", "decided", "failed"}, expired : BOOLEAN,
          pending : BOOLEAN, bytes : Nat]

\* A cancel call before it has found its decision, or answered; and between.
Outside == [pc : {"idle", "done"}]
Waits == [pc : {"register", "look", "wait", "reply"}, id : Ids, task : Calls]

EntriesOK == DOMAIN entries \subseteq Ids /\ entries \in [DOMAIN entries -> Entry]

CallsOK == /\ call \in [Calls -> Unstarted \cup Started]
           /\ \A c \in Calls : task[c] # "none" <=> call[c] \in Started

CancelsOK == cancel \in [Cancels -> Outside \cup Waits]

TasksOK ==
    /\ task \in [Calls -> {"none", "running", "decided", "failed", "notifying", "done",
                           "panicked"}]
    /\ settler \in [Calls -> {"none", "ticket", "look", "register", "look again", "wait",
                              "write", "done"}]
    /\ settled \in [Calls -> {"none", "decided", "failed"}]
    /\ failed \subseteq Calls

TypeOK == EntriesOK /\ CallsOK /\ CancelsOK /\ TasksOK

\* How far a task and its settlement are: evidence is settled after the reply.
CallOK(c) ==
    /\ settler[c] # "none" => task[c] \in {"decided", "notifying", "done"}
    /\ settler[c] \in {"write", "done"} => task[c] \in {"notifying", "done"}
    /\ settled[c] = "none" <=> settler[c] \in {"none", "ticket"}
    /\ settler[c] = "done" /\ settled[c] = "failed" => c \in failed

\* A call whose entry may not be taken from it: its task or its settlement has
\* work to do, or its caller will find that the task panicked.
Holds(c) == Live(c) \/ (task[c] = "panicked" /\ call[c].pc = "waiting")

HeldOK(c) ==
    Holds(c) =>
        /\ Id(c) \in DOMAIN entries /\ entries[Id(c)].task = c
        /\ entries[Id(c)].reply = NoReply <=> task[c] \notin {"notifying", "done"}
        /\ entries[Id(c)].pending <=> settler[c] \notin {"none", "done"}

\* An entry is its task's, its window opens with the reply, and until its reply
\* and its delivery are known it has the room for either.
EntryOK(i) ==
    /\ task[entries[i].task] # "none" /\ Id(entries[i].task) = i
    /\ entries[i].reply = NoReply =>
         ~entries[i].expired /\ task[entries[i].task] \notin {"notifying", "done"}
    /\ entries[i].pending => settler[entries[i].task] \notin {"none", "done"}
    /\ entries[i].bytes <= RESERVED
    /\ entries[i].reply = NoReply \/ entries[i].pending => entries[i].bytes = RESERVED

Sound ==
    /\ \A c \in Calls : CallOK(c) /\ HeldOK(c)
    /\ \A i \in DOMAIN entries : EntryOK(i)

Window == IsFiniteSet(DOMAIN entries) /\ Within

Whole == TypeOK /\ Sound /\ Window /\ Awake /\ Honest

\* Once a settlement is orphaned it is so for good, which is all that is claimed.
IInv == CallsOK /\ TasksOK /\ (~Orphaned => Whole)

-----------------------------------------------------------------------------
(* Types.                                                                  *)

LEMMA EntryIs ==
    ASSUME EntriesOK, NEW i \in DOMAIN entries
    PROVE  /\ i \in Ids /\ entries[i] \in Entry /\ entries[i].task \in Calls
           /\ entries[i].reply \in {"none", "decided", "failed"}
           /\ entries[i].expired \in BOOLEAN /\ entries[i].pending \in BOOLEAN
           /\ entries[i].bytes \in Nat
BY DEF EntriesOK, Entry

LEMMA IdIs ==
    ASSUME CallsOK, NEW c \in Calls, task[c] # "none"
    PROVE  Id(c) \in Ids /\ call[c] \in Started
BY DEF CallsOK, Id, Started

\* Some of the entries, and one of them changed.
LEMMA EntriesShrink ==
    ASSUME EntriesOK, NEW S, S \subseteq DOMAIN entries, entries' = [i \in S |-> entries[i]]
    PROVE  EntriesOK'
BY DEF EntriesOK

LEMMA EntriesChange ==
    ASSUME EntriesOK, NEW i \in DOMAIN entries, NEW e \in Entry,
           entries' = [entries EXCEPT ![i] = e]
    PROVE  EntriesOK'
BY DEF EntriesOK

LEMMA EntriesStep == ASSUME TypeOK, Sound, Next PROVE EntriesOK'
<1>1. EntriesOK /\ CallsOK /\ CancelsOK /\ TasksOK
  BY DEF TypeOK
<1>2. Kept \subseteq DOMAIN entries
  BY DEF Kept
<1>3. CASE entries' = prune
  BY <1>1, <1>2, <1>3, EntriesShrink DEF prune
<1>4. CASE entries' = entries
  BY <1>1, <1>4 DEF EntriesOK
<1>5. ASSUME NEW i, entries' = Without(entries, i)
      PROVE  EntriesOK'
  BY <1>1, <1>5, EntriesShrink DEF Without
<1>6. ASSUME NEW c \in Calls, NEW i \in Ids, Decide(c, i)
      PROVE  EntriesOK'
  <2> DEFINE e == [task |-> c, reply |-> NoReply, expired |-> FALSE,
                   pending |-> FALSE, bytes |-> RESERVED]
  <2>1. e \in Entry
    BY ServeAssumption DEF Entry, NoReply
  <2>2. entries' = [j \in Kept \cup {i} |-> IF j # i THEN entries[j] ELSE e]
    BY <1>6 DEF Decide
  <2> HIDE DEF e
  <2>3. QED
    BY <1>1, <1>2, <2>1, <2>2 DEF EntriesOK
<1>7. ASSUME NEW c \in Calls, Holds(c)
      PROVE  Id(c) \in DOMAIN entries /\ entries[Id(c)] \in Entry
  BY <1>1, <1>7, EntryIs DEF Sound, HeldOK
<1>8. ASSUME NEW c \in Calls, NEW delivery, RunDecides(c, delivery)
      PROVE  EntriesOK'
  <2>1. Id(c) \in DOMAIN entries /\ entries[Id(c)] \in Entry
    BY <1>7, <1>8 DEF RunDecides, Holds, Live
  <2> DEFINE e == [entries[Id(c)] EXCEPT !.pending = (delivery = "queued")]
  <2>2. e \in Entry
    BY <2>1 DEF Entry
  <2>3. entries' = [entries EXCEPT ![Id(c)] = e]
    BY <1>8 DEF RunDecides
  <2> HIDE DEF e
  <2>4. QED
    BY <1>1, <2>1, <2>2, <2>3, EntriesChange
<1>9. ASSUME NEW c \in Calls, Publish(c)
      PROVE  EntriesOK'
  <2>1. Id(c) \in DOMAIN entries /\ entries[Id(c)] \in Entry
    BY <1>7, <1>9 DEF Publish, Holds, Live
  <2> DEFINE reply == IF task[c] = "failed" THEN "failed" ELSE "decided"
             bytes == IF entries[Id(c)].pending THEN RESERVED ELSE Size(reply)
             e == [entries[Id(c)] EXCEPT !.reply = reply, !.bytes = bytes]
  <2>2. reply \in {"decided", "failed"} /\ bytes \in Nat
    BY ServeAssumption DEF Size
  <2>3. entries' = [entries EXCEPT ![Id(c)] = e]
    <3>1. entries' = [entries EXCEPT ![Id(c)].reply = reply, ![Id(c)].bytes = bytes]
      BY <1>9 DEF Publish
    <3> HIDE DEF reply, bytes
    <3>2. QED
      BY <1>1, <2>1, <3>1 DEF EntriesOK
  <2>4. e \in Entry
    <3> HIDE DEF reply, bytes
    <3>1. QED
      BY <2>1, <2>2 DEF Entry
  <2> HIDE DEF e
  <2>5. QED
    BY <1>1, <2>1, <2>3, <2>4, EntriesChange
<1>10. ASSUME NEW c \in Calls, Settle(c)
       PROVE  EntriesOK'
  <2>1. settled[c] \in {"decided", "failed"} /\ Size(settled[c]) \in Nat
    BY <1>1, <1>10, ServeAssumption DEF Settle, SettlerAt, Sound, CallOK, TasksOK, Size
  <2> DEFINE bytes == Size(settled[c])
             e(i) == [entries[i] EXCEPT !.reply = settled[c], !.pending = FALSE, !.bytes = bytes]
  <2>2. \A i \in DOMAIN entries : e(i) \in Entry
    <3> HIDE DEF bytes
    <3>1. bytes \in Nat
      BY <2>1 DEF bytes
    <3>2. QED
      BY <1>1, <2>1, <3>1, EntryIs DEF Entry
  <2>3. entries' = [i \in DOMAIN entries |-> IF i # Id(c) THEN entries[i] ELSE e(i)]
    BY <1>10 DEF Settle
  <2> HIDE DEF e
  <2>4. QED
    BY <1>1, <2>2, <2>3 DEF EntriesOK
<1>11. ASSUME NEW i \in Ids, Expire(i)
       PROVE  EntriesOK'
  <2> DEFINE e == [entries[i] EXCEPT !.expired = TRUE]
  <2>1. i \in DOMAIN entries /\ entries' = [entries EXCEPT ![i] = e]
    BY <1>11 DEF Expire
  <2>2. e \in Entry
    BY <1>1, <2>1, EntryIs DEF Entry
  <2> HIDE DEF e
  <2>3. QED
    BY <1>1, <2>1, <2>2, EntriesChange
<1>12. ASSUME NEW c \in Calls, Task(c) \/ Settlement(c) \/ Caller(c)
       PROVE  EntriesOK'
  BY <1>3, <1>4, <1>5, <1>6, <1>8, <1>9, <1>10, <1>12
     DEF Task, RunRefused, NotifyWaiters, Panic, Settlement, TicketEnds, Look, Register,
         LookAgain, Woken, Caller, Resubmit, Refuse, Answer, AnswerPanic, Released, Drop
<1>13. QED
  BY <1>3, <1>4, <1>11, <1>12
     DEF Next, Serving, Canceller, Cancel, CancelRegister, CancelLook, CancelWakes, CancelReply,
         Lookup, BeginShutdown, Collect, EndDrain, EndFlush, decideVars, vars

LEMMA CallsStep == ASSUME CallsOK, TasksOK, Next PROVE CallsOK'
<1>1. CallsOK /\ TasksOK
  OBVIOUS
<1>2. CASE UNCHANGED <<call, task>>
  BY <1>1, <1>2 DEF CallsOK
<1>3. ASSUME NEW c \in Calls, NEW t, call' = call, task[c] # "none", t # "none",
             task' = [task EXCEPT ![c] = t]
      PROVE  CallsOK'
  BY <1>1, <1>3 DEF CallsOK, TasksOK
<1>4. ASSUME NEW c \in Calls, NEW x \in {"releasing", "gone"}, call[c].pc # "idle",
             call' = [call EXCEPT ![c].pc = x], task' = task, x = "gone" \/ task[c] # "none"
      PROVE  CallsOK'
  <2> DEFINE r == [call[c] EXCEPT !.pc = x]
  <2>1. call' = [call EXCEPT ![c] = r]
    BY <1>4
  <2>2. call[c] \in Unstarted => r \in Unstarted /\ x = "gone"
    BY <1>1, <1>4 DEF Unstarted, Started, CallsOK
  <2>3. call[c] \in Started => r \in Started
    BY <1>4 DEF Started
  <2>4. \A u \in Unstarted : u \notin Started
    <3>1. ASSUME NEW u \in Unstarted \cap Started PROVE FALSE
      <4>1. DOMAIN u = {"pc"} /\ DOMAIN u = {"pc", "id"}
        BY DEF Unstarted, Started
      <4>2. QED
        BY <4>1
    <3>2. QED
      BY <3>1
  <2> HIDE DEF r
  <2>5. QED
    BY <1>1, <1>4, <2>1, <2>2, <2>3, <2>4 DEF CallsOK
<1>5. ASSUME NEW c \in Calls, call[c] = Idle, call' = [call EXCEPT ![c].pc = "gone"], task' = task
      PROVE  CallsOK'
  <2> DEFINE r == [call[c] EXCEPT !.pc = "gone"]
  <2>1. call' = [call EXCEPT ![c] = r]
    BY <1>5
  <2>2. r \in Unstarted /\ r \notin Started
    <3>1. r = [pc |-> "gone"]
      BY <1>5 DEF Idle
    <3>2. QED
      BY <3>1 DEF Unstarted, Started
  <2>3. call[c] \notin Started
    BY <1>5 DEF Idle, Started
  <2> HIDE DEF r
  <2>4. QED
    BY <1>1, <1>5, <2>1, <2>2, <2>3 DEF CallsOK
<1>6. ASSUME NEW c \in Calls, NEW i \in Ids, Decide(c, i)
      PROVE  CallsOK'
  <2>1. [pc |-> "waiting", id |-> i] \in Started
    BY DEF Started
  <2>2. QED
    BY <1>1, <1>6, <2>1 DEF CallsOK, TasksOK, Decide
<1>7. ASSUME NEW c \in Calls, Caller(c)
      PROVE  CallsOK'
  <2>1. call[c].pc \in {"waiting", "releasing"} => task[c] # "none" /\ call[c].pc # "idle"
    BY <1>1 DEF CallsOK, Unstarted
  <2>2. QED
    BY <1>4, <1>5, <1>6, <1>7, <2>1
       DEF Caller, Resubmit, Refuse, Answer, AnswerPanic, Released, Drop, Answered
<1>8. ASSUME NEW c \in Calls, Task(c) \/ Settlement(c)
      PROVE  CallsOK'
  BY <1>2, <1>3, <1>8
     DEF Task, RunRefused, RunDecides, Publish, NotifyWaiters, Panic, Settlement, TicketEnds,
         Look, Register, LookAgain, Woken, Settle
<1>9. QED
  BY <1>2, <1>7, <1>8
     DEF Next, Serving, Expire, Canceller, Cancel, CancelRegister, CancelLook, CancelWakes,
         CancelReply, Lookup, BeginShutdown, Collect, EndDrain, EndFlush, decideVars, vars

LEMMA CancelsStep == ASSUME TypeOK, Next PROVE CancelsOK'
<1>1. EntriesOK /\ CancelsOK
  BY DEF TypeOK
<1>2. CASE cancel' = cancel
  BY <1>1, <1>2 DEF CancelsOK
<1>3. ASSUME NEW k \in Cancels, NEW r \in Outside \cup Waits,
             cancel' = [cancel EXCEPT ![k] = r]
      PROVE  CancelsOK'
  BY <1>1, <1>3 DEF CancelsOK
<1>4. ASSUME NEW k \in Cancels, cancel[k].pc \in {"register", "look", "wait", "reply"}
      PROVE  cancel[k] \in Waits
  BY <1>1, <1>4 DEF CancelsOK, Outside, Waits
<1>5. ASSUME NEW k \in Cancels, NEW i \in Ids, NEW wait \in BOOLEAN, Cancel(k, i, wait)
      PROVE  CancelsOK'
  <2>1. CASE i \notin Kept
    BY <1>3, <1>5, <2>1 DEF Cancel, Outside
  <2>2. CASE i \in Kept
    <3>1. entries[i].task \in Calls
      BY <1>1, <2>2, EntryIs DEF Kept
    <3>2. [pc |-> IF wait THEN "register" ELSE "reply", id |-> i, task |-> entries[i].task]
            \in Waits
      BY <3>1 DEF Waits
    <3>3. QED
      BY <1>3, <1>5, <2>2, <3>2 DEF Cancel
  <2>3. QED
    BY <2>1, <2>2
<1>6. ASSUME NEW k \in Cancels, NEW to \in {"look", "wait", "reply"},
             cancel[k].pc \in {"register", "look", "wait"},
             cancel' = [cancel EXCEPT ![k].pc = to]
      PROVE  CancelsOK'
  <2>1. [cancel[k] EXCEPT !.pc = to] \in Waits
    BY <1>4, <1>6 DEF Waits
  <2>2. QED
    BY <1>3, <1>6, <2>1
<1>7. ASSUME NEW k \in Cancels, CancelReply(k)
      PROVE  CancelsOK'
  BY <1>3, <1>7 DEF CancelReply, Outside
<1>8. ASSUME NEW k \in Cancels, Canceller(k)
      PROVE  CancelsOK'
  BY <1>5, <1>6, <1>7, <1>8 DEF Canceller, CancelRegister, CancelLook, CancelWakes, CancelAt
<1>9. QED
  BY <1>2, <1>8
     DEF Next, Serving, Task, RunRefused, RunDecides, Publish, NotifyWaiters, Panic,
         Settlement, TicketEnds, Look, Register, LookAgain, Woken, Settle, Caller, Resubmit,
         Refuse, Decide, Answer, AnswerPanic, Released, Drop, Expire, Lookup, BeginShutdown,
         Collect, EndDrain, EndFlush, vars

LEMMA TasksStep == ASSUME TasksOK, Next PROVE TasksOK'
<1>1. TasksOK
  OBVIOUS
<1>2. CASE UNCHANGED <<task, settler, settled, failed>>
  BY <1>1, <1>2 DEF TasksOK
<1>3. ASSUME NEW c \in Calls, Task(c)
      PROVE  TasksOK'
  BY <1>1, <1>3 DEF TasksOK, Task, RunRefused, RunDecides, Publish, NotifyWaiters, Panic
<1>4. ASSUME NEW c \in Calls, Settlement(c)
      PROVE  TasksOK'
  BY <1>1, <1>4, ZenonT(60)
     DEF TasksOK, Settlement, TicketEnds, Look, Register, LookAgain, Woken, Settle, SettlerAt
<1>5. ASSUME NEW c \in Calls, Caller(c)
      PROVE  TasksOK'
  BY <1>1, <1>5
     DEF TasksOK, Caller, Resubmit, Refuse, Decide, Answer, AnswerPanic, Released, Drop
<1>6. QED
  BY <1>2, <1>3, <1>4, <1>5
     DEF Next, Serving, Expire, Canceller, Cancel, CancelRegister, CancelLook, CancelWakes,
         CancelReply, Lookup, BeginShutdown, Collect, EndDrain, EndFlush, decideVars, vars

-----------------------------------------------------------------------------
(* What a step leaves alone.                                               *)

\* A call whose task and settlement do not move, but to notify.
Same(c) ==
    /\ task'[c] = task[c] \/ (task[c] = "notifying" /\ task'[c] = "done")
    /\ settler'[c] = settler[c] /\ settled'[c] = settled[c]
    /\ task[c] # "none" => Id(c)' = Id(c) /\ (call'[c].pc = "waiting" => call[c].pc = "waiting")

\* A step of the calls C on the entries D. Pruning may take any entry whose
\* reply and delivery are known.
Frame(C, D) ==
    /\ \A c \in Calls \ C : Same(c)
    /\ \A i \in DOMAIN entries' \ D : i \in DOMAIN entries /\ entries'[i] = entries[i]
    /\ \A i \in DOMAIN entries \ D :
         i \in DOMAIN entries' \/ (entries[i].reply # NoReply /\ ~entries[i].pending)
    /\ failed \subseteq failed'

\* Such a step keeps everything sound that it keeps sound itself.
LEMMA Framed ==
    ASSUME TypeOK, TypeOK', Sound, NEW C, C \subseteq Calls, NEW D, Frame(C, D),
           \A c \in Calls \ C : Holds(c) => Id(c) \notin D,
           \A i \in DOMAIN entries \ D : entries[i].task \notin C,
           \A c \in C : CallOK(c)' /\ HeldOK(c)',
           \A i \in D : i \in DOMAIN entries' => EntryOK(i)'
    PROVE  Sound'
<1>1. ASSUME NEW c \in Calls \ C
      PROVE  CallOK(c)'
  BY <1>1 DEF Sound, CallOK, Frame, Same
<1>2. ASSUME NEW c \in Calls \ C
      PROVE  HeldOK(c)'
  <2>1. SUFFICES ASSUME Holds(c)'
                 PROVE  /\ Id(c)' \in DOMAIN entries' /\ entries'[Id(c)'].task = c
                        /\ entries'[Id(c)'].reply = NoReply
                             <=> task'[c] \notin {"notifying", "done"}
                        /\ entries'[Id(c)'].pending <=> settler'[c] \notin {"none", "done"}
    BY DEF HeldOK
  <2>2. Same(c) /\ CallOK(c) /\ HeldOK(c)
    BY DEF Frame, Sound
  <2>3. task[c] # "none" /\ Holds(c) /\ Id(c)' = Id(c)
    BY <2>1, <2>2 DEF Holds, Live, Same, CallOK
  <2>4. /\ Id(c) \in DOMAIN entries \ D /\ entries[Id(c)].task = c
        /\ entries[Id(c)].reply = NoReply <=> task[c] \notin {"notifying", "done"}
        /\ entries[Id(c)].pending <=> settler[c] \notin {"none", "done"}
    BY <2>2, <2>3 DEF HeldOK
  <2>5. entries[Id(c)].reply = NoReply \/ entries[Id(c)].pending
    BY <2>2, <2>3, <2>4 DEF Holds, Live, CallOK
  <2>6. Id(c) \in DOMAIN entries' /\ entries'[Id(c)] = entries[Id(c)]
    BY <2>4, <2>5 DEF Frame
  <2>7. QED
    BY <2>2, <2>3, <2>4, <2>6 DEF Same
<1>3. ASSUME NEW i \in DOMAIN entries' \ D
      PROVE  EntryOK(i)'
  <2>1. i \in DOMAIN entries /\ entries'[i] = entries[i] /\ EntryOK(i)
    BY <1>3 DEF Frame, Sound
  <2>2. entries[i].task \in Calls \ C
    BY <1>3, <2>1, EntryIs DEF TypeOK
  <2>3. Same(entries[i].task)
    BY <2>2 DEF Frame
  <2>4. QED
    BY <2>1, <2>3 DEF EntryOK, Same
<1>4. QED
  BY <1>1, <1>2, <1>3 DEF Sound

LEMMA Quiet == ASSUME TypeOK, TypeOK', Sound, Frame({}, {}) PROVE Sound'
BY Framed

\* A step of a call that holds its entry.
LEMMA Alone ==
    ASSUME TypeOK, TypeOK', Sound, NEW c \in Calls, Holds(c), NEW i, i = Id(c),
           Frame({c}, {i}), CallOK(c)', HeldOK(c)', i \in DOMAIN entries' => EntryOK(i)'
    PROVE  Sound'
<1>1. \A b \in Calls \ {c} : Holds(b) => Id(b) \notin {i}
  BY DEF Sound, HeldOK
<1>2. \A j \in DOMAIN entries \ {i} : entries[j].task \notin {c}
  BY DEF Sound, EntryOK
<1>3. QED
  BY <1>1, <1>2, Framed

\* A call that has a task keeps its id.
LEMMA IdsStand ==
    ASSUME TypeOK, Next, NEW c \in Calls, task[c] # "none"
    PROVE  task'[c] # "none" /\ Id(c)' = Id(c)
<1>1. CallsOK /\ TasksOK /\ call[c] \in Started
  BY IdIs DEF TypeOK
<1>2. CASE UNCHANGED <<call, task>>
  BY <1>2 DEF Id
<1>3. ASSUME NEW b \in Calls, NEW x, call' = [call EXCEPT ![b].pc = x]
      PROVE  Id(c)' = Id(c)
  <2>1. CASE b = c
    <3>1. call'[c] = [call[c] EXCEPT !.pc = x]
      BY <1>1, <1>3, <2>1 DEF CallsOK
    <3>2. QED
      BY <1>1, <3>1 DEF Started, Id
  <2>2. CASE b # c
    BY <1>1, <1>3, <2>2 DEF CallsOK, Id
  <2>3. QED
    BY <2>1, <2>2
<1>4. ASSUME NEW b \in Calls, Task(b) \/ Settlement(b)
      PROVE  task'[c] # "none" /\ Id(c)' = Id(c)
  BY <1>1, <1>4
     DEF TasksOK, Task, RunRefused, RunDecides, Publish, NotifyWaiters, Panic, Settlement,
         TicketEnds, Look, Register, LookAgain, Woken, Settle, Id
<1>5. ASSUME NEW b \in Calls, NEW i \in Ids, Decide(b, i)
      PROVE  task'[c] # "none" /\ Id(c)' = Id(c)
  <2>1. b # c
    BY <1>1, <1>5 DEF Decide, Started, Idle
  <2>2. QED
    BY <1>1, <1>5, <2>1 DEF Decide, Id, CallsOK, TasksOK
<1>6. ASSUME NEW b \in Calls, Caller(b)
      PROVE  task'[c] # "none" /\ Id(c)' = Id(c)
  BY <1>3, <1>5, <1>6
     DEF Caller, Resubmit, Refuse, Answer, AnswerPanic, Released, Drop, Answered
<1>7. QED
  BY <1>2, <1>4, <1>6
     DEF Next, Serving, Expire, Canceller, Cancel, CancelRegister, CancelLook, CancelWakes,
         CancelReply, Lookup, BeginShutdown, Collect, EndDrain, EndFlush, decideVars, vars

\* What pruning takes has expired, and has nothing pending.
LEMMA Pruned ==
    ASSUME TypeOK, Sound, entries' = prune
    PROVE  /\ \A i \in DOMAIN entries' : i \in DOMAIN entries /\ entries'[i] = entries[i]
           /\ \A i \in DOMAIN entries :
                i \in DOMAIN entries' \/ (entries[i].reply # NoReply /\ ~entries[i].pending)
BY DEF prune, Kept, Sound, EntryOK

-----------------------------------------------------------------------------
(* Calls and entries.                                                      *)

\* The steps that move no task: answers, cancels, lookups and shutdown.
LEMMA QuietSteps ==
    ASSUME TypeOK, TypeOK', Sound, Next, entries' = entries \/ entries' = prune,
           UNCHANGED <<settler, settled, failed>>,
           task' = task \/ \E c \in Calls : NotifyWaiters(c),
           \A c \in Calls : call'[c].pc = "waiting" => call[c].pc = "waiting"
    PROVE  Sound'
<1>1. ASSUME NEW c \in Calls
      PROVE  Same(c)
  <2>1. task'[c] = task[c] \/ (task[c] = "notifying" /\ task'[c] = "done")
    BY ZenonT(60) DEF NotifyWaiters, TypeOK, TasksOK
  <2>2. task[c] # "none" => Id(c)' = Id(c)
    BY IdsStand
  <2>3. QED
    BY <2>1, <2>2 DEF Same
<1>2. Frame({}, {})
  BY <1>1, Pruned DEF Frame
<1>3. QED
  BY <1>2, Quiet

\* The entry of a call that holds it.
LEMMA Held ==
    ASSUME TypeOK, Sound, Next, NEW c \in Calls, Holds(c)
    PROVE  /\ Id(c) \in DOMAIN entries /\ entries[Id(c)].task = c /\ entries[Id(c)] \in Entry
           /\ entries[Id(c)].reply = NoReply <=> task[c] \notin {"notifying", "done"}
           /\ entries[Id(c)].pending <=> settler[c] \notin {"none", "done"}
           /\ Id(c)' = Id(c) /\ CallOK(c) /\ EntryOK(Id(c)) /\ entries[Id(c)].bytes \in Nat
<1>1. CallOK(c) /\ HeldOK(c) /\ \A i \in DOMAIN entries : EntryOK(i)
  BY DEF Sound
<1>2. task[c] # "none"
  BY <1>1 DEF Holds, Live, CallOK
<1>3. QED
  BY <1>1, <1>2, IdsStand, EntryIs DEF HeldOK, TypeOK

\* The frame of a step of one call.
LEMMA OneFrame ==
    ASSUME TypeOK, Next, NEW c \in Calls, NEW i,
           \A b \in Calls \ {c} : /\ task'[b] = task[b] /\ settler'[b] = settler[b]
                                  /\ settled'[b] = settled[b] /\ call'[b] = call[b],
           \A j \in DOMAIN entries' \ {i} : j \in DOMAIN entries /\ entries'[j] = entries[j],
           DOMAIN entries \ {i} \subseteq DOMAIN entries', failed \subseteq failed'
    PROVE  Frame({c}, {i})
BY IdsStand DEF Frame, Same, Id

LEMMA Settles ==
    ASSUME TypeOK, TypeOK', Sound, Next, NEW c \in Calls,
           \/ \E how \in {"decided", "failed"} : TicketEnds(c, how)
           \/ Look(c) \/ Register(c) \/ LookAgain(c) \/ Woken(c)
    PROVE  Sound'
<1> DEFINE moves == {"look", "register", "look again", "wait", "write"}
<1>1. TasksOK
  BY DEF TypeOK
<1>2. /\ settler[c] \in {"ticket", "look", "register", "look again", "wait"}
      /\ settler' = [settler EXCEPT ![c] = settler'[c]] /\ settler'[c] \in moves
      /\ settler'[c] = "write" => ~NotPublished(Id(c))
      /\ UNCHANGED <<entries, call, task, failed>>
  BY <1>1 DEF TicketEnds, Look, Register, LookAgain, Woken, SettlerAt, TasksOK
<1>3. Live(c) /\ Holds(c)
  BY <1>2 DEF Live, Holds
<1>4. /\ \A b \in Calls \ {c} : settled'[b] = settled[b]
      /\ settled'[c] # "none"
  <2>1. CASE \E how \in {"decided", "failed"} : TicketEnds(c, how)
    BY <1>1, <2>1 DEF TicketEnds, TasksOK
  <2>2. CASE Look(c) \/ Register(c) \/ LookAgain(c) \/ Woken(c)
    <3>1. settled' = settled /\ settler[c] # "ticket" /\ settler[c] # "none"
      BY <2>2 DEF Look, Register, LookAgain, Woken, SettlerAt
    <3>2. QED
      BY <3>1 DEF Sound, CallOK
  <2>3. QED
    BY <2>1, <2>2
<1>5. PICK i : i = Id(c)
  OBVIOUS
<1>6. /\ i \in DOMAIN entries /\ entries[i].task = c /\ entries[i].pending
      /\ entries[i].reply = NoReply <=> task[c] \notin {"notifying", "done"}
      /\ Id(c)' = i /\ CallOK(c) /\ EntryOK(i)
  BY <1>2, <1>3, <1>5, Held
<1>7. Frame({c}, {i})
  BY <1>1, <1>2, <1>4, OneFrame DEF TasksOK
<1>8. CallOK(c)'
  BY <1>2, <1>4, <1>5, <1>6 DEF CallOK, NotPublished
<1>9. HeldOK(c)'
  BY <1>2, <1>6 DEF HeldOK
<1>10. EntryOK(i)'
  BY <1>2, <1>6 DEF EntryOK
<1>11. QED
  BY <1>3, <1>5, <1>7, <1>8, <1>9, <1>10, Alone

LEMMA RefusedSound ==
    ASSUME TypeOK, TypeOK', Sound, Next, NEW c \in Calls,
           (\E code : RunRefused(c, code)) \/ AnswerPanic(c)
    PROVE  Sound'
<1>1. TasksOK /\ CallsOK
  BY DEF TypeOK
<1>2. Holds(c) /\ settler[c] = "none" /\ settled[c] = "none"
  BY DEF RunRefused, AnswerPanic, Holds, Live, Sound, CallOK
<1>3. /\ \A b \in Calls \ {c} : call'[b] = call[b] /\ task'[b] = task[b]
      /\ UNCHANGED <<settler, settled>> /\ failed \subseteq failed'
      /\ entries' = Without(entries, Id(c))
      /\ task'[c] = "notifying" \/ (task'[c] = "panicked" /\ call'[c].pc = "releasing")
  <2>1. CASE \E code : RunRefused(c, code)
    BY <1>1, <2>1 DEF RunRefused, TasksOK
  <2>2. CASE AnswerPanic(c)
    <3>1. call' = [call EXCEPT ![c] = [call[c] EXCEPT !.pc = "releasing"]] /\ task' = task
      BY <2>2 DEF AnswerPanic
    <3>2. "pc" \in DOMAIN call[c]
      BY <1>1 DEF CallsOK, Unstarted, Started
    <3>3. QED
      BY <1>1, <2>2, <3>1, <3>2 DEF AnswerPanic, CallsOK
  <2>3. QED
    BY <2>1, <2>2
<1>4. PICK i : i = Id(c)
  OBVIOUS
<1>5. /\ DOMAIN entries' = DOMAIN entries \ {i}
      /\ \A j \in DOMAIN entries' : entries'[j] = entries[j]
  BY <1>3, <1>4 DEF Without
<1>6. Frame({c}, {i})
  BY <1>3, <1>5, OneFrame
<1>7. CallOK(c)' /\ HeldOK(c)'
  BY <1>2, <1>3 DEF CallOK, HeldOK, Holds, Live
<1>8. QED
  BY <1>2, <1>4, <1>5, <1>6, <1>7, Alone

LEMMA RunsSound ==
    ASSUME TypeOK, TypeOK', Sound, Next, NEW c \in Calls, ~Orphaned',
           Panic(c) \/ \E delivery : RunDecides(c, delivery)
    PROVE  Sound'
<1>1. TasksOK
  BY DEF TypeOK
<1>2. /\ Holds(c) /\ settler[c] = "none" /\ settled[c] = "none"
      /\ task[c] \in {"running", "decided", "failed"}
  <2>1. CASE Panic(c)
    <3>1. task'[c] = "panicked" /\ settler'[c] = settler[c]
      BY <1>1, <2>1 DEF Panic, TasksOK
    <3>2. QED
      BY <2>1, <3>1 DEF Orphaned, Panic, Holds, Live, Sound, CallOK
  <2>2. CASE \E delivery : RunDecides(c, delivery)
    BY <2>2 DEF RunDecides, Holds, Live, Sound, CallOK
  <2>3. QED
    BY <2>1, <2>2
<1>3. PICK i : i = Id(c)
  OBVIOUS
<1>4. /\ i \in DOMAIN entries /\ entries[i].task = c /\ ~entries[i].pending
      /\ entries[i] \in Entry /\ entries[i].reply = NoReply
      /\ Id(c)' = i /\ CallOK(c) /\ EntryOK(i)
  BY <1>2, <1>3, Held
<1>5. /\ \A b \in Calls \ {c} : settler'[b] = settler[b] /\ task'[b] = task[b]
      /\ UNCHANGED <<settled, failed, call>> /\ settler'[c] \in {"none", "ticket"}
      /\ task'[c] \in {"panicked", "failed", "decided"}
      /\ settler'[c] = "ticket" => task'[c] = "decided"
      /\ DOMAIN entries' = DOMAIN entries
      /\ \A j \in DOMAIN entries \ {i} : entries'[j] = entries[j]
      /\ entries'[i].task = c /\ entries'[i].reply = NoReply
      /\ entries'[i].bytes = entries[i].bytes /\ entries'[i].expired = entries[i].expired
      /\ entries'[i].pending <=> settler'[c] = "ticket"
  <2>1. CASE Panic(c)
    BY <1>1, <1>2, <1>4, <2>1 DEF Panic, TasksOK
  <2>2. CASE \E delivery : RunDecides(c, delivery)
    <3>1. PICK delivery : RunDecides(c, delivery)
      BY <2>2
    <3> DEFINE e == [entries[i] EXCEPT !.pending = (delivery = "queued")]
    <3>2. entries' = [entries EXCEPT ![i] = e]
      BY <1>3, <3>1 DEF RunDecides
    <3>3. /\ e.task = c /\ e.reply = NoReply /\ e.bytes = entries[i].bytes
          /\ e.expired = entries[i].expired /\ e.pending = (delivery = "queued")
      BY <1>4 DEF Entry
    <3> HIDE DEF e
    <3>4. /\ DOMAIN entries' = DOMAIN entries /\ entries'[i] = e
          /\ \A j \in DOMAIN entries \ {i} : entries'[j] = entries[j]
      BY <1>4, <3>2
    <3>5. QED
      BY <1>1, <1>2, <3>1, <3>3, <3>4, ZenonT(60) DEF RunDecides, TasksOK
  <2>3. QED
    BY <2>1, <2>2
<1>6. Frame({c}, {i})
  BY <1>5, OneFrame
<1>7. CallOK(c)'
  BY <1>2, <1>5 DEF CallOK
<1>8. HeldOK(c)'
  BY <1>4, <1>5 DEF HeldOK
<1>9. EntryOK(i)'
  BY <1>4, <1>5 DEF EntryOK
<1>10. QED
  BY <1>2, <1>3, <1>6, <1>7, <1>8, <1>9, Alone

LEMMA PublishSound ==
    ASSUME TypeOK, TypeOK', Sound, Next, NEW c \in Calls, Publish(c)
    PROVE  Sound'
<1>1. TasksOK
  BY DEF TypeOK
<1>2. Holds(c) /\ task[c] \in {"decided", "failed"}
  BY DEF Publish, Holds, Live
<1>3. PICK i : i = Id(c)
  OBVIOUS
<1>4. /\ i \in DOMAIN entries /\ entries[i].task = c /\ entries[i] \in Entry
      /\ entries[i].pending <=> settler[c] \notin {"none", "done"}
      /\ Id(c)' = i /\ CallOK(c) /\ EntryOK(i)
  BY <1>2, <1>3, Held
<1> DEFINE reply == IF task[c] = "failed" THEN "failed" ELSE "decided"
           bytes == IF entries[i].pending THEN RESERVED ELSE Size(reply)
           e == [entries[i] EXCEPT !.reply = reply, !.bytes = bytes]
<1>5. /\ reply \in {"decided", "failed"} /\ bytes \in Nat /\ bytes <= RESERVED
      /\ entries[i].pending => bytes = RESERVED
  BY ServeAssumption DEF Size
<1>6. entries' = [entries EXCEPT ![i] = e]
  <2>1. entries' = [entries EXCEPT ![i].reply = reply, ![i].bytes = bytes]
    BY <1>3 DEF Publish
  <2> HIDE DEF reply, bytes
  <2>2. QED
    BY <1>4, <2>1 DEF TypeOK, EntriesOK
<1>7. /\ e.task = c /\ e.reply = reply /\ e.bytes = bytes /\ e.pending = entries[i].pending
  <2> HIDE DEF reply, bytes
  <2>1. QED
    BY <1>4 DEF Entry
<1> HIDE DEF reply, bytes, e
<1>8. /\ DOMAIN entries' = DOMAIN entries /\ entries'[i] = e
      /\ \A j \in DOMAIN entries \ {i} : entries'[j] = entries[j]
  BY <1>4, <1>6
<1>9. /\ \A b \in Calls \ {c} : task'[b] = task[b]
      /\ task'[c] = "notifying" /\ failed \subseteq failed'
      /\ UNCHANGED <<call, settler, settled>>
  BY <1>1 DEF Publish, TasksOK
<1>10. Frame({c}, {i})
  BY <1>8, <1>9, OneFrame
<1>11. CallOK(c)'
  BY <1>4, <1>9 DEF CallOK
<1>12. HeldOK(c)'
  BY <1>4, <1>5, <1>7, <1>8, <1>9 DEF HeldOK, NoReply
<1>13. EntryOK(i)'
  BY <1>4, <1>5, <1>7, <1>8, <1>9 DEF EntryOK, NoReply
<1>14. QED
  BY <1>2, <1>3, <1>10, <1>11, <1>12, <1>13, Alone

LEMMA SettleSound ==
    ASSUME TypeOK, TypeOK', Sound, Next, NEW c \in Calls, Settle(c)
    PROVE  Sound'
<1>1. TasksOK
  BY DEF TypeOK
<1>2. Holds(c) /\ settler[c] = "write"
  BY DEF Settle, SettlerAt, Holds, Live
<1>3. PICK i : i = Id(c)
  OBVIOUS
<1>4. /\ i \in DOMAIN entries /\ entries[i].task = c /\ entries[i] \in Entry
      /\ Id(c)' = i /\ CallOK(c) /\ EntryOK(i) /\ task[c] \in {"notifying", "done"}
      /\ settled[c] \in {"decided", "failed"}
  BY <1>1, <1>2, <1>3, Held, ZenonT(60) DEF CallOK, TasksOK
<1> DEFINE bytes == Size(settled[c])
           e == [entries[i] EXCEPT !.reply = settled[c], !.pending = FALSE, !.bytes = bytes]
<1>5. bytes \in Nat /\ bytes <= RESERVED
  BY ServeAssumption DEF Size
<1>6. entries' = [j \in DOMAIN entries |-> IF j # i THEN entries[j] ELSE e]
  BY <1>3 DEF Settle
<1>7. e.task = c /\ e.reply = settled[c] /\ e.bytes = bytes /\ ~e.pending
  <2> HIDE DEF bytes
  <2>1. QED
    BY <1>4 DEF Entry
<1> HIDE DEF bytes, e
<1>8. /\ DOMAIN entries' = DOMAIN entries /\ entries'[i] = e
      /\ \A j \in DOMAIN entries \ {i} : entries'[j] = entries[j]
  BY <1>4, <1>6
<1>9. /\ \A b \in Calls \ {c} : settler'[b] = settler[b]
      /\ settler'[c] = "done" /\ failed \subseteq failed'
      /\ settled[c] = "failed" => c \in failed'
      /\ UNCHANGED <<call, task, settled>>
  BY <1>1 DEF Settle, SettlerAt, TasksOK
<1>10. Frame({c}, {i})
  BY <1>8, <1>9, OneFrame
<1>11. CallOK(c)'
  BY <1>4, <1>9 DEF CallOK
<1>12. HeldOK(c)'
  BY <1>4, <1>9 DEF HeldOK, Holds, Live
<1>13. EntryOK(i)'
  BY <1>4, <1>5, <1>7, <1>8, <1>9 DEF EntryOK, NoReply
<1>14. QED
  BY <1>2, <1>3, <1>10, <1>11, <1>12, <1>13, Alone

LEMMA ExpireSound ==
    ASSUME TypeOK, TypeOK', Sound, Next, NEW i \in Ids, Expire(i)
    PROVE  Sound'
<1>1. i \in DOMAIN entries /\ entries[i] \in Entry /\ EntryOK(i) /\ entries[i].reply # NoReply
  BY EntryIs DEF Expire, TypeOK, Sound
<1>2. PICK c \in Calls : c = entries[i].task
  BY <1>1, EntryIs DEF TypeOK
<1> DEFINE e == [entries[i] EXCEPT !.expired = TRUE]
<1>3. entries' = [entries EXCEPT ![i] = e] /\ UNCHANGED <<call, task, settler, settled, failed>>
  BY DEF Expire
<1>4. /\ e.task = c /\ e.reply = entries[i].reply /\ e.bytes = entries[i].bytes
      /\ e.pending = entries[i].pending
  BY <1>1, <1>2 DEF Entry
<1> HIDE DEF e
<1>5. /\ DOMAIN entries' = DOMAIN entries /\ entries'[i] = e
      /\ \A j \in DOMAIN entries \ {i} : entries'[j] = entries[j]
  BY <1>1, <1>3
<1>6. Frame({c}, {i})
  BY <1>3, <1>5, OneFrame
<1>7. CallOK(c)' /\ Id(c) = i /\ HeldOK(c)
  BY <1>1, <1>2, <1>3 DEF Sound, CallOK, EntryOK
<1>8. HeldOK(c)'
  BY <1>3, <1>4, <1>5, <1>7 DEF HeldOK, Holds, Live, Id
<1>9. EntryOK(i)'
  BY <1>1, <1>2, <1>3, <1>4, <1>5 DEF EntryOK, Id
<1>10. \A b \in Calls \ {c} : Holds(b) => Id(b) \notin {i}
  BY <1>2 DEF Sound, HeldOK
<1>11. \A j \in DOMAIN entries \ {i} : entries[j].task \notin {c}
  BY <1>1, <1>2 DEF Sound, EntryOK
<1>12. QED
  BY <1>6, <1>7, <1>8, <1>9, <1>10, <1>11, Framed

LEMMA DecideSound ==
    ASSUME TypeOK, TypeOK', Sound, Next, NEW c \in Calls, NEW i \in Ids, Decide(c, i)
    PROVE  Sound'
<1>1. TasksOK /\ CallsOK /\ call[c] = Idle /\ i \notin Kept
  BY DEF TypeOK, Decide, Retained
<1>2. task[c] = "none"
  BY <1>1 DEF CallsOK, Idle, Started
<1>3. settler[c] = "none" /\ settled[c] = "none"
  BY <1>2 DEF Sound, CallOK
<1> DEFINE e == [task |-> c, reply |-> NoReply, expired |-> FALSE,
                 pending |-> FALSE, bytes |-> RESERVED]
<1>4. entries' = [j \in Kept \cup {i} |-> IF j # i THEN entries[j] ELSE e]
  BY DEF Decide
<1>5. e.task = c /\ e.reply = NoReply /\ ~e.expired /\ ~e.pending /\ e.bytes = RESERVED
  OBVIOUS
<1> HIDE DEF e
<1>6. /\ i \in DOMAIN entries' /\ entries'[i] = e
      /\ \A j \in DOMAIN entries' \ {i} : j \in Kept /\ entries'[j] = entries[j]
      /\ \A j \in Kept \ {i} : j \in DOMAIN entries'
  BY <1>4
<1>7. /\ Kept \subseteq DOMAIN entries
      /\ \A j \in DOMAIN entries : j \in Kept \/ (entries[j].reply # NoReply /\ ~entries[j].pending)
  BY DEF Kept, Sound, EntryOK
<1>8. /\ task' = [task EXCEPT ![c] = "running"] /\ UNCHANGED <<settler, settled, failed>>
      /\ call' = [call EXCEPT ![c] = [pc |-> "waiting", id |-> i]]
  BY DEF Decide
<1>9. task'[c] = "running" /\ Id(c)' = i
  BY <1>1, <1>8 DEF TasksOK, CallsOK, Id
<1>10. \A b \in Calls \ {c} : Same(b)
  BY <1>1, <1>8 DEF Same, TasksOK, CallsOK, Id
<1>11. Frame({c}, {i})
  BY <1>6, <1>7, <1>8, <1>10 DEF Frame
<1>12. CallOK(c)' /\ HeldOK(c)'
  BY <1>3, <1>5, <1>6, <1>8, <1>9 DEF CallOK, HeldOK
<1>13. EntryOK(i)'
  BY <1>3, <1>5, <1>6, <1>8, <1>9, ServeAssumption DEF EntryOK
<1>14. ASSUME NEW b \in Calls \ {c}, Holds(b)
       PROVE  Id(b) \notin {i}
  <2>1. Id(b) \in DOMAIN entries /\ (entries[Id(b)].reply = NoReply \/ entries[Id(b)].pending)
    BY <1>14 DEF Sound, HeldOK, CallOK, Holds, Live
  <2>2. QED
    BY <1>1, <1>7, <2>1
<1>15. \A j \in DOMAIN entries \ {i} : entries[j].task \notin {c}
  BY <1>2 DEF Sound, EntryOK
<1>16. QED
  BY <1>11, <1>12, <1>13, <1>14, <1>15, Framed

LEMMA TypeStep == ASSUME TypeOK, Sound, Next PROVE TypeOK'
BY EntriesStep, CallsStep, CancelsStep, TasksStep DEF TypeOK

LEMMA SoundStep == ASSUME TypeOK, Sound, Next, ~Orphaned' PROVE Sound'
<1>1. TypeOK'
  BY TypeStep
<1>2. ASSUME NEW c \in Calls, Answered(c)
      PROVE  \A b \in Calls : call'[b].pc = "waiting" => call[b].pc = "waiting"
  <2>1. call' = [call EXCEPT ![c] = [call[c] EXCEPT !.pc = "gone"]] /\ "pc" \in DOMAIN call[c]
    BY <1>2 DEF Answered, TypeOK, CallsOK, Unstarted, Started
  <2>2. QED
    BY <2>1 DEF TypeOK, CallsOK
<1>3. ASSUME NEW c \in Calls, \/ Answer(c) \/ Released(c) \/ Drop(c)
                              \/ \E i \in Ids : Resubmit(c, i) \/ Refuse(c, i)
      PROVE  Sound'
  <2>1. /\ entries' = entries \/ entries' = prune
        /\ UNCHANGED <<task, settler, settled, failed>> /\ Answered(c)
    BY <1>3 DEF Answer, Released, Drop, Resubmit, Refuse
  <2>2. QED
    BY <1>1, <1>2, <2>1, QuietSteps
<1>4. ASSUME NEW c \in Calls, NotifyWaiters(c)
      PROVE  Sound'
  <2>1. UNCHANGED <<entries, call, settler, settled, failed>>
    BY <1>4 DEF NotifyWaiters
  <2>2. QED
    BY <1>1, <1>4, <2>1, QuietSteps
<1>5. CASE entries' \in {entries, prune} /\ UNCHANGED <<call, task, settler, settled, failed>>
  BY <1>1, <1>5, QuietSteps
<1>6. ASSUME NEW c \in Calls, Task(c)
      PROVE  Sound'
  BY <1>1, <1>4, <1>6, RefusedSound, RunsSound, PublishSound DEF Task
<1>7. ASSUME NEW c \in Calls, Settlement(c)
      PROVE  Sound'
  BY <1>1, <1>7, Settles, SettleSound DEF Settlement
<1>8. ASSUME NEW c \in Calls, Caller(c)
      PROVE  Sound'
  BY <1>1, <1>3, <1>8, DecideSound, RefusedSound DEF Caller
<1>9. ASSUME NEW i \in Ids, Expire(i)
      PROVE  Sound'
  BY <1>1, <1>9, ExpireSound
<1>10. QED
  BY <1>5, <1>6, <1>7, <1>8, <1>9
     DEF Next, Serving, Canceller, Cancel, CancelRegister, CancelLook, CancelWakes,
         CancelReply, Lookup, BeginShutdown, Collect, EndDrain, EndFlush, decideVars, vars

-----------------------------------------------------------------------------
(* Wakes.                                                                  *)

\* Only a settlement that registers again forgets that it was woken.
LEMMA WokenStand ==
    ASSUME Next, NEW w \in woken, w \notin woken'
    PROVE  w \in Calls /\ settler[w] = "register" /\ Register(w)
<1>1. ASSUME NEW c \in Calls, Task(c) \/ Caller(c)
      PROVE  FALSE
  BY <1>1
     DEF Task, RunRefused, RunDecides, Publish, NotifyWaiters, Panic, Wakes, Caller, Resubmit,
         Refuse, Decide, Answer, AnswerPanic, Released, Drop
<1>2. ASSUME NEW c \in Calls, Settlement(c)
      PROVE  w = c /\ settler[w] = "register" /\ Register(w)
  BY <1>2 DEF Settlement, TicketEnds, Look, Register, LookAgain, Woken, Settle, SettlerAt
<1>3. QED
  BY <1>1, <1>2
     DEF Next, Serving, Expire, Canceller, Cancel, CancelRegister, CancelLook, CancelWakes,
         CancelReply, Lookup, BeginShutdown, Collect, EndDrain, EndFlush, vars

\* A task is done when it has notified.
LEMMA DoneNotifies ==
    ASSUME TypeOK, Next, NEW c \in Calls, task[c] # "done", task'[c] = "done"
    PROVE  NotifyWaiters(c)
<1>1. TasksOK
  BY DEF TypeOK
<1>2. ASSUME NEW b \in Calls, Task(b)
      PROVE  NotifyWaiters(c)
  BY <1>1, <1>2 DEF Task, RunRefused, RunDecides, Publish, NotifyWaiters, Panic, TasksOK
<1>3. ASSUME NEW b \in Calls, Caller(b) \/ Settlement(b)
      PROVE  FALSE
  BY <1>1, <1>3
     DEF TasksOK, Caller, Resubmit, Refuse, Decide, Answer, AnswerPanic, Released, Drop,
         Settlement, TicketEnds, Look, Register, LookAgain, Woken, Settle
<1>4. QED
  BY <1>2, <1>3
     DEF Next, Serving, Expire, Canceller, Cancel, CancelRegister, CancelLook, CancelWakes,
         CancelReply, Lookup, BeginShutdown, Collect, EndDrain, EndFlush, decideVars, vars

LEMMA WakeStep == ASSUME TypeOK, Sound, Awake, Next PROVE Awake'
<1>1. ASSUME NEW c \in Calls, settler'[c] = "wait", settler[c] # "wait"
      PROVE  LookAgain(c) /\ NotPublished(Id(c))
  <2>1. TasksOK
    BY DEF TypeOK
  <2>2. ASSUME NEW b \in Calls, Settlement(b)
        PROVE  LookAgain(c) /\ NotPublished(Id(c))
    BY <1>1, <2>1, <2>2
       DEF TasksOK, Settlement, TicketEnds, Look, Register, LookAgain, Woken, Settle, SettlerAt
  <2>3. ASSUME NEW b \in Calls, Task(b) \/ Caller(b)
        PROVE  FALSE
    BY <1>1, <2>1, <2>3
       DEF TasksOK, Caller, Resubmit, Refuse, Decide, Answer, AnswerPanic, Released, Drop,
           Task, RunRefused, RunDecides, Publish, NotifyWaiters, Panic
  <2>4. QED
    BY <1>1, <2>2, <2>3
       DEF Next, Serving, Expire, Canceller, Cancel, CancelRegister, CancelLook, CancelWakes,
           CancelReply, Lookup, BeginShutdown, Collect, EndDrain, EndFlush, decideVars, vars
<1>2. ASSUME NEW c \in Calls, settler'[c] = "wait", task'[c] = "done"
      PROVE  c \in woken'
  <2>1. CASE settler[c] # "wait"
    <3>1. LookAgain(c) /\ NotPublished(Id(c)) /\ settler[c] = "look again" /\ task' = task
      BY <1>1, <1>2, <2>1 DEF LookAgain, SettlerAt
    <3>2. HeldOK(c) /\ Holds(c)
      BY <3>1 DEF Sound, Holds, Live
    <3>3. QED
      BY <1>2, <3>1, <3>2 DEF HeldOK, NotPublished
  <2>2. CASE settler[c] = "wait" /\ task[c] # "done"
    BY <1>2, <2>2, DoneNotifies DEF NotifyWaiters, Wakes, Waiting
  <2>3. CASE settler[c] = "wait" /\ task[c] = "done"
    BY <2>3, WokenStand DEF Awake
  <2>4. QED
    BY <2>1, <2>2, <2>3
<1>3. ASSUME NEW k \in Cancels, cancel'[k].pc = "wait"
      PROVE  /\ cancel[k].pc \in {"look", "wait"} /\ cancel[k] \in Waits
             /\ cancel'[k].id = cancel[k].id /\ cancel'[k].task = cancel[k].task
             /\ cancel[k].pc = "look" => CancelLook(k) /\ NotPublished(cancel[k].id)
  <2>1. CancelsOK
    BY DEF TypeOK
  <2>2. cancel[k].pc \in {"look", "wait"} => cancel[k] \in Waits
    BY <2>1 DEF CancelsOK, Outside, Waits
  <2>3. CASE cancel'[k] = cancel[k]
    BY <1>3, <2>2, <2>3
  <2>4. CASE cancel'[k] # cancel[k]
    <3>1. PICK j \in Cancels : Canceller(j)
      BY <2>4
         DEF Next, Serving, Task, RunRefused, RunDecides, Publish, NotifyWaiters, Panic,
             Settlement, TicketEnds, Look, Register, LookAgain, Woken, Settle, Caller,
             Resubmit, Refuse, Decide, Answer, AnswerPanic, Released, Drop, Expire, Lookup,
             BeginShutdown, Collect, EndDrain, EndFlush, vars
    <3>2. j = k
      BY <2>1, <2>4, <3>1
         DEF Canceller, Cancel, CancelRegister, CancelLook, CancelWakes, CancelReply,
             CancelAt, CancelsOK
    <3>3. ASSUME NEW i, NEW wait, Cancel(k, i, wait)
          PROVE  FALSE
      BY <1>3, <2>1, <3>3 DEF Cancel, CancelsOK
    <3>4. ASSUME NEW from, NEW to, CancelAt(k, from, to)
          PROVE  to = "wait" /\ cancel'[k] = [cancel[k] EXCEPT !.pc = to]
      BY <1>3, <2>1, <3>4 DEF CancelAt, CancelsOK, Outside, Waits
    <3>5. CancelLook(k) /\ NotPublished(cancel[k].id) /\ cancel[k].pc = "look"
      BY <1>3, <2>1, <3>1, <3>2, <3>3, <3>4
         DEF Canceller, CancelRegister, CancelLook, CancelWakes, CancelReply, CancelAt, CancelsOK
    <3>6. cancel'[k] = [cancel[k] EXCEPT !.pc = "wait"]
      BY <3>4, <3>5 DEF CancelLook
    <3>7. QED
      BY <2>2, <3>5, <3>6 DEF Waits
  <2>5. QED
    BY <2>3, <2>4
<1>4. ASSUME NEW k \in Cancels, cancel'[k].pc = "wait", task'[cancel'[k].task] = "done"
      PROVE  \/ k \in woken'
             \/ \E c \in Calls \ {cancel'[k].task} : task'[c] # "none" /\ Id(c)' = cancel'[k].id
  <2>1. PICK t \in Calls, i \in Ids : t = cancel[k].task /\ i = cancel[k].id
    BY <1>3, <1>4 DEF Waits
  <2>2. /\ cancel'[k].task = t /\ cancel'[k].id = i /\ task'[t] = "done"
        /\ cancel[k].pc \in {"look", "wait"}
    BY <1>3, <1>4, <2>1
  <2>3. ASSUME \E c \in Calls \ {t} : task[c] # "none" /\ Id(c) = i
        PROVE  \E c \in Calls \ {t} : task'[c] # "none" /\ Id(c)' = i
    BY <2>3, IdsStand
  <2>4. CASE task[t] # "done"
    BY <1>4, <2>1, <2>2, <2>4, DoneNotifies DEF NotifyWaiters, Wakes, Waiting
  <2>5. CASE task[t] = "done" /\ cancel[k].pc = "wait"
    <3>1. k \in woken => k \in woken'
      BY WokenStand, ServeAssumption
    <3>2. QED
      BY <2>1, <2>2, <2>3, <2>5, <3>1 DEF Awake
  <2>6. CASE task[t] = "done" /\ cancel[k].pc = "look"
    <3>1. NotPublished(i)
      BY <1>3, <1>4, <2>1, <2>6
    <3>2. /\ entries[i].task \in Calls /\ task[entries[i].task] \notin {"none", "done"}
          /\ Id(entries[i].task) = i
      BY <3>1, EntryIs DEF NotPublished, Sound, EntryOK, TypeOK
    <3>3. QED
      BY <2>2, <2>3, <2>6, <3>2
  <2>7. QED
    BY <2>2, <2>4, <2>5, <2>6
<1>5. QED
  BY <1>2, <1>4 DEF Awake

-----------------------------------------------------------------------------
(* The exit code.                                                          *)

LEMMA ExitStep == ASSUME TypeOK, Sound, Honest, Next PROVE Honest'
<1>1. CASE EndFlush
  <2>1. SUFFICES ASSUME Unflushed = {}, failed = {}, NEW c \in Calls
                 PROVE  ~Live(c) /\ settled[c] # "failed"
    BY <1>1 DEF EndFlush, Honest, decideVars, Live
  <2>2. CallOK(c) /\ HeldOK(c)
    BY DEF Sound
  <2>3. ASSUME Live(c) PROVE FALSE
    <3>1. /\ Id(c) \in DOMAIN entries
          /\ entries[Id(c)].reply = NoReply \/ entries[Id(c)].pending
      BY <2>2, <2>3 DEF CallOK, HeldOK, Holds, Live
    <3>2. QED
      BY <2>1, <3>1 DEF Unflushed, NotPublished
  <2>4. QED
    BY <2>1, <2>2, <2>3 DEF CallOK, Live
<1>2. CASE shut.pc = "over" /\ UNCHANGED vars
  BY <1>2 DEF vars, decideVars, shutVars, Honest, Live
<1>3. CASE shut.pc # "over" /\ shut' = shut
  BY <1>3 DEF Honest
<1>4. CASE BeginShutdown \/ Collect \/ EndDrain
  BY <1>4 DEF Honest, BeginShutdown, Collect, EndDrain
<1>5. QED
  BY <1>1, <1>2, <1>3, <1>4
     DEF Next, Serving, Task, RunRefused, RunDecides, Publish, NotifyWaiters, Panic,
         Settlement, TicketEnds, Look, Register, LookAgain, Woken, Settle, Caller,
         Resubmit, Refuse, Decide, Answer, AnswerPanic, Released, Drop, Expire, Lookup,
         Canceller, Cancel, CancelRegister, CancelLook, CancelWakes, CancelReply, shutVars

-----------------------------------------------------------------------------
(* The window.                                                             *)

\* Entries have finitely many bytes.
LEMMA FiniteUnits ==
    ASSUME NEW es, IsFiniteSet(DOMAIN es), \A i \in DOMAIN es : es[i].bytes \in Nat
    PROVE  IsFiniteSet(Units(es))
<1> DEFINE S == {{i} \X (1..es[i].bytes) : i \in DOMAIN es}
<1>1. IsFiniteSet(S)
  <2> DEFINE D == DOMAIN es
             f == [i \in D |-> {i} \X (1..es[i].bytes)]
  <2>1. f \in Surjection(D, S)
    BY DEF Surjection
  <2> HIDE DEF D, f, S
  <2>2. IsFiniteSet(D)
    BY DEF D
  <2>3. QED
    BY <2>1, <2>2, FS_Surjection
<1>2. ASSUME NEW i \in DOMAIN es
      PROVE  IsFiniteSet({i} \X (1..es[i].bytes))
  <2>1. IsFiniteSet({i})
    BY FS_Singleton
  <2>2. IsFiniteSet(1..es[i].bytes)
    BY FS_Interval
  <2>3. QED
    BY <2>1, <2>2, FS_Product
<1>3. QED
  BY <1>1, <1>2, FS_UNION DEF Units

\* Fewer or smaller entries have no more of them.
LEMMA UnitsShrink ==
    ASSUME NEW es, IsFiniteSet(DOMAIN es), \A i \in DOMAIN es : es[i].bytes \in Nat,
           NEW fs, DOMAIN fs \subseteq DOMAIN es,
           \A i \in DOMAIN fs : fs[i].bytes \in Nat /\ fs[i].bytes <= es[i].bytes
    PROVE  /\ IsFiniteSet(DOMAIN fs) /\ Cardinality(DOMAIN fs) <= Cardinality(DOMAIN es)
           /\ Bytes(fs) <= Bytes(es) /\ Bytes(fs) \in Nat /\ Bytes(es) \in Nat
<1>1. IsFiniteSet(DOMAIN fs) /\ Cardinality(DOMAIN fs) <= Cardinality(DOMAIN es)
  BY FS_Subset
<1>2. IsFiniteSet(Units(es))
  BY FiniteUnits
<1>3. Units(fs) \subseteq Units(es)
  BY DEF Units
<1>4. QED
  BY <1>1, <1>2, <1>3, FS_Subset, FS_CardinalityType DEF Bytes

\* An entry more has its own bytes more.
LEMMA UnitsGrow ==
    ASSUME NEW es, IsFiniteSet(DOMAIN es), \A i \in DOMAIN es : es[i].bytes \in Nat,
           NEW fs, NEW i, DOMAIN fs = DOMAIN es \cup {i}, i \notin DOMAIN es,
           \A j \in DOMAIN es : fs[j] = es[j],
           NEW n \in Nat, fs[i].bytes = n
    PROVE  /\ IsFiniteSet(DOMAIN fs) /\ Cardinality(DOMAIN fs) = Cardinality(DOMAIN es) + 1
           /\ Bytes(fs) <= Bytes(es) + n /\ Bytes(es) \in Nat
<1>1. IsFiniteSet(DOMAIN fs) /\ Cardinality(DOMAIN fs) = Cardinality(DOMAIN es) + 1
  BY FS_AddElement
<1> DEFINE new == {i} \X (1..n)
<1>2. IsFiniteSet(new) /\ Cardinality(new) = n
  <2>1. IsFiniteSet({i}) /\ Cardinality({i}) = 1
    BY FS_Singleton
  <2>2. IsFiniteSet(1..n) /\ Cardinality(1..n) = n
    BY FS_Interval
  <2>3. QED
    BY <2>1, <2>2, FS_Product
<1>3. Units(fs) = Units(es) \cup new
  BY DEF Units
<1>4. IsFiniteSet(Units(es))
  BY FiniteUnits
<1> HIDE DEF new
<1>5. Cardinality(Units(es) \cup new) <= Cardinality(Units(es)) + Cardinality(new)
  <2>1. Cardinality(Units(es) \cup new)
          = Cardinality(Units(es)) + Cardinality(new) - Cardinality(Units(es) \cap new)
    BY <1>2, <1>4, FS_Union
  <2>2. IsFiniteSet(Units(es) \cap new)
    BY <1>4, FS_Intersection
  <2>3. /\ Cardinality(Units(es)) \in Nat /\ Cardinality(new) \in Nat
        /\ Cardinality(Units(es) \cap new) \in Nat
    BY <1>2, <1>4, <2>2, FS_CardinalityType
  <2>4. QED
    BY <2>1, <2>3
<1>6. QED
  BY <1>1, <1>2, <1>3, <1>4, <1>5, FS_CardinalityType DEF Bytes

LEMMA WindowStep == ASSUME TypeOK, Sound, Window, Next, ~Orphaned' PROVE Window'
<1>1. \A i \in DOMAIN entries : entries[i] \in Entry /\ entries[i].bytes \in Nat /\ EntryOK(i)
  BY EntryIs DEF TypeOK, Sound
<1>2. TypeOK' /\ Sound'
  BY TypeStep, SoundStep
<1>3. \A i \in DOMAIN entries' : entries'[i].bytes \in Nat /\ EntryOK(i)'
  <2>1. EntriesOK'
    BY <1>2 DEF TypeOK
  <2>2. ASSUME NEW i \in DOMAIN entries'
        PROVE  entries'[i].bytes \in Nat
    BY <2>1 DEF EntriesOK, Entry
  <2>3. QED
    BY <1>2, <2>2 DEF Sound
<1>4. IsFiniteSet(DOMAIN entries) /\ Cardinality(DOMAIN entries) \in Nat
      /\ Cardinality(DOMAIN entries) <= MaxRetained /\ Bytes(entries) <= MaxBytes
  BY FS_CardinalityType DEF Window, Within
<1>5. ASSUME DOMAIN entries' \subseteq DOMAIN entries,
             \A i \in DOMAIN entries' : entries'[i].bytes <= entries[i].bytes
      PROVE  Window'
  <2>1. /\ IsFiniteSet(DOMAIN entries')
        /\ Cardinality(DOMAIN entries') <= Cardinality(DOMAIN entries)
        /\ Bytes(entries') <= Bytes(entries) /\ Bytes(entries') \in Nat /\ Bytes(entries) \in Nat
    BY <1>1, <1>3, <1>4, <1>5, UnitsShrink
  <2>2. Cardinality(DOMAIN entries') \in Nat
    BY <2>1, FS_CardinalityType
  <2>3. QED
    BY <1>4, <2>1, <2>2, ServeAssumption DEF Window, Within, Bytes, Units
<1>6. CASE entries' = entries
  BY <1>6 DEF Window, Within
<1>7. CASE entries' = prune
  BY <1>1, <1>5, <1>7 DEF prune, Kept
<1>8. ASSUME NEW i, entries' = Without(entries, i)
      PROVE  Window'
  BY <1>1, <1>5, <1>8 DEF Without
<1>9. ASSUME NEW c \in Calls, Publish(c) \/ Settle(c) \/ \E delivery : RunDecides(c, delivery)
      PROVE  Window'
  <2>1. Holds(c)
    BY <1>9 DEF Publish, Settle, SettlerAt, RunDecides, Holds, Live
  <2>2. PICK i : i = Id(c)
    OBVIOUS
  <2>3. /\ i \in DOMAIN entries /\ entries[i].bytes = RESERVED
    BY <2>1, <2>2, Held DEF EntryOK, Holds, Live, CallOK
  <2>4. /\ DOMAIN entries' = DOMAIN entries
        /\ \A j \in DOMAIN entries \ {i} : entries'[j] = entries[j]
    BY <1>9, <2>2 DEF Publish, Settle, RunDecides
  <2>5. \A j \in DOMAIN entries' : entries'[j].bytes <= entries[j].bytes
    <3>1. entries'[i].bytes <= RESERVED
      BY <1>3, <2>3, <2>4 DEF EntryOK
    <3>2. QED
      BY <1>1, <2>3, <2>4, <3>1
  <2>6. QED
    BY <1>5, <2>4, <2>5
<1>10. ASSUME NEW i \in Ids, Expire(i)
       PROVE  Window'
  <2>1. /\ DOMAIN entries' = DOMAIN entries
        /\ \A j \in DOMAIN entries : entries'[j].bytes = entries[j].bytes
    BY <1>1, <1>10 DEF Expire, Entry, TypeOK, EntriesOK
  <2>2. QED
    BY <1>1, <1>5, <2>1
<1>11. ASSUME NEW c \in Calls, NEW i \in Ids, Decide(c, i)
       PROVE  Window'
  <2>1. /\ DOMAIN prune = Kept /\ i \notin Kept /\ Kept \subseteq DOMAIN entries
        /\ \A j \in Kept : prune[j] = entries[j]
    BY <1>11 DEF Decide, Retained, prune, Kept
  <2>2. IsFiniteSet(Kept) /\ Cardinality(Kept) \in Nat /\ ~Full
    BY <1>4, <1>11, <2>1, FS_Subset, FS_CardinalityType DEF Decide
  <2>3. /\ DOMAIN entries' = Kept \cup {i} /\ entries'[i].bytes = RESERVED
        /\ \A j \in Kept : entries'[j] = prune[j]
    BY <1>11, <2>1 DEF Decide
  <2>4. /\ IsFiniteSet(DOMAIN entries') /\ Cardinality(DOMAIN entries') = Cardinality(Kept) + 1
        /\ Bytes(entries') <= Bytes(prune) + RESERVED /\ Bytes(prune) \in Nat
    BY <1>1, <2>1, <2>2, <2>3, ServeAssumption, UnitsGrow
  <2>5. Cardinality(Kept) < MaxRetained /\ Bytes(prune) + RESERVED <= MaxBytes
    BY <2>2, <2>4, ServeAssumption DEF Full
  <2>6. Bytes(entries') \in Nat
    BY <1>3, <2>4, FiniteUnits, FS_CardinalityType DEF Bytes
  <2>7. QED
    BY <2>2, <2>4, <2>5, <2>6, ServeAssumption DEF Window, Within, Bytes, Units
<1>12. ASSUME NEW c \in Calls, Task(c) \/ Settlement(c) \/ Caller(c)
       PROVE  Window'
  BY <1>6, <1>7, <1>8, <1>9, <1>11, <1>12
     DEF Task, RunRefused, NotifyWaiters, Panic, Settlement, TicketEnds, Look, Register,
         LookAgain, Woken, Caller, Resubmit, Refuse, Answer, AnswerPanic, Released, Drop
<1>13. QED
  BY <1>6, <1>7, <1>10, <1>12
     DEF Next, Serving, Canceller, Cancel, CancelRegister, CancelLook, CancelWakes, CancelReply,
         Lookup, BeginShutdown, Collect, EndDrain, EndFlush, decideVars, vars

-----------------------------------------------------------------------------
(* The theorems.                                                           *)

LEMMA Start == ASSUME Init PROVE IInv
<1>1. DOMAIN entries = {} /\ entries \in [DOMAIN entries -> Entry]
  BY DEF Init
<1>2. TypeOK
  BY <1>1
     DEF Init, TypeOK, EntriesOK, CallsOK, CancelsOK, TasksOK, Idle, Unstarted, Started, Outside
<1>3. Sound
  BY <1>1 DEF Init, Sound, CallOK, HeldOK, Holds, Live
<1>4. Window
  <2>1. Units(entries) = {}
    BY <1>1 DEF Units
  <2>2. QED
    BY <1>1, <2>1, FS_EmptySet, ServeAssumption DEF Window, Within, Bytes
<1>5. Awake /\ Honest
  BY DEF Init, Awake, Honest, Idle
<1>6. QED
  BY <1>2, <1>3, <1>4, <1>5 DEF IInv, Whole, TypeOK

\* A panicked task stays panicked, and its settlement is never forgotten.
LEMMA OrphansStay == ASSUME CallsOK, TasksOK, [Next]_vars, Orphaned PROVE Orphaned'
<1>1. PICK c \in Calls : task[c] = "panicked" /\ settler[c] # "none"
  BY DEF Orphaned
<1>2. CASE UNCHANGED <<task, settler>>
  BY <1>1, <1>2 DEF Orphaned
<1>3. ASSUME NEW b \in Calls, Task(b)
      PROVE  Orphaned'
  BY <1>1, <1>3
     DEF Task, RunRefused, RunDecides, Publish, NotifyWaiters, Panic, TasksOK, Orphaned
<1>4. ASSUME NEW b \in Calls, Settlement(b)
      PROVE  Orphaned'
  <2>1. task' = task /\ (settler'[c] = settler[c] \/ settler'[c] # "none")
    BY <1>4
       DEF Settlement, TicketEnds, Look, Register, LookAgain, Woken, Settle, SettlerAt, TasksOK
  <2>2. QED
    BY <1>1, <2>1 DEF Orphaned
<1>5. ASSUME NEW b \in Calls, Caller(b)
      PROVE  Orphaned'
  <2>1. CASE \E i \in Ids : Decide(b, i)
    <3>1. b # c
      BY <1>1, <2>1 DEF Decide, CallsOK, Idle, Started
    <3>2. task'[c] = task[c] /\ settler' = settler
      BY <2>1, <3>1 DEF Decide, TasksOK
    <3>3. QED
      BY <1>1, <3>2 DEF Orphaned
  <2>2. CASE UNCHANGED <<task, settler>>
    BY <1>2, <2>2
  <2>3. QED
    BY <1>5, <2>1, <2>2 DEF Caller, Resubmit, Refuse, Answer, AnswerPanic, Released, Drop
<1>6. QED
  BY <1>2, <1>3, <1>4, <1>5
     DEF Next, Serving, Expire, Canceller, Cancel, CancelRegister, CancelLook, CancelWakes,
         CancelReply, Lookup, BeginShutdown, Collect, EndDrain, EndFlush, decideVars, vars

LEMMA WholeStep == ASSUME Whole, [Next]_vars, ~Orphaned' PROVE Whole'
<1>1. CASE Next
  BY <1>1, TypeStep, SoundStep, WindowStep, WakeStep, ExitStep DEF Whole
<1>2. CASE UNCHANGED vars
  <2>1. /\ UNCHANGED <<entries, call, task, settler, settled, failed, cancel, woken, raised>>
        /\ UNCHANGED <<shut, active>>
    BY <1>2 DEF vars, decideVars, shutVars
  <2>2. TypeOK'
    BY <2>1 DEF Whole, TypeOK, EntriesOK, CallsOK, CancelsOK, TasksOK
  <2>3. \A c \in Calls : Same(c)
    BY <2>1 DEF Same, Id
  <2>4. Sound'
    BY <2>1, <2>2, <2>3, Quiet DEF Whole, Frame
  <2>5. Window'
    BY <2>1 DEF Whole, Window, Within
  <2>6. Awake' /\ Honest'
    BY <2>1 DEF Whole, Awake, Honest, Live, Id
  <2>7. QED
    BY <2>2, <2>4, <2>5, <2>6 DEF Whole
<1>3. QED
  BY <1>1, <1>2

LEMMA Step == ASSUME IInv, [Next]_vars PROVE IInv'
<1>1. CallsOK' /\ TasksOK'
  <2>1. CASE Next
    BY <2>1, CallsStep, TasksStep DEF IInv
  <2>2. CASE UNCHANGED vars
    BY <2>2 DEF IInv, CallsOK, TasksOK, vars, decideVars
  <2>3. QED
    BY <2>1, <2>2
<1>2. ASSUME ~Orphaned' PROVE Whole'
  BY <1>2, OrphansStay, WholeStep DEF IInv
<1>3. QED
  BY <1>1, <1>2 DEF IInv

\* The inductive invariant of the service.
THEOREM Inductive == Spec => []IInv
BY Start, Step, PTL DEF Spec

\* The idempotency window stays within max_retained and max_retained_bytes for
\* every bound and every size, whatever the pending deliveries turn out to be,
\* unless a task panicked after its settlement was spawned (the admission of
\* decide_stream, and the sizes it keeps reserved).
THEOREM WindowStaysBounded == Spec => []WindowBounded
<1>1. IInv => WindowBounded
  BY DEF IInv, Whole, Window, WindowBounded
<1>2. QED
  BY <1>1, Inductive, PTL

\* An id runs once at a time and its entry stays its own until its evidence is
\* settled, for every number of calls and ids and every expiry and pruning,
\* unless a task panicked after its settlement was spawned (decide_stream, its
\* task and its settlement).
THEOREM IdsRunOnce == Spec => []OneRunPerId
<1>1. IInv => OneRunPerId
  BY DEF IInv, Whole, Sound, HeldOK, Holds, OneRunPerId, Owned
<1>2. QED
  BY <1>1, Inductive, PTL

\* Exit 0 is the truth, however shutdown's two waits interleave with the tasks
\* and their settlements, unless a task panicked after its settlement was
\* spawned (shutdown).
THEOREM ExitsStayHonest == Spec => []ExitHonest
<1>1. IInv => ExitHonest
  BY DEF IInv, Whole, ExitHonest
<1>2. QED
  BY <1>1, Inductive, PTL

\* Nobody sleeps through the end of a decision, for every number of settlements
\* and cancels that wait, unless a task panicked after its settlement was
\* spawned (settle, cancel and the entry's Notify).
THEOREM NoWakeIsLost == Spec => []NoLostWake
<1>1. IInv => NoLostWake
  BY DEF IInv, Whole, NoLostWake
<1>2. QED
  BY <1>1, Inductive, PTL
=============================================================================
