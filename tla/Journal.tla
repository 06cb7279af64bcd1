------------------------------ MODULE Journal ------------------------------
(***************************************************************************)
(* The persistent spend journal of crates/rustev-live/src/journal.rs: a    *)
(* file of lines, of which the book of reservations is the replay. Every   *)
(* operation holds the mutex of the state from its checks to its effect,   *)
(* so at most one append is under way (op); it writes a line and then      *)
(* syncs the file, and the process may end, or the machine lose power, in  *)
(* between. A write may fail half way and a sync may fail.                 *)
(*                                                                         *)
(* The file system is external. images is the set of files a power loss    *)
(* may leave: a sync of the file reduces it to the file as it is. A power  *)
(* loss may also leave a directory whose last change was never synced:     *)
(* unlinked is what the name of the journal then stands for, nothing (an   *)
(* empty file) for a journal just created, or the file from before its     *)
(* migration. The clients of the journal (the attempts of the runtime and  *)
(* the host) are external too: they reserve, send, settle or release, and  *)
(* the host reconciles.                                                    *)
(***************************************************************************)
EXTENDS Spend, Sequences, FiniteSetsExt

CONSTANTS OldCap,       \* SUPERSEDED_TESTING_CAP_UNITS
          Kinds,        \* the budgets of the instance
          Bound(_),     \* the units an attempt reserves: its cost bound
          Costs,        \* what a request may cost, or be estimated to, in units
          Wide,         \* the attempts with an id of multi-byte characters
          Old,          \* an attempt of the time before the migration
          MaxSeq,       \* bound on the reservations in the file
          MaxFaults,    \* bound on the writes, syncs and renames that fail
          MaxCrashes    \* bound on the ends of a process

ASSUME JournalAssumption == /\ OldCap \in Nat /\ OldCap < Cap /\ OldCap <= MaxCharge
                            /\ Kinds \subseteq {"testing", "production"}
                            /\ {0, 1} \subseteq Periods
                            /\ Old \in Attempts \ RunAttempts
                            /\ \A a \in Attempts : Bound(a) \in Amounts
                            /\ Costs \subseteq 0..MaxCharge /\ Wide \subseteq Attempts
                            /\ MaxSeq \in Nat \ {0}

VARIABLES kind,         \* BudgetKind
          month,        \* the clock's month
          disk,         \* the journal's file, as the operating system has it
          images,       \* the files that may be there after a power loss
          unlinked,     \* or may be there instead: an unsynced directory's
          lock,         \* <journal>.lock exists
          up,           \* an open SpendJournal
          res,          \* State::res; while no journal is open, its last value
          next_seq,     \* State::next_seq
          op,           \* the operation that holds the mutex, or Idle
          fate,         \* where each attempt is
          per,          \* the period an attempt read before it took the mutex
          ticket,       \* its Reservation
          told,         \* the least its reservation may count for (history)
          spent,        \* what its request really cost (history)
          acked,        \* the reservations as last acknowledged (history)
          failed,       \* an append has failed (history)
          forgot,       \* a power loss left an unlinked file (history)
          faults, crashes

dirVars == <<unlinked, forgot>>
fileVars == <<disk, images>>
memVars == <<up, res, next_seq, acked>>
clientVars == <<fate, per, ticket, told, spent>>
envVars == <<kind, month, crashes>>
vars == <<fileVars, dirVars, memVars, clientVars, envVars, lock, op, failed, faults>>

Idle == [then |-> "nothing"]

(***************************************************************************)
(* Lines and files.                                                        *)
(***************************************************************************)
Header(cap) == [op |-> "header", cap |-> cap]
Reserve(s, p, a, u) == [op |-> "reserve", seq |-> s, period |-> p, attempt |-> a, units |-> u]
Settle(s, to) == [op |-> "settle", seq |-> s, to |-> to]
Reconcile(s, to) == [op |-> "reconcile", seq |-> s, to |-> to]
Release(s) == [op |-> "release", seq |-> s, to |-> Released]
Garbage == [op |-> "garbage"]      \* a complete line that is no entry

(* A file may end in an incomplete line (torn), and hold a part of a       *)
(* character (split), which makes it no text.                              *)
File(ls, t, s) == [lines |-> ls, torn |-> t, split |-> s]
Empty == File(<<>>, FALSE, FALSE)
Cut(f) == File(f.lines, FALSE, f.split)
(* What a write of l may leave that got no further than a part of it.      *)
Torn(f, l) ==
  {File(f.lines, TRUE, s) :
     s \in {f.split} \cup {x \in {TRUE} : l.op = "reserve" /\ l.attempt \in Wide}}
(* A line written after an incomplete one ends that one.                   *)
Written(f, l) == File(Append(f.lines, IF f.torn THEN Garbage ELSE l), FALSE, f.split)

Entries(ls) == 2..Len(ls)
Reserves(ls) == {i \in Entries(ls) : ls[i].op = "reserve"}

(* Whether SpendJournal::open can replay the lines.                        *)
Replays(ls) ==
  /\ Len(ls) > 0 /\ ls[1].op = "header"
  /\ \A i \in Entries(ls) :
       /\ ls[i].op # "garbage"
       /\ ls[i].op = "reserve" => \A j \in Reserves(ls) : ls[j].seq = ls[i].seq => j = i
       /\ ls[i].op # "reserve" => \E j \in Reserves(ls) : j < i /\ ls[j].seq = ls[i].seq

(* Every line about a reservation replaces its state: the last one counts. *)
StateOf(ls, s) ==
  LET last == Max({i \in Entries(ls) : ls[i].seq = s})
  IN IF ls[last].op = "reserve" THEN Outstanding ELSE ls[last].to

Found(st) == IF st = Outstanding THEN Liability ELSE st

Replayed(ls) ==
  [s \in {ls[i].seq : i \in Reserves(ls)} |->
     LET r == ls[CHOOSE i \in Reserves(ls) : ls[i].seq = s]
     IN [Res(r.attempt, r.period, r.units) EXCEPT !.state = Found(StateOf(ls, s))]]

NextSeq(ls) == Max({0} \cup {ls[i].seq : i \in Reserves(ls)}) + 1

Period == IF kind = "testing" THEN 0 ELSE month

(***************************************************************************)
(* Initially no process holds the journal. There is no file, or there is   *)
(* one of the time before the cap was raised, with one reservation; an     *)
(* earlier process may have ended in the middle of a line. Only of the old *)
(* file is the directory known to be synced.                               *)
(***************************************************************************)
OldLines(u) == <<Header(OldCap), Reserve(1, 0, Old, u)>>

Init ==
  /\ kind \in Kinds /\ month = 1
  /\ fate = [a \in Attempts |-> IF a = Old THEN "gone" ELSE "new"]
  /\ \E torn \in BOOLEAN :
       \/ /\ disk = File(<<>>, torn, FALSE) /\ res = <<>> /\ unlinked = {Empty}
          /\ told = [a \in Attempts |-> 0]
       \/ \E u \in {x \in Amounts : x <= OldCap} :
          /\ kind = "testing" /\ unlinked = {}
          /\ disk = File(OldLines(u), torn, FALSE) /\ res = Replayed(disk.lines)
          /\ told = [a \in Attempts |-> IF a = Old THEN u ELSE 0]
  /\ spent = told
  /\ images = {disk} /\ acked = res
  /\ lock = FALSE /\ up = FALSE /\ next_seq = 1 /\ op = Idle
  /\ per = [a \in Attempts |-> 0] /\ ticket = [a \in Attempts |-> 0]
  /\ failed = FALSE /\ forgot = FALSE /\ faults = 0 /\ crashes = 0

(***************************************************************************)
(* append: one write, then one sync. op says what follows.                 *)
(***************************************************************************)
Write(l, then) ==
  /\ disk' = Written(disk, l)
  /\ images' = images \cup Torn(disk, l) \cup {disk'}
  /\ op' = then
  /\ UNCHANGED <<failed, faults>>

WriteFails(l) ==
  /\ faults < MaxFaults /\ faults' = faults + 1 /\ failed' = TRUE
  /\ disk' \in {disk} \cup Torn(disk, l)
  /\ images' = images \cup {disk'}

Syncs_skipped(then) == op.then = then /\ UNCHANGED <<fileVars, failed, faults>>

Syncs(then) == op.then = then /\ images' = {disk} /\ UNCHANGED <<disk, failed, faults>>

SyncFails(then) ==
  /\ op.then = then /\ faults < MaxFaults /\ faults' = faults + 1
  /\ failed' = TRUE /\ UNCHANGED fileVars

(***************************************************************************)
(* SpendJournal::open.                                                     *)
(***************************************************************************)
OpenLock ==
  /\ ~up /\ ~lock /\ op = Idle
  /\ lock' = TRUE /\ op' = [then |-> "read"]
  /\ UNCHANGED <<fileVars, dirVars, memVars, clientVars, envVars, failed, faults>>

(* An error drops the Lock, which removes the lock file.                   *)
OpenFails == lock' = FALSE /\ op' = Idle

OpenHeader ==
  /\ op.then = "read" /\ disk = Empty
  /\ \/ Write(Header(Cap), [then |-> "header"]) /\ UNCHANGED lock
     \/ WriteFails(Header(Cap)) /\ OpenFails
  /\ UNCHANGED <<dirVars, memVars, clientVars, envVars>>

(* The file is synced, or the open fails. The sync of the directory is     *)
(* left out for a path without a parent or a directory that cannot be      *)
(* opened, and its error is ignored: then either file may be found.        *)
OpenHeaderSync ==
  /\ \/ /\ Syncs("header") /\ unlinked' = {}
        /\ op' = [then |-> "replay"] /\ UNCHANGED lock
     \/ /\ op.then = "header" /\ images' = {disk, Empty}
        /\ op' = [then |-> "replay"] /\ UNCHANGED <<disk, unlinked, lock, failed, faults>>
     \/ SyncFails("header") /\ OpenFails /\ UNCHANGED unlinked
  /\ UNCHANGED <<forgot, memVars, clientVars, envVars>>

(* read_to_string refuses a file that is no text.                          *)
OpenUnreadable ==
  /\ op.then = "read" /\ disk.split
  /\ OpenFails
  /\ UNCHANGED <<fileVars, dirVars, memVars, clientVars, envVars, failed, faults>>

OpenCut_kept ==
  /\ op.then = "read" /\ disk.torn /\ ~disk.split
  /\ op' = [then |-> "cut"]
  /\ UNCHANGED <<fileVars, dirVars, memVars, clientVars, envVars, lock, failed, faults>>

OpenCut_no_header ==
  /\ op.then = "read" /\ disk.torn /\ ~disk.split
  /\ disk' = (IF disk.lines = <<>> THEN disk ELSE Cut(disk)) /\ images' = images \cup {disk'}
  /\ op' = [then |-> "cut"]
  /\ UNCHANGED <<dirVars, memVars, clientVars, envVars, lock, failed, faults>>

OpenCut ==
  /\ op.then = "read" /\ disk.torn /\ ~disk.split
  /\ disk' = Cut(disk) /\ images' = images \cup {disk'}
  /\ op' = [then |-> "cut"]
  /\ UNCHANGED <<dirVars, memVars, clientVars, envVars, lock, failed, faults>>

(* The sync of the cut. Its failure is no failed append.                   *)
OpenCutSync ==
  /\ op.then = "cut"
  /\ \/ images' = {disk} /\ op' = [then |-> "replay"] /\ UNCHANGED <<lock, faults>>
     \/ /\ faults < MaxFaults /\ faults' = faults + 1
        /\ OpenFails /\ UNCHANGED images
  /\ UNCHANGED <<disk, dirVars, memVars, clientVars, envVars, failed>>

OpenRead ==
  /\ op.then = "read" /\ ~disk.torn /\ ~disk.split /\ disk.lines # <<>>
  /\ op' = [then |-> "replay"]
  /\ UNCHANGED <<fileVars, dirVars, memVars, clientVars, envVars, lock, failed, faults>>

OpenRefused ==
  /\ op.then = "replay" /\ ~Replays(disk.lines)
  /\ OpenFails
  /\ UNCHANGED <<fileVars, dirVars, memVars, clientVars, envVars, failed, faults>>

Superseded == kind = "testing" /\ disk.lines[1].cap = OldCap

Migrate_empty ==
  /\ op.then = "replay" /\ Replays(disk.lines) /\ Superseded
  /\ \/ /\ disk' = File(<<Header(Cap)>>, FALSE, FALSE)
        /\ images' = images \cup {disk'} /\ unlinked' = unlinked \cup {disk}
        /\ op' = [then |-> "renamed"] /\ UNCHANGED <<lock, faults>>
     \/ /\ faults < MaxFaults /\ faults' = faults + 1
        /\ OpenFails /\ UNCHANGED <<fileVars, unlinked>>
  /\ UNCHANGED <<forgot, memVars, clientVars, envVars, failed>>

(* migrate_header: the copy is complete and synced before it is renamed    *)
(* over the journal; until the directory is synced either may be found.    *)
Migrate ==
  /\ op.then = "replay" /\ Replays(disk.lines) /\ Superseded
  /\ \/ /\ disk' = [disk EXCEPT !.lines[1] = Header(Cap)]
        /\ images' = images \cup {disk'} /\ unlinked' = unlinked \cup {disk}
        /\ op' = [then |-> "renamed"] /\ UNCHANGED <<lock, faults>>
     \/ /\ faults < MaxFaults /\ faults' = faults + 1
        /\ OpenFails /\ UNCHANGED <<fileVars, unlinked>>
  /\ UNCHANGED <<forgot, memVars, clientVars, envVars, failed>>

(* A directory that cannot be opened is not synced, and the open goes on;  *)
(* a sync that fails ends it.                                              *)
MigrateSync ==
  /\ op.then = "renamed"
  /\ \/ images' = {disk} /\ unlinked' = {} /\ op' = [then |-> "replay"] /\ UNCHANGED <<lock, faults>>
     \/ /\ faults < MaxFaults /\ faults' = faults + 1
        /\ (op' = [then |-> "replay"] /\ UNCHANGED lock) \/ OpenFails
        /\ UNCHANGED <<images, unlinked>>
  /\ UNCHANGED <<disk, forgot, memVars, clientVars, envVars, failed>>

Opened ==
  /\ op.then = "replay" /\ Replays(disk.lines) /\ ~Superseded
  /\ up' = TRUE /\ op' = Idle
  /\ res' = Replayed(disk.lines) /\ next_seq' = NextSeq(disk.lines)
  /\ UNCHANGED <<fileVars, dirVars, acked, clientVars, envVars, lock, failed, faults>>

(***************************************************************************)
(* reserve_checked. The clock is read before the mutex is taken.           *)
(***************************************************************************)
ReserveAsk(a) ==
  /\ up /\ fate[a] = "new"
  /\ per' = [per EXCEPT ![a] = Period] /\ fate' = [fate EXCEPT ![a] = "asking"]
  /\ UNCHANGED <<fileVars, dirVars, memVars, envVars, ticket, told, spent, lock, op, failed, faults>>

RunCapExceeded(a, u) == /\ a \in RunAttempts
                        /\ \/ run_total(res) > RunCap
                           \/ u > RunCap - run_total(res)
OverCap(p, u) == totals(res, p) + u > Cap

ReserveRefuse(a) == LET u == Bound(a) IN
  /\ up /\ op = Idle /\ fate[a] = "asking"
  /\ RunCapExceeded(a, u) \/ OverCap(per[a], u)
  /\ fate' = [fate EXCEPT ![a] = "gone"]
  /\ UNCHANGED <<fileVars, dirVars, memVars, envVars, per, ticket, told, spent, lock, op, failed, faults>>

ReserveWrite(a) == LET u == Bound(a) IN
  /\ up /\ op = Idle /\ fate[a] = "asking" /\ next_seq <= MaxSeq
  /\ ~RunCapExceeded(a, u) /\ ~OverCap(per[a], u)
  /\ \/ /\ Write(Reserve(next_seq, per[a], a, u), [then |-> "reserve", who |-> a, units |-> u])
        /\ UNCHANGED fate
     \/ /\ WriteFails(Reserve(next_seq, per[a], a, u))
        /\ fate' = [fate EXCEPT ![a] = "gone"] /\ UNCHANGED op
  /\ UNCHANGED <<dirVars, memVars, envVars, per, ticket, told, spent, lock>>

ReserveSync ==
  /\ \/ /\ Syncs("reserve")
        /\ next_seq' = next_seq + 1
        /\ res' = Put(res, next_seq, Res(op.who, per[op.who], op.units))
        /\ acked' = Put(acked, next_seq, res'[next_seq])
        /\ ticket' = [ticket EXCEPT ![op.who] = next_seq]
        /\ told' = [told EXCEPT ![op.who] = op.units]
        /\ fate' = [fate EXCEPT ![op.who] = "held"]
     \/ /\ SyncFails("reserve")
        /\ fate' = [fate EXCEPT ![op.who] = "gone"]
        /\ UNCHANGED <<next_seq, res, acked, ticket, told>>
  /\ op' = Idle
  /\ UNCHANGED <<dirVars, envVars, lock, up, per, spent>>

(***************************************************************************)
(* settle, release, reconcile, reconcile_billing: the line, and only if it *)
(* is known to be written, the new state.                                  *)
(***************************************************************************)
Outcome(s, l) ==
  /\ up /\ op = Idle
  /\ \/ Write(l, [then |-> "outcome", seq |-> s, to |-> l.to])
     \/ WriteFails(l) /\ UNCHANGED op

OutcomeSync ==
  /\ \/ /\ Syncs("outcome")
        /\ res' = [res EXCEPT ![op.seq].state = op.to]
        /\ acked' = Put(acked, op.seq, res'[op.seq])
     \/ SyncFails("outcome") /\ UNCHANGED <<res, acked>>
  /\ op' = Idle
  /\ UNCHANGED <<dirVars, clientVars, envVars, lock, up, next_seq>>

(* The request is sent; what it will cost is settled then.                 *)
Send(a, c) ==
  /\ up /\ fate[a] = "held" /\ c \in Costs
  /\ fate' = [fate EXCEPT ![a] = "sent"] /\ spent' = [spent EXCEPT ![a] = c]
  /\ UNCHANGED <<fileVars, dirVars, memVars, envVars, per, ticket, told, lock, op, failed, faults>>

(* The adapter reports the charge: what the request cost if it observed    *)
(* that, any amount e if it estimates.                                     *)
settle(a, charge, e) ==
  /\ fate[a] = "sent" /\ res[ticket[a]].state = Outstanding
  /\ LET units == IF charge = "observed" THEN spent[a] ELSE e
     IN Outcome(ticket[a], Settle(ticket[a], settled(charge, units)))
  /\ fate' = [fate EXCEPT ![a] = "gone"]
  /\ told' = [told EXCEPT ![a] = IF charge = "estimated" /\ e < @ THEN e ELSE @]
  /\ UNCHANGED <<dirVars, memVars, envVars, per, ticket, spent, lock>>

release(a) ==
  /\ fate[a] = "held" /\ res[ticket[a]].state = Outstanding
  /\ Outcome(ticket[a], Release(ticket[a]))
  /\ fate' = [fate EXCEPT ![a] = "gone"]
  /\ UNCHANGED <<dirVars, memVars, envVars, per, ticket, told, spent, lock>>

(* The charge is observed later: by the host (testing), or on a line of    *)
(* the provider's bill for the reservation's own month (production).       *)
Reconcilable(s) == s \in DOMAIN res /\ res[s].state \in {Liability, Unknown}

reconcile(s) ==
  /\ kind = "testing" /\ Reconcilable(s)
  /\ Outcome(s, Reconcile(s, State("observed", spent[res[s].attempt])))
  /\ UNCHANGED <<dirVars, memVars, clientVars, envVars, lock>>

reconcile_billing(s, p) ==
  /\ kind = "production" /\ Reconcilable(s) /\ res[s].period = p
  /\ Outcome(s, Reconcile(s, State("observed", spent[res[s].attempt])))
  /\ UNCHANGED <<dirVars, memVars, clientVars, envVars, lock>>

(***************************************************************************)
(* The process and its host.                                               *)
(***************************************************************************)
Working(a) == fate[a] \in {"asking", "held", "sent"}

(* The last clone of the journal is dropped: Lock::drop.                   *)
Close ==
  /\ up /\ op = Idle /\ \A a \in Attempts : ~Working(a)
  /\ up' = FALSE /\ lock' = FALSE
  /\ UNCHANGED <<fileVars, dirVars, res, next_seq, acked, clientVars, envVars, op, failed, faults>>

(* What is found after a power loss is durable. The journal is forgotten   *)
(* if its name stands for none of the files its own syncs may have left.   *)
PowerLoss ==
  /\ disk' \in images \cup unlinked /\ images' = {disk'}
  /\ unlinked' = {disk'} \cap {Empty}
  /\ forgot' = (forgot \/ disk' \notin images)

(* The process is killed, or the machine loses power. The lock file stays. *)
Crash ==
  /\ up \/ op # Idle
  /\ crashes < MaxCrashes /\ crashes' = crashes + 1
  /\ UNCHANGED <<fileVars, dirVars>> \/ PowerLoss
  /\ up' = FALSE /\ op' = Idle
  /\ fate' = [a \in Attempts |-> IF Working(a) THEN "gone" ELSE fate[a]]
  /\ UNCHANGED <<kind, month, res, next_seq, acked, per, ticket, told, spent, lock, failed, faults>>

(* The host removes the lock once it has checked that no process uses it.  *)
RemoveLock ==
  /\ lock /\ ~up /\ op = Idle
  /\ lock' = FALSE
  /\ UNCHANGED <<fileVars, dirVars, memVars, clientVars, envVars, op, failed, faults>>

NextMonth ==
  /\ kind = "production" /\ month + 1 \in Periods /\ month' = month + 1
  /\ UNCHANGED <<fileVars, dirVars, memVars, clientVars, kind, crashes, lock, op, failed, faults>>

Opening == \/ OpenLock \/ OpenHeader \/ OpenHeaderSync \/ OpenUnreadable
           \/ OpenCut \/ OpenCutSync \/ OpenRead \/ OpenRefused \/ Migrate \/ MigrateSync \/ Opened

Next ==
  \/ Opening
  \/ \E a \in Attempts : ReserveAsk(a) \/ ReserveRefuse(a) \/ ReserveWrite(a) \/ release(a)
  \/ \E a \in Attempts, c \in Costs : Send(a, c)
  \/ \E a \in Attempts, c \in {"observed", "estimated", "unknown"}, e \in Costs :
       settle(a, c, e)
  \/ \E s \in 1..MaxSeq : reconcile(s)
  \/ \E s \in 1..MaxSeq, p \in Periods : reconcile_billing(s, p)
  \/ ReserveSync \/ OutcomeSync \/ Close \/ Crash \/ RemoveLock \/ NextMonth

(* A host that uses the journal opens it, and opens it again after a crash *)
(* or an error; an operation under way goes on.                            *)
Fairness == WF_vars(Opening) /\ WF_vars(RemoveLock)

Spec == Init /\ [][Next]_vars /\ Fairness

(***************************************************************************)
(* Properties.                                                             *)
(***************************************************************************)
Of(p) == {a \in Attempts : per[a] = p}
Spent(p) == Total([a \in Of(p) |-> spent[a]])
Above(a) == IF spent[a] > told[a] THEN spent[a] - told[a] ELSE 0
Beyond(p) == Total([a \in Of(p) |-> Above(a)])
WithinCaps == /\ \A p \in Periods : Spent(p) <= Cap + Beyond(p)
              /\ Total([a \in RunAttempts |-> spent[a] - Above(a)]) <= RunCap

(* "Every failure errs toward counting more": whichever file a crash       *)
(* leaves, and whichever appends failed before, a journal that opens on it *)
(* counts in every period at least what the requests sent so far cost (but *)
(* for what a provider charged beyond a reservation or beyond its          *)
(* estimate); so does the book in memory. Only a power loss on a directory *)
(* the open did not sync makes a journal forget.                           *)
NeverCountsLess ==
  ~forgot => \A p \in Periods :
    /\ up => totals(res, p) + Beyond(p) >= Spent(p)
    /\ \A f \in images \cup {disk} : Replays(f.lines) =>
         totals(Replayed(f.lines), p) + Beyond(p) >= Spent(p)

(* R-29's cap holds over all processes, crashes and failed writes, as long *)
(* as the journal is not forgotten: what was spent in a period never       *)
(* passes it, but for what a provider charged beyond a reservation or      *)
(* beyond its estimate; and the run's own cap holds likewise.              *)
CapHeld == ~forgot => WithinCaps

Mendable(f) == (f.lines = <<>> \/ Replays(f.lines)) /\ (f.split => f.torn)

(* As long as no append has failed and the journal is not forgotten, every *)
(* complete line of every file a crash may leave replays, and what makes a *)
(* file unreadable is its incomplete last line: it opens, unless that line *)
(* ends inside a character. (A torn header is cut to an empty file by one  *)
(* open and written by the next.)                                          *)
Reopenable == ~failed /\ ~forgot => \A f \in images : Mendable(f)

(* A host that keeps trying gets its journal open again after every crash, *)
(* torn header and interrupted migration, unless an append failed or the   *)
(* file ends inside a character.                                           *)
ReopensAgain == []<>(up \/ failed \/ disk.split)

(* Journal implements SpendBook until it is forgotten: while no process    *)
(* holds the journal, the last book stands for it.                         *)
Book == INSTANCE SpendBook WITH book <- res
ImplementsBook == Book!BookInit /\ [][forgot' \/ Book!BookNext]_(Book!bookVars)

(* The module documentation of the file: "A final line without its newline *)
(* was never completed: it is cut off at open". The open refuses no file   *)
(* for its last line.                                                      *)
TornLineIsCut == [][op.then = "read" /\ ~failed /\ disk.torn => lock']_op

(* The module documentation of reserve: "A reservation is durable before   *)
(* its request can be sent". Whatever a power loss leaves, it has the      *)
(* reservation of every request that is sent.                              *)
SentIsDurable ==
  \A a \in Attempts : fate[a] = "sent" =>
    \A f \in images \cup unlinked : \E i \in Reserves(f.lines) : f.lines[i].attempt = a
=============================================================================
