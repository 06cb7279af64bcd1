------------------------------ MODULE LiveRun ------------------------------
(***************************************************************************)
(* A live run over a dataset and its recovery: run.rs, probe.rs, gate.rs   *)
(* and the file operations of documents.rs in crates/rustev-live/src. A    *)
(* process prepares the output directory, opens the spend journal, marks   *)
(* what an earlier process left unfinished, probes the binding and         *)
(* dispatches one decision for each item that is pending, keeping a        *)
(* checkpoint. It may be killed, or the machine may lose power, between    *)
(* any two writes, and a later process resumes from the files. Nobody      *)
(* syncs the directory --out is created in: a power loss may take --out.   *)
(*                                                                         *)
(* The journal is module SpendBook, which module Journal implements. A     *)
(* decision is the runtime's and external: it reserves, sends and settles  *)
(* at most one request. Decision 0 is the probe's.                         *)
(***************************************************************************)
EXTENDS SpendBook, Sequences, SequencesExt

CONSTANTS N,            \* the items of the checkpoint, 1..N
          MaxInFlight,  \* the binding's max_in_flight
          MaxRerun,     \* the limit on reruns (99 in the code)
          Bound,        \* the units a decision reserves
          Charges,      \* the states a charge settles a reservation to
          Results(_, _), \* what a decision for the items may end with but a spend refusal
          Given,        \* what the items may be: those that run, whose input is
                        \* "unavailable", whose plan the runtime has "refused"
          MaxStarts,    \* bound on the processes
          MaxCrashes,   \* bound on the processes that do not end themselves
          MaxFaults     \* bound on the operations on files that fail

ASSUME LiveAssumption == /\ N \in Nat \ {0} /\ MaxInFlight \in Nat \ {0}
                         /\ MaxRerun \in Nat /\ Bound \in Amounts
                         /\ 0 \in Periods /\ MaxSeq \in Nat
                         /\ Given \subseteq [1..N -> {"runs", "unavailable", "refused"}]
                         /\ Attempts = (0..N) \X (0..MaxStarts)

VARIABLES given,        \* what the items are
          dir,          \* --out exists
          anchored,     \* and survives a power loss
          lost,         \* a power loss took --out (history)
          cp,           \* checkpoint.json, or NoFile
          cpImages,     \* what a power loss may leave of it
          files,        \* the case files: <<item, rerun, suffix>>
          unsafe,       \* those whose directory entry is not synced
          report,       \* live-run.json: its status and the items' states, or NoFile
          pc,           \* where the process is
          resume,       \* RunOptions::resume
          items,        \* the checkpoint in memory: per item its states
          next,         \* the next item to admit
          dec,          \* the decisions: where each is
          tkt,          \* their reservations
          result,       \* what they ended with
          status,       \* RunStatus
          error,        \* an error that dispatch will return
          raised,       \* the cancellation signal
          io,           \* the write under way, and what follows
          maybe,        \* attempts whose failed reservation may be in the file
          tried,        \* outcomes whose failed record may be in the file
          sentBy,       \* decision id -> the processes that sent under it (history)
          starts, crashes, faults

NoFile == <<>>
diskVars == <<dir, anchored, lost, cp, cpImages, files, unsafe, report>>
runVars == <<items, next, status, error, resume>>
decVars == <<dec, tkt, result, sentBy>>
recVars == <<maybe, tried>>
boundVars == <<starts, crashes, faults>>
vars == <<bookVars, diskVars, runVars, decVars, recVars, boundVars,
          given, pc, raised, io>>

Items == 1..N
Slots == 0..N
Capped == {"spend", "spend+source"}

(* rerun, pending, current_id.                                             *)
Reruns(h) == Cardinality({n \in DOMAIN h : h[n] = "rerun"})
rerun(i) == Reruns(items[i])
pending(h) == Last(h) \in {"pending", "rerun"}
probe_seq == Max({0} \cup {d[2] : d \in {book[s].attempt : s \in DOMAIN book} \cap ({0} \X Nat)})

(* reservations_for: any reservation, a released one too.                  *)
Reserved(id) == \E s \in DOMAIN book : book[s].attempt = id

Quiet == io = [then |-> "nothing"]

Init ==
  /\ book = <<>> /\ acked = <<>> /\ BookInit
  /\ given \in Given
  /\ dir = FALSE /\ anchored = FALSE /\ lost = FALSE /\ cp = NoFile /\ cpImages = {NoFile}
  /\ files = {} /\ unsafe = {} /\ report = NoFile
  /\ pc = "down" /\ resume = FALSE
  /\ items = NoFile /\ next = 1
  /\ dec = [s \in Slots |-> "none"] /\ tkt = [s \in Slots |-> 0]
  /\ result = [s \in Slots |-> "none"]
  /\ status = "evaluated" /\ error = FALSE /\ raised = FALSE
  /\ io = [then |-> "nothing"]
  /\ maybe = {} /\ tried = {}
  /\ sentBy = [d \in Attempts |-> {}]
  /\ starts = 0 /\ crashes = 0 /\ faults = 0

(* An operation on a file fails.                                           *)
Fault == faults < MaxFaults /\ faults' = faults + 1 /\ UNCHANGED <<starts, crashes>>

(***************************************************************************)
(* write_atomic: the file is complete and synced before it is renamed into *)
(* place; the directory is synced after. An error before the rename leaves *)
(* the previous file, one after it the new one.                            *)
(***************************************************************************)
CheckpointFile == <<0, 0, "checkpoint">>
RunFile == <<0, 0, "live-run">>
Checkpoint(then) == [then |-> then, todo |-> <<CheckpointFile>>, renamed |-> FALSE]
CaseFiles(s, k, r, then) ==
  [then |-> then, slot |-> s, result |-> r, renamed |-> FALSE,
   todo |-> <<<<s, k, "live">>, <<s, k, "run">>, <<s, k, "case">>>>]
Report(then) == [then |-> then, todo |-> <<RunFile>>, renamed |-> FALSE]

Rename ==
  /\ ~Quiet /\ io.todo # <<>> /\ ~io.renamed
  /\ io' = [io EXCEPT !.renamed = TRUE]
  /\ CASE Head(io.todo) = CheckpointFile ->
            cp' = items /\ cpImages' = cpImages \cup {items} /\ UNCHANGED <<files, unsafe, report>>
       [] Head(io.todo) = RunFile ->
            report' = [status |-> status, items |-> items] /\ UNCHANGED <<cp, cpImages, files, unsafe>>
       [] OTHER ->
            /\ files' = files \cup {Head(io.todo)} /\ unsafe' = unsafe \cup {Head(io.todo)}
            /\ UNCHANGED <<cp, cpImages, report>>
  /\ UNCHANGED <<bookVars, dir, anchored, lost, runVars, decVars, recVars, boundVars, given, pc, raised>>

DirSync ==
  /\ ~Quiet /\ io.todo # <<>> /\ io.renamed
  /\ io' = [io EXCEPT !.todo = Tail(@), !.renamed = FALSE]
  /\ IF Head(io.todo) \in {CheckpointFile, RunFile}
     THEN cpImages' = {cp} /\ UNCHANGED unsafe
     ELSE unsafe' = {} /\ UNCHANGED cpImages
  /\ UNCHANGED <<bookVars, dir, anchored, lost, cp, files, report, runVars, decVars, recVars, boundVars,
                 given, pc, raised>>

Wrote_unsynced(then) ==
  ~Quiet /\ io.then = then /\ (io.todo = <<>> \/ (Len(io.todo) = 1 /\ io.renamed))
Wrote(then) == ~Quiet /\ io.then = then /\ io.todo = <<>>
Failed(then) == ~Quiet /\ io.then = then /\ io.todo # <<>> /\ Fault
IoDone == io' = [then |-> "nothing"]

(***************************************************************************)
(* prepare.                                                                *)
(***************************************************************************)
Begin ==
  /\ pc = "down" /\ starts < MaxStarts /\ starts' = starts + 1
  /\ UNCHANGED <<bookVars, recVars, lost, cp, cpImages, files, unsafe, report, given,
                 next, status, error, raised, decVars, crashes, faults>>

(* create_dir refuses a directory that exists, and syncs nothing.          *)
PrepareFresh ==
  /\ ~dir /\ Begin
  /\ dir' = TRUE /\ anchored' = FALSE /\ resume' = FALSE
  /\ items' = [i \in Items |-> <<"pending">>]
  /\ pc' = "prepare" /\ io' = Checkpoint("prepare")

PrepareResume ==
  /\ cp # NoFile /\ Begin
  /\ resume' = TRUE /\ items' = cp /\ pc' = "open"
  /\ UNCHANGED <<dir, anchored, io>>

(* Nothing of a process remains once it has ended but its files.           *)
Forget ==
  /\ pc' = "down" /\ items' = NoFile /\ next' = 1 /\ resume' = FALSE
  /\ status' = "evaluated" /\ error' = FALSE /\ raised' = FALSE
  /\ dec' = [s \in Slots |-> "none"] /\ tkt' = [s \in Slots |-> 0]
  /\ result' = [s \in Slots |-> "none"]
  /\ io' = [then |-> "nothing"]
  /\ UNCHANGED <<sentBy, given>>

Prepared ==
  /\ Wrote("prepare") /\ IoDone /\ pc' = "open"
  /\ UNCHANGED <<bookVars, diskVars, runVars, decVars, recVars, boundVars, given, raised>>

PrepareFails ==
  /\ Failed("prepare") /\ Forget
  /\ UNCHANGED <<bookVars, diskVars, recVars>>

(* Told that no checkpoint exists, the host removes --out.                 *)
RemoveOut ==
  /\ pc = "down" /\ dir /\ cp = NoFile
  /\ dir' = FALSE /\ cpImages' = {NoFile}
  /\ UNCHANGED <<bookVars, anchored, lost, cp, files, unsafe, report, runVars, decVars, recVars,
                 boundVars, given, pc, raised, io>>

(***************************************************************************)
(* The journal is opened, and execute marks what an ended process left: a  *)
(* pending item with a reservation under its current id is interrupted.    *)
(***************************************************************************)
Finds(s) == IF acked[s].state = Outstanding
            THEN {Liability} \cup {t[2] : t \in {x \in tried : x[1] = s}}
            ELSE {acked[s].state}

(* A number no reservation has: the numbers only tell them apart.          *)
Number(id) ==
  1 + id[1] + (N + 1) * (id[2] + (MaxStarts + 1) * Cardinality({s \in DOMAIN book : book[s].attempt = id}))

OpenJournal ==
  /\ pc = "open" /\ ~up
  /\ \E found \in {f \in [DOMAIN acked -> UNION {Finds(s) : s \in DOMAIN acked}] :
                     \A s \in DOMAIN acked : f[s] \in Finds(s)},
        more \in {{}} \cup {{d} : d \in maybe} :
       book' = [s \in DOMAIN acked \cup {Number(d) : d \in more} |->
                  IF s \in DOMAIN acked THEN [acked[s] EXCEPT !.state = found[s]]
                  ELSE [Res(CHOOSE d \in more : TRUE, 0, Bound) EXCEPT !.state = Liability]]
  /\ Reopen
  /\ pc' = "scan"
  /\ UNCHANGED <<diskVars, runVars, decVars, recVars, boundVars, given, raised, io>>

(* The journal refuses to open: its lock, its header, an entry.            *)
OpenRefused ==
  /\ pc = "open" /\ Fault /\ Forget
  /\ UNCHANGED <<bookVars, diskVars, recVars>>

Interrupted_liability_only(h, id) ==
  IF pending(h) /\ \E s \in DOMAIN book : book[s].attempt = id /\ book[s].state = Liability
  THEN Append(h, "interrupted") ELSE h

Interrupted(h, id) == IF pending(h) /\ Reserved(id) THEN Append(h, "interrupted") ELSE h

Again(h, rerun_interrupted) ==
  IF Last(h) = "interrupted" /\ rerun_interrupted
  THEN Append(h, IF Reruns(h) + 1 > MaxRerun THEN "refused" ELSE "rerun") ELSE h

Scan ==
  /\ pc = "scan" /\ Quiet
  /\ \E rerun_interrupted \in BOOLEAN :
       items' = [i \in Items |-> Again(Interrupted(items[i], <<i, rerun(i)>>), rerun_interrupted)]
  /\ io' = Checkpoint("scan")
  /\ UNCHANGED <<bookVars, diskVars, next, status, error, resume, decVars, recVars, boundVars,
                 given, pc, raised>>

Scanned ==
  /\ \/ /\ Wrote("scan") /\ pc' = "probe" /\ UNCHANGED boundVars
        /\ dec' = [dec EXCEPT ![0] = "running"]
     \/ Failed("scan") /\ pc' = "ending" /\ UNCHANGED dec
  /\ IoDone
  /\ UNCHANGED <<bookVars, diskVars, runVars, tkt, result, sentBy, recVars, given, raised>>

(***************************************************************************)
(* A decision, in the runtime: JournalGate's reserve, settle and release.  *)
(* The probe's id carries the number after the largest the journal holds,  *)
(* read when the probe begins: no reservation of that number is older.     *)
(***************************************************************************)
Id(s) == IF s > 0 THEN <<s, rerun(s)>>
         ELSE <<0, IF resume THEN probe_seq + 1 ELSE 0>>

(* An ended decision is collected before any is polled again.              *)
Polled(s) == /\ Quiet /\ pc = (IF s = 0 THEN "probe" ELSE "dispatch")
             /\ \A t \in Slots : dec[t] # "ended"
Clear(s) == /\ dec' = [dec EXCEPT ![s] = "none"] /\ tkt' = [tkt EXCEPT ![s] = 0]
            /\ result' = [result EXCEPT ![s] = "none"]

(* What a decision ended with; a probe that reached no backend failed.     *)
Ends(s, r) ==
  /\ r = "output" /\ s = 0 => dec[s] = "sent"
  /\ dec' = [dec EXCEPT ![s] = "ended"] /\ result' = [result EXCEPT ![s] = r]

Untouched == UNCHANGED <<diskVars, runVars, given, pc, raised, io>>

(* No request was needed, or the decision was refused before one.          *)
NoRequest(s, r) ==
  /\ Polled(s) /\ dec[s] = "running"
  /\ r = "cancelled" => raised
  /\ Ends(s, r)
  /\ Untouched /\ UNCHANGED <<bookVars, tkt, sentBy, recVars, boundVars>>

Reserve(s) ==
  /\ Polled(s) /\ dec[s] = "running"
  /\ Grant(Number(Id(s)), Id(s), 0, Bound)
  /\ dec' = [dec EXCEPT ![s] = "held"] /\ tkt' = [tkt EXCEPT ![s] = Number(Id(s))]
  /\ Untouched /\ UNCHANGED <<result, sentBy, recVars, boundVars>>

(* A cap is reached, or the journal could not record the reservation.      *)
ReserveRefused(s) ==
  /\ Polled(s) /\ dec[s] = "running"
  /\ \/ ~Fits(Id(s), 0, Bound) /\ UNCHANGED <<recVars, boundVars>>
     \/ Fits(Id(s), 0, Bound) /\ Fault /\ maybe' = maybe \cup {Id(s)} /\ UNCHANGED tried
  /\ \E r \in Capped : Ends(s, r)
  /\ Untouched /\ UNCHANGED <<bookVars, tkt, sentBy>>

Send(s) ==
  /\ Polled(s) /\ dec[s] = "held"
  /\ dec' = [dec EXCEPT ![s] = "sent"]
  /\ sentBy' = [sentBy EXCEPT ![book[tkt[s]].attempt] = @ \cup {starts}]
  /\ Untouched /\ UNCHANGED <<bookVars, tkt, result, recVars, boundVars>>

Records(s, to) ==
  \/ RecordOutcome(tkt[s], to) /\ UNCHANGED <<recVars, boundVars>>
  \/ Fault /\ tried' = tried \cup {<<tkt[s], to>>} /\ UNCHANGED <<maybe, bookVars>>

Settles(s, to, r) ==
  /\ Polled(s)
  /\ \/ dec[s] = "sent" /\ to \in Charges
     \/ dec[s] = "held" /\ to = Released
  /\ r = "cancelled" => raised
  /\ r = "source" => s = 0
  /\ Records(s, to) /\ Ends(s, r)
  /\ Untouched /\ UNCHANGED <<tkt, sentBy>>

(* The signal is raised by the caller or at the deadline; it is read only  *)
(* between two writes.                                                     *)
Raise ==
  /\ pc \in {"probe", "dispatch"} /\ Quiet /\ ~raised /\ raised' = TRUE
  /\ UNCHANGED <<bookVars, diskVars, runVars, decVars, recVars, boundVars, given, pc, io>>

(***************************************************************************)
(* The probe's end. Its result is recorded in files of its own.            *)
(***************************************************************************)
ProbeEnds(probe_only) ==
  /\ pc = "probe" /\ Quiet /\ dec[0] = "ended"
  /\ Clear(0)
  /\ \/ /\ status' = IF result[0] \in Capped THEN "capped"
                     ELSE IF raised THEN "interrupted"
                     ELSE IF result[0] # "output" THEN "probe_failed"
                     ELSE IF probe_only THEN "probed" ELSE "evaluated"
        /\ pc' = IF status' = "evaluated" THEN "dispatch" ELSE "report"
        /\ UNCHANGED <<error, boundVars>>
     \/ /\ result[0] # "refused" /\ Fault
        /\ pc' = "ending" /\ error' = TRUE /\ UNCHANGED status
  /\ UNCHANGED <<bookVars, diskVars, items, next, resume, sentBy, recVars, given, raised, io>>

(***************************************************************************)
(* dispatch. A decision that has ended is collected before another item is *)
(* admitted.                                                               *)
(***************************************************************************)
Work == {i \in Items : dec[i] # "none"}
Ready == {i \in Work : dec[i] = "ended"}
Loop == pc = "dispatch" /\ Quiet /\ Ready = {}
Stopped == raised \/ status # "evaluated" \/ error

Skip ==
  /\ Loop /\ ~Stopped /\ next <= N /\ ~pending(items[next])
  /\ next' = next + 1
  /\ UNCHANGED <<bookVars, diskVars, items, status, error, resume, decVars, recVars, boundVars,
                 given, pc, raised, io>>

Push(i, st) == items' = [items EXCEPT ![i] = Append(@, st)]

(* The item's input is unavailable, or the runtime refuses its plan.       *)
SetAside ==
  /\ Loop /\ ~Stopped /\ next <= N /\ pending(items[next])
  /\ given[next] # "runs" /\ Push(next, given[next])
  /\ next' = next + 1 /\ io' = Checkpoint("item")
  /\ UNCHANGED <<bookVars, diskVars, status, error, resume, decVars, recVars, boundVars,
                 given, pc, raised>>

Admit ==
  /\ Loop /\ ~Stopped /\ next <= N /\ pending(items[next]) /\ given[next] = "runs"
  /\ Cardinality(Work) < MaxInFlight
  /\ dec' = [dec EXCEPT ![next] = "running"] /\ next' = next + 1
  /\ UNCHANGED <<bookVars, diskVars, items, status, error, resume, tkt, result, sentBy,
                 recVars, boundVars, given, pc, raised, io>>

Observe ==
  /\ pc = "dispatch" /\ Quiet /\ raised /\ status = "evaluated"
  /\ status' = "interrupted"
  /\ UNCHANGED <<bookVars, diskVars, items, next, error, resume, decVars, recVars, boundVars,
                 given, pc, raised, io>>

Collect(i) ==
  /\ pc = "dispatch" /\ Quiet /\ dec[i] = "ended"
  /\ Clear(i)
  /\ status' = IF result[i] \in Capped THEN "capped"
               ELSE IF raised /\ status = "evaluated" THEN "interrupted" ELSE status
  /\ \/ /\ result[i] \in {"output", "source", "spend+source"}
        /\ io' = CaseFiles(i, rerun(i), result[i], "case") /\ UNCHANGED items
     \/ /\ result[i] \in {"refused", "spend"}
        /\ Push(i, "refused") /\ io' = Checkpoint("item")
     \/ /\ result[i] = "cancelled"
        /\ Push(i, "interrupted") /\ io' = Checkpoint("item")
  /\ UNCHANGED <<bookVars, diskVars, next, error, resume, sentBy, recVars, boundVars, given, pc, raised>>

(* The case files are written, then the item's state is saved. An error    *)
(* with the files of a completed decision is kept for the end; one with    *)
(* those of a refused source leaves dispatch at once.                      *)
CaseSaved ==
  /\ Wrote("case")
  /\ Push(io.slot, IF io.result = "output" THEN "completed" ELSE "refused")
  /\ io' = Checkpoint("item")
  /\ UNCHANGED <<bookVars, diskVars, next, status, error, resume, decVars, recVars, boundVars,
                 given, pc, raised>>

CaseFails ==
  /\ Failed("case") /\ IoDone /\ error' = TRUE
  /\ pc' = IF io.result = "output" THEN pc ELSE "ending"
  /\ UNCHANGED <<bookVars, diskVars, items, next, status, resume, decVars, recVars, given, raised>>

ItemSaved_ignored ==
  /\ (Wrote("item") /\ UNCHANGED boundVars) \/ Failed("item")
  /\ IoDone
  /\ UNCHANGED <<bookVars, diskVars, runVars, decVars, recVars, given, pc, raised>>

ItemSaved ==
  /\ \/ Wrote("item") /\ UNCHANGED <<error, boundVars>>
     \/ Failed("item") /\ error' = TRUE
  /\ IoDone
  /\ UNCHANGED <<bookVars, diskVars, items, next, status, resume, decVars, recVars, given, pc, raised>>

Leave ==
  /\ Loop /\ Work = {} /\ (next > N \/ Stopped)
  /\ status' = IF raised /\ status = "evaluated" THEN "interrupted" ELSE status
  /\ pc' = IF error THEN "ending" ELSE "report"
  /\ UNCHANGED <<bookVars, diskVars, items, next, error, resume, decVars, recVars, boundVars,
                 given, raised, io>>

(***************************************************************************)
(* The end of execute: live-run.json, for which the case document of every *)
(* completed item is read: there is none missing, or the run would end     *)
(* here in the model and TLC report a deadlock.                            *)
(***************************************************************************)
CaseDocuments == {<<i, rerun(i), "case">> : i \in {j \in Items : Last(items[j]) = "completed"}}

WriteReport ==
  /\ pc = "report" /\ Quiet
  /\ CaseDocuments \subseteq files
  /\ io' = Report("report")
  /\ UNCHANGED <<bookVars, diskVars, runVars, decVars, recVars, boundVars, given, pc, raised>>

Reported ==
  /\ \/ Wrote("report") /\ UNCHANGED <<error, boundVars>>
     \/ Failed("report") /\ error' = TRUE
  /\ IoDone /\ pc' = "ending"
  /\ UNCHANGED <<bookVars, diskVars, items, next, status, resume, decVars, recVars, given, raised>>

(* Decisions still under way when execute returns an error are dropped:    *)
(* what was sent is settled as unknown, what was not is released.          *)
DropWork(s) ==
  /\ pc = "ending" /\ dec[s] # "none" /\ Clear(s)
  /\ IF dec[s] \in {"held", "sent"}
     THEN RecordOutcome(tkt[s], IF dec[s] = "sent" THEN Unknown ELSE Released)
     ELSE UNCHANGED bookVars
  /\ UNCHANGED <<recVars, boundVars, diskVars, runVars, sentBy, given, pc, raised, io>>

Exit ==
  /\ pc = "ending" /\ \A s \in Slots : dec[s] = "none"
  /\ End /\ Forget
  /\ UNCHANGED <<diskVars, recVars, boundVars>>

(***************************************************************************)
(* The process is killed, or the machine loses power: then --out is as it  *)
(* was last synced, or is gone with all it holds.                          *)
(***************************************************************************)
Kill == pc # "down" /\ UNCHANGED diskVars

OutStays ==
  /\ cp' \in cpImages /\ cpImages' = {cp'}
  /\ \E gone \in SUBSET unsafe : files' = files \ gone
  /\ unsafe' = {} /\ anchored' = dir
  /\ UNCHANGED <<dir, lost, report>>

OutIsLost ==
  /\ dir /\ ~anchored
  /\ dir' = FALSE /\ lost' = TRUE
  /\ cp' = NoFile /\ cpImages' = {NoFile} /\ files' = {} /\ unsafe' = {} /\ report' = NoFile
  /\ UNCHANGED anchored

Crash ==
  /\ crashes < MaxCrashes /\ crashes' = crashes + 1
  /\ Forget /\ up' = FALSE
  /\ Kill \/ OutStays \/ OutIsLost
  /\ UNCHANGED <<book, acked, recVars, starts, faults>>

Decide(s) == \/ \E r \in Results(given, s) :
                  NoRequest(s, r)
             \/ Reserve(s) \/ ReserveRefused(s) \/ Send(s)
             \/ \E to \in Charges \cup {Released}, r \in Results(given, s) :
                  Settles(s, to, r)

(* Nobody starts another process.                                          *)
Over == pc = "down" /\ starts = MaxStarts /\ UNCHANGED vars

Step == \/ Rename \/ DirSync \/ Prepared \/ PrepareFails \/ OpenJournal \/ OpenRefused \/ Scan \/ Scanned
        \/ \E probe_only \in BOOLEAN : ProbeEnds(probe_only)
        \/ Skip \/ SetAside \/ Admit \/ Observe \/ CaseSaved \/ CaseFails \/ ItemSaved
        \/ Leave \/ WriteReport \/ Reported \/ Exit
        \/ \E s \in Slots : Decide(s) \/ DropWork(s)
        \/ \E i \in Items : Collect(i)

Next == \/ Step
        \/ PrepareFresh \/ PrepareResume
        \/ RemoveOut \/ Raise \/ Crash \/ Over

Spec == Init /\ [][Next]_vars

-----------------------------------------------------------------------------
(* A decision id is used by one process: whatever is killed, lost or fails *)
(* to be saved, a later process that sends for the same item, or probes    *)
(* the same binding, does so under an id nothing was sent under before. So *)
(* the journal and the case documents attribute each charge to one run of  *)
(* the item. Only the loss of --out itself undoes it.                      *)
OnceUnderOneId == ~lost => \A d \in Attempts : Cardinality(sentBy[d]) <= 1

(* What a checkpoint that survives a power loss calls completed has its    *)
(* three case files, and they survive too: save_case precedes the save of  *)
(* the state, and the directory of the cases is synced in between.         *)
CompletedKept ==
  \A image \in cpImages \ {NoFile} : \A i \in Items :
    Last(image[i]) = "completed" =>
      {<<i, Reruns(image[i]), x>> : x \in {"live", "run", "case"}} \subseteq files \ unsafe

(* A report never says more than a resumed run will find: the history it   *)
(* was made from is the beginning of every checkpoint that may survive,    *)
(* and a run reported as evaluated left no item pending.                   *)
ReportHonest ==
  report # NoFile =>
    \A i \in Items :
      /\ \A image \in cpImages : image # NoFile /\ IsPrefix(report.items[i], image[i])
      /\ report.status = "evaluated" => ~pending(report.items[i])

(* What a resume that finds no checkpoint is told: "no checkpoint exists;  *)
(* nothing was sent because the journal is opened only after the           *)
(* checkpoint exists".                                                     *)
NothingSentWithout == pc = "down" /\ cp = NoFile => \A d \in Attempts : sentBy[d] = {}
=============================================================================
