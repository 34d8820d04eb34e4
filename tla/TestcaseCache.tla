--------------------------- MODULE TestcaseCache ----------------------------
(***************************************************************************)
(* internal/judger/testcase_cache.go: the directories of extracted test    *)
(* cases that the workers of one judger node share.                        *)
(*                                                                         *)
(* A zip is known by the number of its upload; its ETag is that number.  A *)
(* directory is whole until somebody's RemoveAll has begun on it.  Paths,  *)
(* the contents of the zip and clock times are left out: validatedAt is    *)
(* recent or not, and becomes old at any moment.                           *)
(***************************************************************************)
EXTENDS Naturals, Sequences, FiniteSets, SequencesExt

CONSTANTS
    Problems, Workers,
    MaxEntries,     \* maxEntries
    MaxUploads,     \* how many times a problem's zip is uploaded
    MaxCalls,       \* how many calls of EnsureTestcases are made
    Faults,         \* the kinds of faults that may happen
    MaxFaults,      \* how many faults may happen altogether
    NoWorker, NoProblem

ASSUME CacheAssumption ==
    /\ MaxEntries \in Nat \ {0} /\ MaxUploads \in Nat \ {0}
    /\ MaxCalls \in Nat /\ MaxFaults \in Nat
    /\ IsFiniteSet(Problems)
    /\ NoWorker \notin Workers
    /\ NoProblem \notin Problems

VARIABLES
    remote,     \* remote[p]: the zip in MinIO, 0 before the first upload
    disk,       \* disk[p]: the directory of p
    lru,        \* lruList, most recently used first; its range is the index
    entry,      \* entry[p]: tcEntry of p, meaningful for p in lru
    slot,       \* inProgress[p]: the worker that downloads p
    removers,   \* goroutines of evictIfNeeded: waiting to run, and at work
    up,         \* the judger process runs
    pc,         \* pc[w]: where worker w is
    job,        \* job[w]: the problem w asked for, NoProblem between calls
    leader,     \* leader[w]: whose slot w waits for
    seen,       \* seen[w]: the ETag w validated its directory against
    staged,     \* staged[w]: the directory w has extracted and not renamed yet
    failed,     \* failed[w]: refresh returned an error
    tainted,    \* history: evicted, or lost in a failed rename, since installed
    leaked,     \* history: problems whose RemoveAll failed, or that Prune passed over
    calls,      \* calls left
    budget      \* faults left

storeVars == <<remote, disk>>

indexVars == <<lru, entry, slot>>

callVars == <<pc, job, leader, seen, staged, failed>>

history == <<tainted, leaked>>

vars == <<storeVars, indexVars, removers, up, callVars, history, calls, budget>>

-----------------------------------------------------------------------------
Versions == 0 .. MaxUploads

Dir == [etag : Versions, files : Versions, whole : BOOLEAN]

\* No directory: readETagFile returns "".
NoDir == [etag |-> 0, files |-> 0, whole |-> FALSE]

Fault(kind) == kind \in Faults /\ budget > 0 /\ budget' = budget - 1

Goto(w, at) == pc' = [pc EXCEPT ![w] = at]

\* container/list: the element of p is unlinked and becomes the first.
MoveToFront(p) ==
    LET at == CHOOSE i \in DOMAIN lru : lru[i] = p
    IN  [i \in DOMAIN lru |-> IF i = 1 THEN p ELSE IF i <= at THEN lru[i - 1] ELSE lru[i]]

PushFront(p) == <<p>> \o lru

\* Mutant: the evicted directory stays on disk.
evictIfNeededKeeps(list) ==
    /\ lru' = SubSeq(list, 1, IF Len(list) < MaxEntries THEN Len(list) ELSE MaxEntries)
    /\ UNCHANGED <<removers, tainted>>

\* evictIfNeeded: the entries beyond maxEntries leave the list; a goroutine
\* each will remove their directories.
evictIfNeeded(list) ==
    LET out == {list[i] : i \in {j \in DOMAIN list : j > MaxEntries}}
    IN  /\ lru' = SubSeq(list, 1, IF Len(list) < MaxEntries THEN Len(list) ELSE MaxEntries)
        /\ removers' = [p \in Problems |->
                           IF p \in out THEN [removers[p] EXCEPT !.waiting = @ + 1]
                           ELSE removers[p]]
        /\ tainted' = tainted \cup out

-----------------------------------------------------------------------------
\* EnsureTestcases.

\* Fast path: validated within etagTTL.
FastPath(w, p) ==
    /\ p \in Range(lru)
    /\ entry[p].recent
    /\ lru' = MoveToFront(p)
    /\ seen' = [seen EXCEPT ![w] = entry[p].etag]
    /\ Goto(w, "use")
    /\ UNCHANGED <<entry, slot, leader>>

\* Another worker is refreshing p: wait for it.
Join(w, p) ==
    /\ ~(p \in Range(lru) /\ entry[p].recent)
    /\ slot[p] # NoWorker
    /\ leader' = [leader EXCEPT ![w] = slot[p]]
    /\ Goto(w, "wait")
    /\ UNCHANGED <<indexVars, seen>>

\* Mutant: the slot is taken without looking.
LeadAnyway(w, p) ==
    /\ ~(p \in Range(lru) /\ entry[p].recent)
    /\ slot' = [slot EXCEPT ![p] = w]
    /\ Goto(w, "stat")
    /\ UNCHANGED <<lru, entry, leader, seen>>

Lead(w, p) ==
    /\ ~(p \in Range(lru) /\ entry[p].recent)
    /\ slot[p] = NoWorker
    /\ slot' = [slot EXCEPT ![p] = w]
    /\ Goto(w, "stat")
    /\ UNCHANGED <<lru, entry, leader, seen>>

EnsureTestcases(w, p) ==
    /\ up
    /\ pc[w] = "idle"
    /\ calls > 0
    /\ calls' = calls - 1
    /\ job' = [job EXCEPT ![w] = p]
    /\ FastPath(w, p) \/ Join(w, p) \/ Lead(w, p)
    /\ UNCHANGED <<storeVars, removers, up, staged, failed, history, budget>>

\* refresh: Stat fails, or finds no zip, or returns the ETag.
Stat(w) ==
    /\ pc[w] = "stat"
    /\ \/ /\ remote[job[w]] # 0
          /\ seen' = [seen EXCEPT ![w] = remote[job[w]]]
          /\ Goto(w, "compare")
          /\ UNCHANGED <<failed, budget>>
       \/ /\ IF remote[job[w]] = 0 THEN UNCHANGED budget ELSE Fault("store")
          /\ failed' = [failed EXCEPT ![w] = TRUE]
          /\ Goto(w, "finish")
          /\ UNCHANGED seen
    /\ UNCHANGED <<storeVars, indexVars, removers, up, job, leader, staged, history,
                   calls>>

\* Mutant: any directory with an ETag will do.
UpToDateAny(w) == disk[job[w]].etag # 0

UpToDate(w) == disk[job[w]].etag = seen[w]

\* refresh: the local copy is current and its entry, if any, valid again; or the
\* zip is to be fetched.
Compare(w) ==
    /\ pc[w] = "compare"
    /\ IF UpToDate(w)
       THEN /\ Goto(w, "finish")
            /\ IF job[w] \in Range(lru)
               THEN /\ entry' = [entry EXCEPT ![job[w]].recent = TRUE]
                    /\ lru' = MoveToFront(job[w])
               ELSE UNCHANGED <<entry, lru>>
       ELSE Goto(w, "download") /\ UNCHANGED <<entry, lru>>
    /\ UNCHANGED <<storeVars, slot, removers, up, job, leader, seen, staged, failed,
                   history, calls, budget>>

\* downloadAndExtract, steps 1 to 3: the zip that is there now, extracted next to
\* its final place and marked with the ETag that Stat returned.
Download(w) ==
    /\ pc[w] = "download"
    /\ \/ /\ staged' = [staged EXCEPT ![w] =
                            [etag |-> seen[w], files |-> remote[job[w]], whole |-> TRUE]]
          /\ Goto(w, "replace")
          /\ UNCHANGED <<failed, budget>>
       \/ /\ Fault("store")
          /\ failed' = [failed EXCEPT ![w] = TRUE]
          /\ Goto(w, "finish")
          /\ UNCHANGED staged
    /\ UNCHANGED <<storeVars, indexVars, removers, up, job, leader, seen, history, calls>>

\* Step 4: RemoveAll of the old directory is under way.
Replace(w) ==
    /\ pc[w] = "replace"
    /\ \E e \in {0, disk[job[w]].etag} :
          disk' = [disk EXCEPT ![job[w]].whole = FALSE, ![job[w]].etag = e]
    /\ Goto(w, "rename")
    /\ UNCHANGED <<remote, indexVars, removers, up, job, leader, seen, staged, failed,
                   history, calls, budget>>

\* The old directory is gone, and step 5, Rename.  The error of RemoveAll is not
\* looked at: Rename then fails on what is left of the old directory.
Rename(w) ==
    /\ pc[w] = "rename"
    /\ \/ /\ disk' = [disk EXCEPT ![job[w]] = staged[w]]
          /\ tainted' = IF removers[job[w]] = [waiting |-> 0, working |-> 0]
                        THEN tainted \ {job[w]} ELSE tainted
          /\ UNCHANGED <<failed, leaked, budget>>
       \/ /\ Fault("fs")
          /\ failed' = [failed EXCEPT ![w] = TRUE]
          /\ tainted' = tainted \cup {job[w]}
          /\ \/ UNCHANGED disk /\ leaked' = leaked \cup {job[w]}
             \/ disk' = [disk EXCEPT ![job[w]] = NoDir] /\ UNCHANGED leaked
    /\ staged' = [staged EXCEPT ![w] = NoDir]
    /\ Goto(w, "finish")
    /\ UNCHANGED <<remote, indexVars, removers, up, job, leader, seen, calls>>

\* Mutant: the path is stored where the ETag belongs.
promoteEntryPath(p) ==
    /\ entry' = [entry EXCEPT ![p] = [etag |-> p, recent |-> TRUE]]
    /\ IF p \in Range(lru)
       THEN lru' = MoveToFront(p) /\ UNCHANGED <<removers, tainted>>
       ELSE evictIfNeeded(PushFront(p))

\* promoteEntry: an existing entry is refreshed, a new one may evict others.
promoteEntry(p) ==
    /\ entry' = [entry EXCEPT ![p] = [etag |-> disk[p].etag, recent |-> TRUE]]
    /\ IF p \in Range(lru)
       THEN lru' = MoveToFront(p) /\ UNCHANGED <<removers, tainted>>
       ELSE evictIfNeeded(PushFront(p))

\* Under the lock: the slot is given up and the entry promoted.
Finish(w) ==
    /\ pc[w] = "finish"
    /\ slot' = [slot EXCEPT ![job[w]] = NoWorker]
    /\ IF failed[w] THEN UNCHANGED <<entry, lru, removers, tainted>>
                    ELSE promoteEntry(job[w])
    /\ Goto(w, "close")
    /\ UNCHANGED <<storeVars, up, job, leader, seen, staged, failed, leaked, calls,
                   budget>>

\* Mutant: the channel is closed only on success.
CloseOnSuccess(w) ==
    /\ pc[w] = "close"
    /\ LET out == {w} \cup (IF failed[w] THEN {} ELSE {v \in Workers : pc[v] = "wait" /\ leader[v] = w})
       IN  /\ pc' = [v \in Workers |->
                        IF v \notin out THEN pc[v] ELSE IF failed[w] THEN "idle" ELSE "use"]
           /\ seen' = [v \in Workers |-> IF v \notin out THEN seen[v]
                                         ELSE IF failed[w] THEN 0 ELSE seen[w]]
           /\ job' = [v \in Workers |->
                         IF failed[w] /\ v \in out THEN NoProblem ELSE job[v]]
    /\ leader' = [v \in Workers |-> IF leader[v] = w THEN NoWorker ELSE leader[v]]
    /\ failed' = [failed EXCEPT ![w] = FALSE]
    /\ UNCHANGED <<storeVars, indexVars, removers, up, staged, history, calls, budget>>

\* close(slot.done): w and everybody who waited for it return the same result.
Close(w) ==
    /\ pc[w] = "close"
    /\ LET out == {w} \cup {v \in Workers : pc[v] = "wait" /\ leader[v] = w}
       IN  /\ pc' = [v \in Workers |->
                        IF v \notin out THEN pc[v] ELSE IF failed[w] THEN "idle" ELSE "use"]
           /\ seen' = [v \in Workers |-> IF v \notin out THEN seen[v]
                                         ELSE IF failed[w] THEN 0 ELSE seen[w]]
           /\ job' = [v \in Workers |->
                         IF failed[w] /\ v \in out THEN NoProblem ELSE job[v]]
    /\ leader' = [v \in Workers |-> IF leader[v] = w THEN NoWorker ELSE leader[v]]
    /\ failed' = [failed EXCEPT ![w] = FALSE]
    /\ UNCHANGED <<storeVars, indexVars, removers, up, staged, history, calls, budget>>

\* The scheduler has run the test cases.
Release(w) ==
    /\ pc[w] = "use"
    /\ Goto(w, "idle")
    /\ job' = [job EXCEPT ![w] = NoProblem]
    /\ seen' = [seen EXCEPT ![w] = 0]
    /\ UNCHANGED <<storeVars, indexVars, removers, up, leader, staged, failed, history,
                   calls, budget>>

-----------------------------------------------------------------------------
\* The goroutines of evictIfNeeded.

\* RemoveAll opens the directory and deletes what it finds, .etag sooner or later.
RemoveBegins(p) ==
    /\ removers[p].waiting > 0
    /\ IF disk[p] = NoDir
       THEN /\ removers' = [removers EXCEPT ![p].waiting = @ - 1]
            /\ UNCHANGED disk
       ELSE /\ removers' = [removers EXCEPT ![p] =
                               [waiting |-> @.waiting - 1, working |-> @.working + 1]]
            /\ \E e \in {0, disk[p].etag} :
                  disk' = [disk EXCEPT ![p].whole = FALSE, ![p].etag = e]
    /\ UNCHANGED <<remote, indexVars, up, callVars, history, calls, budget>>

\* The emptied directory goes.  One that was renamed into its place meanwhile
\* stays, or goes too: RemoveAll opens the path again after every thousand files.
\* An error is logged and the rest of the directory left behind.
RemoveEnds(p) ==
    /\ removers[p].working > 0
    /\ removers' = [removers EXCEPT ![p].working = @ - 1]
    /\ \/ /\ disk' = [disk EXCEPT ![p] = NoDir]
          /\ UNCHANGED <<leaked, budget>>
       \/ disk[p].whole /\ UNCHANGED <<disk, leaked, budget>>
       \/ Fault("fs") /\ leaked' = leaked \cup {p} /\ UNCHANGED disk
    /\ UNCHANGED <<remote, indexVars, up, callVars, tainted, calls>>

-----------------------------------------------------------------------------
\* The environment: uploads of the administrators, time, crashes.

Upload(p) ==
    /\ remote[p] < MaxUploads
    /\ remote' = [remote EXCEPT ![p] = @ + 1]
    /\ UNCHANGED <<disk, indexVars, removers, up, callVars, history, calls, budget>>

\* etagTTL has passed since p was validated.
Expire(p) ==
    /\ p \in Range(lru)
    /\ entry[p].recent
    /\ entry' = [entry EXCEPT ![p].recent = FALSE]
    /\ UNCHANGED <<storeVars, lru, slot, removers, up, callVars, history, calls, budget>>

Idle(p) == [waiting |-> 0, working |-> 0]

Crash ==
    /\ up
    /\ Fault("crash")
    /\ up' = FALSE
    /\ lru' = <<>>
    /\ entry' = [p \in Problems |-> [etag |-> 0, recent |-> FALSE]]
    /\ slot' = [p \in Problems |-> NoWorker]
    /\ removers' = [p \in Problems |-> Idle(p)]
    /\ pc' = [w \in Workers |-> "idle"]
    /\ job' = [w \in Workers |-> NoProblem]
    /\ leader' = [w \in Workers |-> NoWorker]
    /\ seen' = [w \in Workers |-> 0]
    /\ staged' = [w \in Workers |-> NoDir]
    /\ failed' = [w \in Workers |-> FALSE]
    /\ UNCHANGED <<storeVars, history, calls>>

OnDisk == {p \in Problems : disk[p] # NoDir}

\* The next process calls Prune before its workers start: the directories found
\* are listed by age, which is left open here, and evicted beyond maxEntries.  When
\* the base directory cannot be read none is found, and one is passed over when its
\* Info cannot.
Prune ==
    /\ ~up
    /\ up' = TRUE
    /\ \E found \in SUBSET OnDisk :
          /\ IF found = OnDisk THEN UNCHANGED budget ELSE Fault("fs")
          /\ \E list \in SetToSeqs(found) : evictIfNeeded(list)
          /\ leaked' = OnDisk \ found
    /\ entry' = [p \in Problems |-> [etag |-> disk[p].etag, recent |-> FALSE]]
    /\ UNCHANGED <<storeVars, slot, callVars, calls>>

-----------------------------------------------------------------------------
Init ==
    /\ remote \in [Problems -> 0 .. 1]
    /\ disk = [p \in Problems |-> NoDir]
    /\ lru = <<>>
    /\ entry = [p \in Problems |-> [etag |-> 0, recent |-> FALSE]]
    /\ slot = [p \in Problems |-> NoWorker]
    /\ removers = [p \in Problems |-> Idle(p)]
    /\ up = TRUE
    /\ pc = [w \in Workers |-> "idle"]
    /\ job = [w \in Workers |-> NoProblem]
    /\ leader = [w \in Workers |-> NoWorker]
    /\ seen = [w \in Workers |-> 0]
    /\ staged = [w \in Workers |-> NoDir]
    /\ failed = [w \in Workers |-> FALSE]
    /\ tainted = {}
    /\ leaked = {}
    /\ calls = MaxCalls
    /\ budget = MaxFaults

Refresh(w) ==
    \/ Stat(w) \/ Compare(w) \/ Download(w) \/ Replace(w) \/ Rename(w)
    \/ Finish(w) \/ Close(w)

Next ==
    \/ \E w \in Workers, p \in Problems : EnsureTestcases(w, p)
    \/ \E w \in Workers : Refresh(w) \/ Release(w)
    \/ \E p \in Problems : RemoveBegins(p) \/ RemoveEnds(p) \/ Upload(p) \/ Expire(p)
    \/ Crash \/ Prune

Spec == Init /\ [][Next]_vars

\* A worker inside EnsureTestcases goes on.
FairSpec == Spec /\ \A w \in Workers : WF_vars(Refresh(w))

-----------------------------------------------------------------------------
\* Properties.

\* Every variable keeps its type.
TypeOK ==
    /\ remote \in [Problems -> Versions]
    /\ disk \in [Problems -> Dir]
    /\ lru \in Seq(Problems)
    /\ entry \in [Problems -> [etag : Versions, recent : BOOLEAN]]
    /\ slot \in [Problems -> Workers \cup {NoWorker}]
    /\ removers \in [Problems -> [waiting : Nat, working : Nat]]
    /\ up \in BOOLEAN
    /\ pc \in [Workers -> {"idle", "wait", "stat", "compare", "download", "replace",
                           "rename", "finish", "close", "use"}]
    /\ job \in [Workers -> Problems \cup {NoProblem}]
    /\ leader \in [Workers -> Workers \cup {NoWorker}]
    /\ seen \in [Workers -> Versions]
    /\ staged \in [Workers -> Dir]
    /\ failed \in [Workers -> BOOLEAN]
    /\ tainted \subseteq Problems
    /\ leaked \subseteq Problems
    /\ calls \in Nat
    /\ budget \in Nat

InRefresh == {"stat", "compare", "download", "replace", "rename", "finish"}

\* "Only one download goroutine runs; others wait for its result": two workers
\* never refresh the same problem, so the staging directory and the swap of
\* directories have one writer.
OneRefresh ==
    \A v, w \in Workers :
        pc[v] \in InRefresh /\ pc[w] \in InRefresh /\ job[v] = job[w] => v = w

\* A worker runs test cases from a whole directory, at least as new as the zip its
\* call (or the validation it trusted) had seen, unless the problem was evicted
\* since the directory was installed or another worker is just replacing it.
HandedOutIsCurrent ==
    \A w \in Workers :
        pc[w] = "use" =>
            \/ disk[job[w]].whole /\ disk[job[w]].files >= seen[w]
            \/ job[w] \in tainted
            \/ \E v \in Workers : pc[v] = "rename" /\ job[v] = job[w]

\* The disk is bounded: the list never exceeds maxEntries or holds a problem
\* twice, and a directory that is not on it is about to be removed, or is being
\* refreshed, or was left behind until the next Prune: its RemoveAll failed, or the
\* last Prune could not read it.
DiskIsBounded ==
    /\ Len(lru) <= MaxEntries
    /\ Cardinality(Range(lru)) = Len(lru)
    /\ up => \A p \in Problems :
          disk[p] # NoDir =>
              \/ p \in Range(lru)
              \/ removers[p] # Idle(p)
              \/ slot[p] # NoWorker
              \/ p \in leaked

\* A call that waits for another worker's download comes back.
WaitersReturn ==
    \A w \in Workers : pc[w] = "wait" ~> pc[w] # "wait"
=============================================================================
