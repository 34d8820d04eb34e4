------------------------ MODULE TestcaseCacheProofs -------------------------
(***************************************************************************)
(* Proofs about TestcaseCache for any problems and workers, any size of    *)
(* the cache and any number of uploads, calls and faults.                  *)
(***************************************************************************)
EXTENDS TestcaseCache, FiniteSetTheorems, TLAPS

Places == {"idle", "wait", "stat", "compare", "download", "replace", "rename", "finish",
           "close", "use"}

StoreOK ==
    /\ remote \in [Problems -> Versions]
    /\ disk \in [Problems -> Dir]

EntriesOK == entry \in [Problems -> [etag : Versions, recent : BOOLEAN]]

ListOK == lru \in Seq(Problems)

SlotsOK == slot \in [Problems -> Workers \cup {NoWorker}]

RemoversOK == removers \in [Problems -> [waiting : Nat, working : Nat]]

CallsOK ==
    /\ pc \in [Workers -> Places]
    /\ job \in [Workers -> Problems \cup {NoProblem}]
    /\ leader \in [Workers -> Workers \cup {NoWorker}]
    /\ seen \in [Workers -> Versions]
    /\ staged \in [Workers -> Dir]

\* A call works for a problem, and nobody calls a process that is down.
JobsOK == \A w \in Workers : pc[w] # "idle" => up /\ job[w] \in Problems

FailedOK ==
    /\ failed \in [Workers -> BOOLEAN]
    /\ \A w \in Workers : failed[w] => pc[w] \in {"finish", "close"}

HistoryOK == tainted \subseteq Problems /\ leaked \subseteq Problems

BoundsOK == up \in BOOLEAN /\ calls \in Nat /\ budget \in Nat

TInv ==
    /\ StoreOK /\ EntriesOK /\ ListOK /\ SlotsOK /\ RemoversOK /\ CallsOK /\ JobsOK
    /\ FailedOK /\ HistoryOK /\ BoundsOK

\* The list holds nobody twice and has room for maxEntries.
ListBounded ==
    /\ \A i, j \in DOMAIN lru : lru[i] = lru[j] => i = j
    /\ Len(lru) <= MaxEntries

\* A slot belongs to the worker that refreshes its problem, and to no other.
SlotOwned ==
    /\ \A w \in Workers : pc[w] \in InRefresh => slot[job[w]] = w
    /\ \A p \in Problems :
          slot[p] # NoWorker => pc[slot[p]] \in InRefresh /\ job[slot[p]] = p

\* Whoever waits waits for a call about the same problem that has not returned.
WaiterFollows ==
    \A v \in Workers :
        pc[v] = "wait" => /\ leader[v] \in Workers
                          /\ job[leader[v]] = job[v]
                          /\ pc[leader[v]] \in InRefresh \cup {"close"}

SInv == TInv /\ SlotOwned /\ WaiterFollows

\* Nothing is known here that MinIO does not have: a directory's files are at least
\* as new as its .etag says.
NothingAhead ==
    /\ \A p \in Problems : /\ entry[p].etag <= remote[p]
                           /\ disk[p].etag <= disk[p].files
                           /\ disk[p].files <= remote[p]
    /\ \A w \in Workers : pc[w] # "idle" => seen[w] <= remote[job[w]]
    /\ \A w \in Workers : pc[w] \in {"idle", "wait", "stat"} => seen[w] = 0

Validating == {"compare", "download", "replace", "rename"}

\* The ETag a refresh has got from MinIO is the newest anybody holds for the problem.
SawNewest ==
    \A v \in Workers : pc[v] \in Validating =>
        /\ seen[v] # 0
        /\ entry[job[v]].etag <= seen[v]
        /\ disk[job[v]].etag <= seen[v]
        /\ pc[v] # "compare" => disk[job[v]].etag < seen[v]
        /\ \A u \in Workers : pc[u] # "idle" /\ job[u] = job[v] => seen[u] <= seen[v]

\* What waits to be renamed is whole and no older than what the refresh saw.
StagedCurrent ==
    \A w \in Workers : pc[w] \in {"replace", "rename"} =>
        /\ staged[w].whole
        /\ staged[w].etag = seen[w]
        /\ seen[w] <= staged[w].files
        /\ staged[w].files <= remote[job[w]]

NInv == SInv /\ NothingAhead /\ SawNewest /\ StagedCurrent

\* Who is being removed was evicted.
RemoverTaints ==
    \A p \in Problems : removers[p].waiting > 0 \/ removers[p].working > 0 => p \in tainted

\* A directory that a crash left half replaced names an ETag that is out of date,
\* so that no refresh takes it for current.
TornIsOld ==
    /\ \A p \in Problems :
          ~disk[p].whole => p \in tainted \/ disk[p].etag = 0 \/ disk[p].etag < remote[p]
    /\ \A w \in Workers :
          pc[w] = "compare" /\ ~disk[job[w]].whole =>
              job[w] \in tainted \/ disk[job[w]].etag = 0 \/ disk[job[w]].etag < seen[w]

\* The directory of p serves a call that saw version n, or the excuses hold.
Serves(p, n) ==
    \/ disk[p].whole /\ n <= disk[p].files
    \/ p \in tainted
    \/ \E v \in Workers : pc[v] = "rename" /\ job[v] = p

\* A call that has succeeded, or is about to.
Trusts(w) == pc[w] = "use" \/ (pc[w] \in {"finish", "close"} /\ ~failed[w])

\* Everybody who trusts the directory may: the entry that is on the list and
\* recent, and every refresh and call that has succeeded.
TrustIsDeserved ==
    /\ \A p \in Problems : p \in Range(lru) /\ entry[p].recent => Serves(p, entry[p].etag)
    /\ \A w \in Workers : Trusts(w) => Serves(job[w], seen[w])

\* A process that is down has forgotten its list.
DownEmpty == ~up => Range(lru) = {}

HInv == NInv /\ RemoverTaints /\ TornIsOld /\ DownEmpty /\ TrustIsDeserved

\* Why the directory of p may be there.
Accounted(p) ==
    \/ p \in Range(lru)
    \/ p \in leaked
    \/ removers[p].waiting > 0
    \/ removers[p].working > 0 /\ ~disk[p].whole
    \/ /\ slot[p] # NoWorker
       /\ pc[slot[p]] = "finish" /\ ~failed[slot[p]]

DirsAccounted == up => \A p \in Problems : disk[p] # NoDir => Accounted(p)

DInv == SInv /\ ListBounded /\ DirsAccounted

\* What a step may do to the directory of p: RemoveAll at work or done, or the
\* rename of a refresh that ends.
DirKept(p) ==
    /\ disk'[p].etag \in {0, disk[p].etag}
    /\ disk'[p].files = disk[p].files \/ disk'[p] = NoDir

DirInstalled(p) ==
    \E w \in Workers : /\ pc[w] = "rename" /\ job[w] = p /\ pc'[w] = "finish"
                       /\ disk'[p] = staged[w] /\ UNCHANGED remote

DirMoves(p) == remote[p] <= remote'[p] /\ (DirKept(p) \/ DirInstalled(p))

\* What it may do to an entry: an entry names a directory's .etag when nobody is
\* refreshing it any more.
EntryMoves(p) ==
    \/ entry'[p].etag \in {0, entry[p].etag}
    \/ /\ entry'[p].etag = disk[p].etag
       /\ UNCHANGED <<remote, disk>>
       /\ \A v \in Workers : pc'[v] \in Validating => job'[v] # p

\* Where the ETag comes from that call v holds.
SeenFrom(v) ==
    \/ seen'[v] = 0
    \/ seen'[v] = seen[v] /\ job'[v] = job[v] /\ pc[v] # "idle"
    \/ pc[v] = "stat" /\ pc'[v] = "compare" /\ seen'[v] = remote[job[v]] /\ job'[v] = job[v]
    \/ pc'[v] = "use" /\ job'[v] \in Problems /\ seen'[v] = entry[job'[v]].etag
    \/ pc'[v] = "use" /\ \E u \in Workers : pc[u] # "idle" /\ job'[v] = job[u] /\ seen'[v] = seen[u]

\* A refresh goes on with what it saw, or has just seen what MinIO has.
ValidatingFrom(v) ==
    /\ job'[v] = job[v] /\ job[v] \in Problems
    /\ \/ /\ pc[v] \in Validating /\ seen'[v] = seen[v]
          /\ pc[v] = "compare" /\ pc'[v] # "compare" => disk[job[v]].etag # seen[v]
          /\ pc[v] = "compare" /\ pc'[v] # "compare" => UNCHANGED disk
       \/ /\ pc[v] = "stat" /\ pc'[v] = "compare"
          /\ seen'[v] = remote[job[v]] /\ remote[job[v]] # 0
          /\ UNCHANGED <<remote, disk, entry>>
          /\ \A u \in Workers \ {v} : /\ pc'[u] = pc[u] /\ seen'[u] = seen[u]
                                      /\ job'[u] = job[u]

\* The taint of p goes, and its directory becomes whole, with a rename; it stops
\* being whole when somebody replaces it or removes what was evicted.
TaintMoves(p) ==
    /\ p \in tainted => p \in tainted' \/ DirInstalled(p)
    /\ disk[p].whole /\ ~disk'[p].whole =>
          p \in tainted' \/ \E v \in Workers : pc'[v] = "rename" /\ job'[v] = p
    /\ disk'[p].whole => disk[p].whole \/ DirInstalled(p)

\* A rename is over when it has succeeded, failed, or the process has crashed.
RenameMoves(v) ==
    \/ pc'[v] = "rename" /\ job'[v] = job[v]
    \/ disk'[job[v]] = staged[v]
    \/ job[v] \in tainted'
    \/ ~up'

\* Serves(p, n) after the step, n being what it is now.
ServesNext(p, n) ==
    \/ disk'[p].whole /\ n <= disk'[p].files
    \/ p \in tainted'
    \/ \E v \in Workers : pc'[v] = "rename" /\ job'[v] = p

\* Who begins to trust the directory of p through the list.
EntryTrust(p) ==
    \/ p \in Range(lru) /\ entry[p].recent /\ entry'[p].etag = entry[p].etag
    \/ \E w \in Workers : /\ pc[w] = "compare" /\ job[w] = p /\ disk[p].etag = seen[w]
                          /\ entry'[p].etag = entry[p].etag
                          /\ UNCHANGED <<disk, tainted>>
    \/ \E w \in Workers : /\ pc[w] = "finish" /\ ~failed[w] /\ job[w] = p
                          /\ entry'[p].etag = disk[p].etag

\* Who begins to trust it in a call.
CallTrust(w) ==
    \/ Trusts(w) /\ seen'[w] = seen[w] /\ job'[w] = job[w]
    \/ /\ seen'[w] = seen[w] /\ job'[w] = job[w]
       /\ \/ /\ pc[w] = "compare" /\ disk[job[w]].etag = seen[w]
             /\ UNCHANGED <<disk, tainted>>
          \/ pc[w] = "rename" /\ disk'[job[w]] = staged[w]
    \/ /\ job'[w] \in Range(lru) /\ entry[job'[w]].recent
       /\ seen'[w] = entry[job'[w]].etag
    \/ \E u \in Workers : /\ pc[u] = "close" /\ ~failed[u]
                          /\ job'[w] = job[u] /\ seen'[w] = seen[u]

-----------------------------------------------------------------------------
\* Versions start at 0, and a directory that is not there is a directory value.
LEMMA VersionFacts ==
    /\ Versions \subseteq Nat /\ 0 \in Versions /\ 1 \in Versions
    /\ NoDir \in Dir /\ NoDir.etag = 0 /\ NoDir.files = 0 /\ NoDir.whole = FALSE
    /\ \A d \in Dir : d.etag \in Versions /\ d.files \in Versions /\ d.whole \in BOOLEAN
BY CacheAssumption DEF Versions, NoDir, Dir

\* MoveToFront permutes the list.
LEMMA MoveToFrontFacts ==
    ASSUME ListOK, NEW p \in Range(lru)
    PROVE  /\ MoveToFront(p) \in Seq(Problems)
           /\ Len(MoveToFront(p)) = Len(lru)
           /\ Range(MoveToFront(p)) = Range(lru)
           /\ ListBounded => \A i, j \in DOMAIN MoveToFront(p) :
                                MoveToFront(p)[i] = MoveToFront(p)[j] => i = j
<1> DEFINE at == CHOOSE i \in DOMAIN lru : lru[i] = p
           n == Len(lru)
           m == [i \in 1 .. n |-> IF i = 1 THEN p ELSE IF i <= at THEN lru[i - 1] ELSE lru[i]]
<1>1. n \in Nat /\ DOMAIN lru = 1 .. n /\ \A i \in 1 .. n : lru[i] \in Problems
  BY DEF ListOK
<1>2. at \in 1 .. n /\ lru[at] = p
  BY <1>1 DEF Range
<1>3. MoveToFront(p) = m
  BY <1>1 DEF MoveToFront
<1> HIDE DEF n, at
<1>4. \A i \in 1 .. n : m[i] \in Problems
  BY <1>1, <1>2
<1>5. m \in Seq(Problems) /\ Len(m) = n /\ DOMAIN m = 1 .. n
  BY <1>1, <1>4
<1>6. Range(m) = Range(lru)
  <2>1. ASSUME NEW q \in Range(m) PROVE q \in Range(lru)
    <3>1. PICK i \in 1 .. n : q = m[i]
      BY <1>5 DEF Range
    <3>2. \E j \in 1 .. n : q = lru[j]
      <4>1. CASE i = 1
        BY <3>1, <4>1, <1>2
      <4>2. CASE i # 1 /\ i <= at
        BY <3>1, <4>2, <1>1, <1>2
      <4>3. CASE i # 1 /\ ~(i <= at)
        BY <3>1, <4>3, <1>1, <1>2
      <4> QED
        BY <4>1, <4>2, <4>3
    <3> QED
      BY <3>2, <1>1 DEF Range
  <2>2. ASSUME NEW q \in Range(lru) PROVE q \in Range(m)
    <3>1. PICK j \in 1 .. n : q = lru[j]
      BY <1>1 DEF Range
    <3>2. \E i \in 1 .. n : q = m[i]
      <4>1. CASE j = at
        <5>1. 1 \in 1 .. n /\ m[1] = p
          BY <1>1, <1>2
        <5> QED
          BY <5>1, <4>1, <3>1, <1>2
      <4>2. CASE j < at
        <5>1. j + 1 \in 1 .. n /\ m[j + 1] = lru[j]
          BY <4>2, <1>1, <1>2
        <5> QED
          BY <5>1, <3>1
      <4>3. CASE j > at
        <5>1. m[j] = lru[j]
          BY <4>3, <1>1, <1>2
        <5> QED
          BY <5>1, <3>1
      <4> QED
        BY <4>1, <4>2, <4>3, <1>1, <1>2
    <3> QED
      BY <3>2, <1>5 DEF Range
  <2> QED
    BY <2>1, <2>2
<1>7. ASSUME ListBounded, NEW i \in 1 .. n, NEW j \in 1 .. n, m[i] = m[j] PROVE i = j
  <2>0. \A k, l \in 1 .. n : lru[k] = lru[l] => k = l
    BY <1>7, <1>1 DEF ListBounded
  <2> DEFINE from(k) == IF k = 1 THEN at ELSE IF k <= at THEN k - 1 ELSE k
  <2>1. \A k \in 1 .. n : from(k) \in 1 .. n /\ m[k] = lru[from(k)]
    BY <1>1, <1>2
  <2>2. from(i) = from(j)
    BY <2>0, <2>1, <1>7
  <2> QED
    BY <2>2, <1>1, <1>2
<1> QED
  BY <1>3, <1>5, <1>6, <1>7 DEF n

\* PushFront adds one that was not there.
LEMMA PushFrontFacts ==
    ASSUME ListOK, NEW p \in Problems \ Range(lru)
    PROVE  /\ PushFront(p) \in Seq(Problems)
           /\ Len(PushFront(p)) = Len(lru) + 1
           /\ Range(PushFront(p)) = Range(lru) \cup {p}
           /\ PushFront(p)[1] = p
           /\ ListBounded => \A i, j \in DOMAIN PushFront(p) :
                                PushFront(p)[i] = PushFront(p)[j] => i = j
<1> DEFINE n == Len(lru)
           m == PushFront(p)
<1>1. n \in Nat /\ DOMAIN lru = 1 .. n /\ \A i \in 1 .. n : lru[i] \in Problems
  BY DEF ListOK
<1>2. m \in Seq(Problems) /\ Len(m) = n + 1 /\ DOMAIN m = 1 .. n + 1
  BY DEF ListOK, PushFront
<1>3. m[1] = p /\ \A i \in 2 .. n + 1 : m[i] = lru[i - 1]
  BY <1>1 DEF ListOK, PushFront
<1> HIDE DEF n, m
<1>4. Range(m) = Range(lru) \cup {p}
  <2>1. ASSUME NEW q \in Range(m) PROVE q \in Range(lru) \cup {p}
    <3>1. PICK i \in 1 .. n + 1 : q = m[i]
      BY <1>2 DEF Range
    <3>2. i = 1 \/ (i \in 2 .. n + 1 /\ i - 1 \in 1 .. n)
      BY <1>1
    <3> QED
      BY <3>1, <3>2, <1>1, <1>3 DEF Range
  <2>2. ASSUME NEW q \in Range(lru) PROVE q \in Range(m)
    <3>1. PICK j \in 1 .. n : q = lru[j]
      BY <1>1 DEF Range
    <3>2. j + 1 \in 2 .. n + 1 /\ j + 1 \in 1 .. n + 1 /\ (j + 1) - 1 = j
      BY <1>1
    <3>3. m[j + 1] = q
      BY <3>1, <3>2, <1>3
    <3> QED
      BY <3>2, <3>3, <1>2 DEF Range
  <2>3. p \in Range(m)
    BY <1>1, <1>2, <1>3 DEF Range
  <2> QED
    BY <2>1, <2>2, <2>3
<1>5. ASSUME ListBounded, NEW i \in 1 .. n + 1, NEW j \in 1 .. n + 1, m[i] = m[j] PROVE i = j
  <2>0. \A k, l \in 1 .. n : lru[k] = lru[l] => k = l
    BY <1>5, <1>1 DEF ListBounded
  <2>1. \A k \in 1 .. n + 1 : k # 1 => k \in 2 .. n + 1 /\ k - 1 \in 1 .. n
    BY <1>1
  <2>2. \A k \in 1 .. n : lru[k] # p
    BY <1>1 DEF Range
  <2>3. CASE i = 1 /\ j = 1
    BY <2>3
  <2>4. CASE i = 1 /\ j # 1
    BY <2>4, <2>1, <2>2, <1>3, <1>5
  <2>5. CASE i # 1 /\ j = 1
    BY <2>5, <2>1, <2>2, <1>3, <1>5
  <2>6. CASE i # 1 /\ j # 1
    <3>1. lru[i - 1] = lru[j - 1]
      BY <2>6, <2>1, <1>3, <1>5
    <3>2. i - 1 = j - 1
      BY <3>1, <2>6, <2>0, <2>1
    <3> QED
      BY <3>2, <1>1
  <2> QED
    BY <2>3, <2>4, <2>5, <2>6
<1> QED
  BY <1>2, <1>3, <1>4, <1>5 DEF n, m

\* evictIfNeeded keeps the front of the list and hands the rest to goroutines.
LEMMA EvictFacts ==
    ASSUME RemoversOK, HistoryOK, NEW list \in Seq(Problems), evictIfNeeded(list)
    PROVE  /\ lru' \in Seq(Problems) /\ Len(lru') <= MaxEntries
           /\ (\A i, j \in DOMAIN list : list[i] = list[j] => i = j)
                 => \A i, j \in DOMAIN lru' : lru'[i] = lru'[j] => i = j
           /\ Range(lru') \subseteq Range(list)
           /\ RemoversOK'
           /\ tainted \subseteq tainted' /\ tainted' \subseteq Problems
           /\ \A q \in Problems :
                 /\ removers'[q].working = removers[q].working
                 /\ removers[q].waiting > 0 => removers'[q].waiting > 0
                 /\ removers'[q].waiting > 0 => removers[q].waiting > 0 \/ q \in tainted'
                 /\ q \in Range(list) => q \in Range(lru') \/ removers'[q].waiting > 0
           /\ list # <<>> => list[1] \in Range(lru')
<1> DEFINE n == Len(list)
           k == IF n < MaxEntries THEN n ELSE MaxEntries
           out == {list[i] : i \in {j \in DOMAIN list : j > MaxEntries}}
<1>0. MaxEntries \in Nat \ {0}
  BY CacheAssumption
<1>1. n \in Nat /\ DOMAIN list = 1 .. n /\ \A i \in 1 .. n : list[i] \in Problems
  OBVIOUS
<1>2. /\ lru' = SubSeq(list, 1, k)
      /\ removers' = [q \in Problems |->
                         IF q \in out THEN [removers[q] EXCEPT !.waiting = @ + 1]
                         ELSE removers[q]]
      /\ tainted' = tainted \cup out
  BY DEF evictIfNeeded
<1>3. /\ k \in 0 .. n /\ k <= MaxEntries /\ (n > 0 => k >= 1)
      /\ \A i \in 1 .. n : i <= k \/ i > MaxEntries
  BY <1>0, <1>1
<1>4. out \subseteq Problems /\ \A i \in 1 .. n : i > MaxEntries => list[i] \in out
  BY <1>1
<1> HIDE DEF n, k, out
<1>5. /\ lru' \in Seq(Problems) /\ Len(lru') = k /\ DOMAIN lru' = 1 .. k
      /\ \A i \in 1 .. k : lru'[i] = list[i]
  <2>1. SubSeq(list, 1, k) \in Seq(Problems) /\ Len(SubSeq(list, 1, k)) = k
    BY <1>1, <1>3 DEF n
  <2>2. \A i \in 1 .. k : SubSeq(list, 1, k)[i] = list[i]
    BY <1>1, <1>3 DEF n
  <2> QED
    BY <1>2, <2>1, <2>2
<1>6. \A q \in Problems :
         /\ removers'[q] \in [waiting : Nat, working : Nat]
         /\ removers'[q].working = removers[q].working
         /\ q \notin out => removers'[q].waiting = removers[q].waiting
         /\ q \in out => removers'[q].waiting = removers[q].waiting + 1
         /\ removers[q].waiting \in Nat
  <2> SUFFICES ASSUME NEW q \in Problems
               PROVE  /\ removers'[q] \in [waiting : Nat, working : Nat]
                      /\ removers'[q].working = removers[q].working
                      /\ q \notin out => removers'[q].waiting = removers[q].waiting
                      /\ q \in out => removers'[q].waiting = removers[q].waiting + 1
                      /\ removers[q].waiting \in Nat
    OBVIOUS
  <2>1. removers[q] \in [waiting : Nat, working : Nat]
    BY DEF RemoversOK
  <2>2. CASE q \in out
    <3>1. removers'[q] = [removers[q] EXCEPT !.waiting = removers[q].waiting + 1]
      BY <1>2, <2>2
    <3> QED
      BY <3>1, <2>1, <2>2
  <2>3. CASE q \notin out
    <3>1. removers'[q] = removers[q]
      BY <1>2, <2>3
    <3> QED
      BY <3>1, <2>1, <2>3
  <2> QED
    BY <2>2, <2>3
<1>7. RemoversOK'
  BY <1>2, <1>6 DEF RemoversOK
<1>8. Range(lru') \subseteq Range(list)
  <2>1. \A i \in 1 .. k : i \in 1 .. n
    BY <1>1, <1>3
  <2> QED
    BY <2>1, <1>1, <1>5 DEF Range
<1>9. ASSUME \A i, j \in DOMAIN list : list[i] = list[j] => i = j
      PROVE  \A i, j \in DOMAIN lru' : lru'[i] = lru'[j] => i = j
  <2>1. \A i \in 1 .. k : i \in 1 .. n
    BY <1>1, <1>3
  <2> QED
    BY <2>1, <1>1, <1>5, <1>9
<1>10. ASSUME NEW q \in Range(list) PROVE q \in Range(lru') \/ q \in out
  <2>1. PICK i \in 1 .. n : q = list[i]
    BY <1>1 DEF Range
  <2>2. CASE i > MaxEntries
    BY <2>1, <2>2, <1>4
  <2>3. CASE i <= k
    <3>1. i \in 1 .. k
      BY <2>3, <1>1, <1>3
    <3> QED
      BY <3>1, <2>1, <1>5 DEF Range
  <2> QED
    BY <2>2, <2>3, <1>3
<1>11. \A q \in Problems :
         /\ removers[q].waiting > 0 => removers'[q].waiting > 0
         /\ removers'[q].waiting > 0 => removers[q].waiting > 0 \/ q \in out
         /\ q \in out => removers'[q].waiting > 0
  BY <1>6
<1>12. ASSUME list # <<>> PROVE list[1] \in Range(lru')
  <2>1. n > 0
    BY <1>12 DEF n
  <2>2. 1 \in 1 .. k
    BY <2>1, <1>1, <1>3
  <2> QED
    BY <2>2, <1>5 DEF Range
<1>13. tainted \subseteq tainted' /\ tainted' \subseteq Problems /\ out \subseteq tainted'
  BY <1>2, <1>4 DEF HistoryOK
<1>14. Len(lru') <= MaxEntries
  BY <1>3, <1>5
<1>15. \A q \in Problems :
         /\ removers'[q].waiting > 0 => removers[q].waiting > 0 \/ q \in tainted'
         /\ q \in Range(list) => q \in Range(lru') \/ removers'[q].waiting > 0
  BY <1>10, <1>11, <1>13
<1>16. lru' \in Seq(Problems)
  BY <1>5
<1>17. \A q \in Problems : /\ removers'[q].working = removers[q].working
                           /\ removers[q].waiting > 0 => removers'[q].waiting > 0
  BY <1>6, <1>11
<1> QED
  BY <1>7, <1>8, <1>9, <1>12, <1>13, <1>14, <1>15, <1>16, <1>17

\* Prune lists every directory it can read, each once.
LEMMA FoundFacts ==
    ASSUME NEW found \in SUBSET Problems, NEW list \in SetToSeqs(found)
    PROVE  /\ list \in Seq(Problems)
           /\ \A i, j \in DOMAIN list : list[i] = list[j] => i = j
           /\ Range(list) = found
<1> DEFINE n == Cardinality(found)
<1>1. IsFiniteSet(found) /\ n \in Nat
  BY CacheAssumption, FS_Subset, FS_CardinalityType
<1>2. list \in [1 .. n -> found] /\ \A i, j \in 1 .. n : i # j => list[i] # list[j]
  BY DEF SetToSeqs
<1>3. IsFiniteSet(1 .. n) /\ Cardinality(1 .. n) = n
  BY <1>1, FS_Interval
<1> HIDE DEF n
<1>4. list \in Injection(1 .. n, found)
  BY <1>2 DEF Injection, IsInjective
<1>5. list \in Surjection(1 .. n, found)
  BY <1>1, <1>3, <1>4, FS_Injection DEF n
<1>6. Range(list) = found
  BY <1>2, <1>5 DEF Range, Surjection
<1>7. list \in Seq(Problems) /\ DOMAIN list = 1 .. n
  BY <1>1, <1>2
<1> QED
  BY <1>2, <1>6, <1>7

\* promoteEntry: what it does to the index.
LEMMA PromoteFacts ==
    ASSUME StoreOK, EntriesOK, ListOK, RemoversOK, HistoryOK, NEW p \in Problems, promoteEntry(p)
    PROVE  /\ ListOK' /\ RemoversOK'
           /\ ListBounded => ListBounded'
           /\ tainted \subseteq tainted' /\ tainted' \subseteq Problems
           /\ EntriesOK' /\ entry'[p].etag = disk[p].etag /\ entry'[p].recent
           /\ \A q \in Problems \ {p} : entry'[q] = entry[q]
           /\ p \in Range(lru')
           /\ \A q \in Problems :
                 /\ removers'[q].working = removers[q].working
                 /\ removers[q].waiting > 0 => removers'[q].waiting > 0
                 /\ removers'[q].waiting > 0 => removers[q].waiting > 0 \/ q \in tainted'
                 /\ q \in Range(lru) => q \in Range(lru') \/ removers'[q].waiting > 0
                 /\ q \in Range(lru') => q \in Range(lru) \/ q = p
<1>1. EntriesOK' /\ entry'[p].etag = disk[p].etag /\ entry'[p].recent
      /\ \A q \in Problems \ {p} : entry'[q] = entry[q]
  <2> DEFINE e == [etag |-> disk[p].etag, recent |-> TRUE]
  <2>1. e \in [etag : Versions, recent : BOOLEAN] /\ e.etag = disk[p].etag /\ e.recent
    BY VersionFacts DEF StoreOK
  <2>2. entry' = [entry EXCEPT ![p] = e]
    BY DEF promoteEntry
  <2> HIDE DEF e
  <2>3. entry'[p] = e /\ \A q \in Problems \ {p} : entry'[q] = entry[q]
    BY <2>2 DEF EntriesOK
  <2>4. EntriesOK'
    BY <2>1, <2>2 DEF EntriesOK
  <2> QED
    BY <2>1, <2>3, <2>4
<1>2. CASE p \in Range(lru)
  <2>1. lru' = MoveToFront(p) /\ UNCHANGED <<removers, tainted>>
    BY <1>2 DEF promoteEntry
  <2>2. ListOK' /\ Range(lru') = Range(lru) /\ (ListBounded => ListBounded')
    BY <2>1, <1>2, MoveToFrontFacts DEF ListOK, ListBounded
  <2> QED
    BY <2>1, <2>2, <1>1, <1>2 DEF RemoversOK, HistoryOK
<1>3. CASE p \notin Range(lru)
  <2>1. evictIfNeeded(PushFront(p))
    BY <1>3 DEF promoteEntry
  <2> DEFINE list == PushFront(p)
  <2>2. /\ list \in Seq(Problems) /\ Range(list) = Range(lru) \cup {p} /\ list[1] = p
        /\ list # <<>>
        /\ ListBounded => \A i, j \in DOMAIN list : list[i] = list[j] => i = j
    <3>1. Len(lru) \in Nat
      BY DEF ListOK
    <3> QED
      BY <1>3, <3>1, PushFrontFacts
  <2> HIDE DEF list
  <2>3. /\ lru' \in Seq(Problems) /\ Len(lru') <= MaxEntries
        /\ (\A i, j \in DOMAIN list : list[i] = list[j] => i = j)
              => \A i, j \in DOMAIN lru' : lru'[i] = lru'[j] => i = j
        /\ Range(lru') \subseteq Range(list)
        /\ RemoversOK'
        /\ tainted \subseteq tainted' /\ tainted' \subseteq Problems
        /\ \A q \in Problems :
              /\ removers'[q].working = removers[q].working
              /\ removers[q].waiting > 0 => removers'[q].waiting > 0
              /\ removers'[q].waiting > 0 => removers[q].waiting > 0 \/ q \in tainted'
              /\ q \in Range(list) => q \in Range(lru') \/ removers'[q].waiting > 0
        /\ list # <<>> => list[1] \in Range(lru')
    BY <2>1, <2>2, EvictFacts DEF list
  <2>4. ListOK' /\ (ListBounded => ListBounded')
    BY <2>2, <2>3 DEF ListOK, ListBounded
  <2> QED
    BY <2>2, <2>3, <2>4, <1>1
<1> QED
  BY <1>2, <1>3

\* RemoveAll at work: the directory is no longer whole, its .etag may be gone.
LEMMA TornFacts ==
    ASSUME StoreOK, NEW p \in Problems, NEW e \in {0, disk[p].etag},
           disk' = [disk EXCEPT ![p].whole = FALSE, ![p].etag = e]
    PROVE  /\ disk' \in [Problems -> Dir]
           /\ ~disk'[p].whole /\ disk'[p].etag = e /\ disk'[p].files = disk[p].files
           /\ disk[p] = NoDir => disk'[p] = NoDir
           /\ \A q \in Problems \ {p} : disk'[q] = disk[q]
<1> DEFINE d == [[disk[p] EXCEPT !.whole = FALSE] EXCEPT !.etag = e]
<1>1. disk[p] \in Dir
  BY DEF StoreOK
<1>2. d \in Dir /\ d.whole = FALSE /\ d.etag = e /\ d.files = disk[p].files
  BY <1>1, VersionFacts DEF Dir
<1>3. disk[p] = NoDir => d = NoDir
  BY VersionFacts DEF NoDir
<1>4. disk' = [disk EXCEPT ![p] = d]
  BY DEF StoreOK
<1> HIDE DEF d
<1> QED
  BY <1>2, <1>3, <1>4 DEF StoreOK

\* Directories and zips keep their types.
LEMMA StoreStep ==
    TInv /\ [Next]_vars => StoreOK'
<1> SUFFICES ASSUME TInv, [Next]_vars PROVE StoreOK'
  OBVIOUS
<1>0. /\ StoreOK /\ CallsOK /\ JobsOK
      /\ Versions \subseteq Nat /\ NoDir \in Dir
  BY VersionFacts DEF TInv
<1>1. ASSUME NEW w \in Workers, NEW p \in Problems, EnsureTestcases(w, p) PROVE StoreOK'
  BY <1>1, <1>0 DEF EnsureTestcases, FastPath, Join, Lead, storeVars, indexVars,
     callVars, history, StoreOK
<1>2. ASSUME NEW w \in Workers, Stat(w) PROVE StoreOK'
  BY <1>2, <1>0 DEF Stat, storeVars, indexVars, callVars, history, StoreOK
<1>3. ASSUME NEW w \in Workers, Compare(w) PROVE StoreOK'
  BY <1>3, <1>0 DEF Compare, storeVars, indexVars, callVars, history, StoreOK
<1>4. ASSUME NEW w \in Workers, Download(w) PROVE StoreOK'
  BY <1>4, <1>0 DEF Download, storeVars, indexVars, callVars, history, StoreOK
<1>5. ASSUME NEW w \in Workers, Replace(w) PROVE StoreOK'
  <2>0. job[w] \in Problems
    BY <1>5, <1>0 DEF Replace, JobsOK
  <2>1. PICK e \in {0, disk[job[w]].etag} :
           disk' = [disk EXCEPT ![job[w]].whole = FALSE, ![job[w]].etag = e]
    BY <1>5 DEF Replace
  <2>2. disk' \in [Problems -> Dir]
    BY <2>0, <2>1, <1>0, TornFacts
  <2> QED
    BY <2>2, <1>5, <1>0 DEF Replace, StoreOK
<1>6. ASSUME NEW w \in Workers, Rename(w) PROVE StoreOK'
  <2>1. staged[w] \in Dir
    BY <1>0 DEF CallsOK
  <2> QED
    BY <2>1, <1>6, <1>0 DEF Rename, Fault, StoreOK
<1>7. ASSUME NEW w \in Workers, Finish(w) PROVE StoreOK'
  BY <1>7, <1>0 DEF Finish, storeVars, indexVars, callVars, history, StoreOK
<1>8. ASSUME NEW w \in Workers, Close(w) PROVE StoreOK'
  BY <1>8, <1>0 DEF Close, storeVars, indexVars, callVars, history, StoreOK
<1>9. ASSUME NEW w \in Workers, Release(w) PROVE StoreOK'
  BY <1>9, <1>0 DEF Release, storeVars, indexVars, callVars, history, StoreOK
<1>10. ASSUME NEW p \in Problems, RemoveBegins(p) PROVE StoreOK'
  <2>1. CASE disk[p] = NoDir
    BY <2>1, <1>10, <1>0 DEF RemoveBegins, StoreOK
  <2>2. CASE disk[p] # NoDir
    <3>1. PICK e \in {0, disk[p].etag} :
             disk' = [disk EXCEPT ![p].whole = FALSE, ![p].etag = e]
      BY <1>10, <2>2 DEF RemoveBegins
    <3>2. disk' \in [Problems -> Dir]
      BY <3>1, <1>0, TornFacts
    <3> QED
      BY <3>2, <1>10, <1>0 DEF RemoveBegins, StoreOK
  <2> QED
    BY <2>1, <2>2
<1>11. ASSUME NEW p \in Problems, RemoveEnds(p) PROVE StoreOK'
  BY <1>11, <1>0 DEF RemoveEnds, storeVars, indexVars, callVars, history, StoreOK, Fault
<1>12. ASSUME NEW p \in Problems, Upload(p) PROVE StoreOK'
  <2>1. remote[p] \in Versions /\ remote[p] < MaxUploads
    BY <1>12, <1>0 DEF Upload, StoreOK
  <2>2. remote[p] + 1 \in Versions
    BY <2>1, CacheAssumption DEF Versions
  <2> QED
    BY <2>2, <1>12, <1>0 DEF Upload, StoreOK
<1>13. ASSUME NEW p \in Problems, Expire(p) PROVE StoreOK'
  BY <1>13, <1>0 DEF Expire, storeVars, indexVars, callVars, history, StoreOK
<1>14. CASE Crash
  BY <1>14, <1>0 DEF Crash, storeVars, indexVars, callVars, history, StoreOK
<1>15. CASE Prune
  BY <1>15, <1>0 DEF Prune, storeVars, indexVars, callVars, history, StoreOK
<1>16. CASE UNCHANGED vars
  BY <1>16, <1>0 DEF vars, storeVars, indexVars, callVars, history, StoreOK
<1> QED
  BY <1>1, <1>2, <1>3, <1>4, <1>5, <1>6, <1>7, <1>8, <1>9, <1>10, <1>11, <1>12, <1>13,
     <1>14, <1>15, <1>16 DEF Next, Refresh

\* The list is a list of problems, the goroutines are counted.
LEMMA ListsStep ==
    TInv /\ [Next]_vars => (ListOK /\ RemoversOK)'
<1> SUFFICES ASSUME TInv, [Next]_vars PROVE (ListOK /\ RemoversOK)'
  OBVIOUS
<1>0. ListOK /\ RemoversOK
  BY DEF TInv
<1>1. ASSUME NEW w \in Workers, NEW p \in Problems, EnsureTestcases(w, p) PROVE (ListOK /\ RemoversOK)'
  <2>1. UNCHANGED removers /\ (UNCHANGED lru \/ (p \in Range(lru) /\ lru' = MoveToFront(p)))
    BY <1>1 DEF EnsureTestcases, FastPath, Join, Lead, indexVars
  <2> QED
    BY <2>1, <1>0, MoveToFrontFacts DEF ListOK, RemoversOK
<1>2. ASSUME NEW w \in Workers, Stat(w) PROVE (ListOK /\ RemoversOK)'
  BY <1>2, <1>0 DEF Stat, storeVars, indexVars, callVars, history, ListOK, RemoversOK
<1>3. ASSUME NEW w \in Workers, Compare(w) PROVE (ListOK /\ RemoversOK)'
  <2>1. /\ UNCHANGED removers
        /\ UNCHANGED lru \/ (job[w] \in Range(lru) /\ lru' = MoveToFront(job[w]))
    BY <1>3 DEF Compare
  <2> QED
    BY <2>1, <1>0, MoveToFrontFacts DEF ListOK, RemoversOK
<1>4. ASSUME NEW w \in Workers, Download(w) PROVE (ListOK /\ RemoversOK)'
  BY <1>4, <1>0 DEF Download, storeVars, indexVars, callVars, history, ListOK,
     RemoversOK
<1>5. ASSUME NEW w \in Workers, Replace(w) PROVE (ListOK /\ RemoversOK)'
  BY <1>5, <1>0 DEF Replace, storeVars, indexVars, callVars, history, ListOK, RemoversOK
<1>6. ASSUME NEW w \in Workers, Rename(w) PROVE (ListOK /\ RemoversOK)'
  BY <1>6, <1>0 DEF Rename, storeVars, indexVars, callVars, history, ListOK, RemoversOK
<1>7. ASSUME NEW w \in Workers, Finish(w) PROVE (ListOK /\ RemoversOK)'
  <2>1. job[w] \in Problems
    BY <1>7 DEF Finish, TInv, JobsOK
  <2>2. CASE failed[w]
    BY <2>2, <1>7, <1>0 DEF Finish, ListOK, RemoversOK
  <2>3. CASE ~failed[w]
    BY <2>1, <2>3, <1>7, PromoteFacts DEF Finish, TInv
  <2> QED
    BY <2>2, <2>3
<1>8. ASSUME NEW w \in Workers, Close(w) PROVE (ListOK /\ RemoversOK)'
  BY <1>8, <1>0 DEF Close, storeVars, indexVars, callVars, history, ListOK, RemoversOK
<1>9. ASSUME NEW w \in Workers, Release(w) PROVE (ListOK /\ RemoversOK)'
  BY <1>9, <1>0 DEF Release, storeVars, indexVars, callVars, history, ListOK, RemoversOK
<1>10. ASSUME NEW p \in Problems, RemoveBegins(p) PROVE (ListOK /\ RemoversOK)'
  <2> DEFINE r == [waiting |-> removers[p].waiting - 1, working |-> removers[p].working + 1]
             r2 == [removers[p] EXCEPT !.waiting = removers[p].waiting - 1]
  <2>1. removers[p] \in [waiting : Nat, working : Nat] /\ removers[p].waiting > 0
    BY <1>10, <1>0 DEF RemoveBegins, RemoversOK
  <2>2. r \in [waiting : Nat, working : Nat] /\ r2 \in [waiting : Nat, working : Nat]
    BY <2>1
  <2>3. removers' = [removers EXCEPT ![p] = r] \/ removers' = [removers EXCEPT ![p] = r2]
    BY <1>10 DEF RemoveBegins
  <2> HIDE DEF r, r2
  <2>4. RemoversOK'
    BY <2>2, <2>3, <1>0 DEF RemoversOK
  <2> QED
    BY <2>4, <1>10, <1>0 DEF RemoveBegins, indexVars, ListOK
<1>11. ASSUME NEW p \in Problems, RemoveEnds(p) PROVE (ListOK /\ RemoversOK)'
  <2> DEFINE r == [removers[p] EXCEPT !.working = removers[p].working - 1]
  <2>1. removers[p] \in [waiting : Nat, working : Nat] /\ removers[p].working > 0
    BY <1>11, <1>0 DEF RemoveEnds, RemoversOK
  <2>2. r \in [waiting : Nat, working : Nat]
    BY <2>1
  <2>3. removers' = [removers EXCEPT ![p] = r]
    BY <1>11 DEF RemoveEnds
  <2> HIDE DEF r
  <2>4. RemoversOK'
    BY <2>2, <2>3, <1>0 DEF RemoversOK
  <2> QED
    BY <2>4, <1>11, <1>0 DEF RemoveEnds, indexVars, ListOK
<1>12. ASSUME NEW p \in Problems, Upload(p) PROVE (ListOK /\ RemoversOK)'
  BY <1>12, <1>0 DEF Upload, storeVars, indexVars, callVars, history, ListOK, RemoversOK
<1>13. ASSUME NEW p \in Problems, Expire(p) PROVE (ListOK /\ RemoversOK)'
  BY <1>13, <1>0 DEF Expire, storeVars, indexVars, callVars, history, ListOK, RemoversOK
<1>14. CASE Crash
  BY <1>14, <1>0 DEF Crash, storeVars, indexVars, callVars, history, ListOK, RemoversOK,
     Idle
<1>15. CASE Prune
  <2>0. PICK found \in SUBSET OnDisk :
           /\ \E list \in SetToSeqs(found) : evictIfNeeded(list)
           /\ leaked' = OnDisk \ found
    BY <1>15 DEF Prune
  <2>1. PICK list \in SetToSeqs(found) : evictIfNeeded(list)
    BY <2>0
  <2>2. list \in Seq(Problems)
    BY FoundFacts DEF OnDisk
  <2> QED
    BY <2>1, <2>2, EvictFacts DEF TInv, ListOK
<1>16. CASE UNCHANGED vars
  BY <1>16, <1>0 DEF vars, storeVars, indexVars, callVars, history, ListOK, RemoversOK
<1> QED
  BY <1>1, <1>2, <1>3, <1>4, <1>5, <1>6, <1>7, <1>8, <1>9, <1>10, <1>11, <1>12, <1>13,
     <1>14, <1>15, <1>16 DEF Next, Refresh

\* Entries keep their type.
LEMMA EntriesStep ==
    TInv /\ [Next]_vars => EntriesOK'
<1> SUFFICES ASSUME TInv, [Next]_vars PROVE EntriesOK'
  OBVIOUS
<1>0. EntriesOK /\ 0 \in Versions
  BY VersionFacts DEF TInv
<1>1. ASSUME NEW w \in Workers, NEW p \in Problems, EnsureTestcases(w, p) PROVE EntriesOK'
  BY <1>1, <1>0 DEF EnsureTestcases, FastPath, Join, Lead, storeVars, indexVars,
     callVars, history, EntriesOK
<1>2. ASSUME NEW w \in Workers, Stat(w) PROVE EntriesOK'
  BY <1>2, <1>0 DEF Stat, storeVars, indexVars, callVars, history, EntriesOK
<1>3. ASSUME NEW w \in Workers, Compare(w) PROVE EntriesOK'
  <2> DEFINE e == [entry[job[w]] EXCEPT !.recent = TRUE]
  <2>1. UNCHANGED entry \/ entry' = [entry EXCEPT ![job[w]] = e]
    BY <1>3 DEF Compare
  <2>2. entry[job[w]] \in [etag : Versions, recent : BOOLEAN]
    BY <1>3, <1>0 DEF Compare, TInv, JobsOK, EntriesOK
  <2>3. e \in [etag : Versions, recent : BOOLEAN]
    BY <2>2
  <2> HIDE DEF e
  <2> QED
    BY <2>1, <2>3, <1>0 DEF EntriesOK
<1>4. ASSUME NEW w \in Workers, Download(w) PROVE EntriesOK'
  BY <1>4, <1>0 DEF Download, storeVars, indexVars, callVars, history, EntriesOK
<1>5. ASSUME NEW w \in Workers, Replace(w) PROVE EntriesOK'
  BY <1>5, <1>0 DEF Replace, storeVars, indexVars, callVars, history, EntriesOK
<1>6. ASSUME NEW w \in Workers, Rename(w) PROVE EntriesOK'
  BY <1>6, <1>0 DEF Rename, storeVars, indexVars, callVars, history, EntriesOK
<1>7. ASSUME NEW w \in Workers, Finish(w) PROVE EntriesOK'
  <2>1. job[w] \in Problems
    BY <1>7 DEF Finish, TInv, JobsOK
  <2>2. CASE failed[w]
    BY <2>2, <1>7, <1>0 DEF Finish, EntriesOK
  <2>3. CASE ~failed[w]
    BY <2>1, <2>3, <1>7, PromoteFacts DEF Finish, TInv
  <2> QED
    BY <2>2, <2>3
<1>8. ASSUME NEW w \in Workers, Close(w) PROVE EntriesOK'
  BY <1>8, <1>0 DEF Close, storeVars, indexVars, callVars, history, EntriesOK
<1>9. ASSUME NEW w \in Workers, Release(w) PROVE EntriesOK'
  BY <1>9, <1>0 DEF Release, storeVars, indexVars, callVars, history, EntriesOK
<1>10. ASSUME NEW p \in Problems, RemoveBegins(p) PROVE EntriesOK'
  BY <1>10, <1>0 DEF RemoveBegins, storeVars, indexVars, callVars, history, EntriesOK
<1>11. ASSUME NEW p \in Problems, RemoveEnds(p) PROVE EntriesOK'
  BY <1>11, <1>0 DEF RemoveEnds, storeVars, indexVars, callVars, history, EntriesOK
<1>12. ASSUME NEW p \in Problems, Upload(p) PROVE EntriesOK'
  BY <1>12, <1>0 DEF Upload, storeVars, indexVars, callVars, history, EntriesOK
<1>13. ASSUME NEW p \in Problems, Expire(p) PROVE EntriesOK'
  <2> DEFINE e == [entry[p] EXCEPT !.recent = FALSE]
  <2>1. entry' = [entry EXCEPT ![p] = e]
    BY <1>13 DEF Expire
  <2>2. entry[p] \in [etag : Versions, recent : BOOLEAN]
    BY <1>0 DEF EntriesOK
  <2>3. e \in [etag : Versions, recent : BOOLEAN]
    BY <2>2
  <2> HIDE DEF e
  <2> QED
    BY <2>1, <2>3, <1>0 DEF EntriesOK
<1>14. CASE Crash
  BY <1>14, <1>0 DEF Crash, storeVars, indexVars, callVars, history, EntriesOK
<1>15. CASE Prune
  <2> DEFINE e(q) == [etag |-> disk[q].etag, recent |-> FALSE]
  <2>1. entry' = [q \in Problems |-> e(q)]
    BY <1>15 DEF Prune
  <2>2. \A q \in Problems : e(q) \in [etag : Versions, recent : BOOLEAN]
    BY VersionFacts DEF TInv, StoreOK
  <2> HIDE DEF e
  <2> QED
    BY <2>1, <2>2 DEF EntriesOK
<1>16. CASE UNCHANGED vars
  BY <1>16, <1>0 DEF vars, storeVars, indexVars, callVars, history, EntriesOK
<1> QED
  BY <1>1, <1>2, <1>3, <1>4, <1>5, <1>6, <1>7, <1>8, <1>9, <1>10, <1>11, <1>12, <1>13,
     <1>14, <1>15, <1>16 DEF Next, Refresh

\* A slot names a worker or nobody.
LEMMA SlotsStep ==
    TInv /\ [Next]_vars => SlotsOK'
<1> SUFFICES ASSUME TInv, [Next]_vars PROVE SlotsOK'
  OBVIOUS
<1>0. SlotsOK
  BY DEF TInv
<1>1. ASSUME NEW w \in Workers, NEW p \in Problems, EnsureTestcases(w, p) PROVE SlotsOK'
  BY <1>1, <1>0 DEF EnsureTestcases, FastPath, Join, Lead, storeVars, indexVars,
     callVars, history, SlotsOK
<1>2. ASSUME NEW w \in Workers, Stat(w) PROVE SlotsOK'
  BY <1>2, <1>0 DEF Stat, storeVars, indexVars, callVars, history, SlotsOK
<1>3. ASSUME NEW w \in Workers, Compare(w) PROVE SlotsOK'
  BY <1>3, <1>0 DEF Compare, storeVars, indexVars, callVars, history, SlotsOK
<1>4. ASSUME NEW w \in Workers, Download(w) PROVE SlotsOK'
  BY <1>4, <1>0 DEF Download, storeVars, indexVars, callVars, history, SlotsOK
<1>5. ASSUME NEW w \in Workers, Replace(w) PROVE SlotsOK'
  BY <1>5, <1>0 DEF Replace, storeVars, indexVars, callVars, history, SlotsOK
<1>6. ASSUME NEW w \in Workers, Rename(w) PROVE SlotsOK'
  BY <1>6, <1>0 DEF Rename, storeVars, indexVars, callVars, history, SlotsOK
<1>7. ASSUME NEW w \in Workers, Finish(w) PROVE SlotsOK'
  BY <1>7, <1>0 DEF Finish, storeVars, indexVars, callVars, history, SlotsOK
<1>8. ASSUME NEW w \in Workers, Close(w) PROVE SlotsOK'
  BY <1>8, <1>0 DEF Close, storeVars, indexVars, callVars, history, SlotsOK
<1>9. ASSUME NEW w \in Workers, Release(w) PROVE SlotsOK'
  BY <1>9, <1>0 DEF Release, storeVars, indexVars, callVars, history, SlotsOK
<1>10. ASSUME NEW p \in Problems, RemoveBegins(p) PROVE SlotsOK'
  BY <1>10, <1>0 DEF RemoveBegins, storeVars, indexVars, callVars, history, SlotsOK
<1>11. ASSUME NEW p \in Problems, RemoveEnds(p) PROVE SlotsOK'
  BY <1>11, <1>0 DEF RemoveEnds, storeVars, indexVars, callVars, history, SlotsOK
<1>12. ASSUME NEW p \in Problems, Upload(p) PROVE SlotsOK'
  BY <1>12, <1>0 DEF Upload, storeVars, indexVars, callVars, history, SlotsOK
<1>13. ASSUME NEW p \in Problems, Expire(p) PROVE SlotsOK'
  BY <1>13, <1>0 DEF Expire, storeVars, indexVars, callVars, history, SlotsOK
<1>14. CASE Crash
  BY <1>14, <1>0 DEF Crash, storeVars, indexVars, callVars, history, SlotsOK
<1>15. CASE Prune
  BY <1>15, <1>0 DEF Prune, storeVars, indexVars, callVars, history, SlotsOK
<1>16. CASE UNCHANGED vars
  BY <1>16, <1>0 DEF vars, storeVars, indexVars, callVars, history, SlotsOK
<1> QED
  BY <1>1, <1>2, <1>3, <1>4, <1>5, <1>6, <1>7, <1>8, <1>9, <1>10, <1>11, <1>12, <1>13,
     <1>14, <1>15, <1>16 DEF Next, Refresh

\* Calls keep their types.
LEMMA CallsStep ==
    TInv /\ [Next]_vars => CallsOK'
<1> SUFFICES ASSUME TInv, [Next]_vars PROVE CallsOK'
  OBVIOUS
<1>0. CallsOK /\ 0 \in Versions /\ NoDir \in Dir
  BY VersionFacts DEF TInv
<1>p. {"idle", "wait", "stat", "compare", "download", "replace", "rename", "finish", "close",
       "use"} \subseteq Places
  BY DEF Places
<1>1. ASSUME NEW w \in Workers, NEW p \in Problems, EnsureTestcases(w, p) PROVE CallsOK'
  <2>1. entry[p].etag \in Versions /\ slot[p] \in Workers \cup {NoWorker}
    BY DEF TInv, EntriesOK, SlotsOK
  <2> QED
    BY <2>1, <1>1, <1>0, <1>p DEF EnsureTestcases, FastPath, Join, Lead, Goto, CallsOK
<1>2. ASSUME NEW w \in Workers, Stat(w) PROVE CallsOK'
  <2>1. remote[job[w]] \in Versions
    BY <1>2 DEF Stat, TInv, JobsOK, StoreOK
  <2> QED
    BY <2>1, <1>2, <1>0, <1>p DEF Stat, Goto, CallsOK
<1>3. ASSUME NEW w \in Workers, Compare(w) PROVE CallsOK'
  BY <1>3, <1>0, <1>p DEF Compare, Goto, storeVars, indexVars, callVars, history,
     CallsOK
<1>4. ASSUME NEW w \in Workers, Download(w) PROVE CallsOK'
  <2> DEFINE d == [etag |-> seen[w], files |-> remote[job[w]], whole |-> TRUE]
  <2>1. remote[job[w]] \in Versions /\ seen[w] \in Versions
    BY <1>4 DEF Download, TInv, JobsOK, StoreOK, CallsOK
  <2>2. d \in Dir
    BY <2>1 DEF Dir
  <2>3. staged' = [staged EXCEPT ![w] = d] \/ UNCHANGED staged
    BY <1>4 DEF Download
  <2> HIDE DEF d
  <2>4. staged' \in [Workers -> Dir]
    BY <2>2, <2>3, <1>0 DEF CallsOK
  <2> QED
    BY <2>4, <1>4, <1>0, <1>p DEF Download, Goto, CallsOK
<1>5. ASSUME NEW w \in Workers, Replace(w) PROVE CallsOK'
  BY <1>5, <1>0, <1>p DEF Replace, Goto, storeVars, indexVars, callVars, history,
     CallsOK
<1>6. ASSUME NEW w \in Workers, Rename(w) PROVE CallsOK'
  BY <1>6, <1>0, <1>p DEF Rename, Goto, storeVars, indexVars, callVars, history, CallsOK
<1>7. ASSUME NEW w \in Workers, Finish(w) PROVE CallsOK'
  BY <1>7, <1>0, <1>p DEF Finish, Goto, storeVars, indexVars, callVars, history, CallsOK
<1>8. ASSUME NEW w \in Workers, Close(w) PROVE CallsOK'
  BY <1>8, <1>0, <1>p DEF Close, storeVars, indexVars, callVars, history, CallsOK
<1>9. ASSUME NEW w \in Workers, Release(w) PROVE CallsOK'
  BY <1>9, <1>0, <1>p DEF Release, Goto, storeVars, indexVars, callVars, history,
     CallsOK
<1>10. ASSUME NEW p \in Problems, RemoveBegins(p) PROVE CallsOK'
  BY <1>10, <1>0, <1>p DEF RemoveBegins, storeVars, indexVars, callVars, history,
     CallsOK
<1>11. ASSUME NEW p \in Problems, RemoveEnds(p) PROVE CallsOK'
  BY <1>11, <1>0, <1>p DEF RemoveEnds, storeVars, indexVars, callVars, history, CallsOK
<1>12. ASSUME NEW p \in Problems, Upload(p) PROVE CallsOK'
  BY <1>12, <1>0, <1>p DEF Upload, storeVars, indexVars, callVars, history, CallsOK
<1>13. ASSUME NEW p \in Problems, Expire(p) PROVE CallsOK'
  BY <1>13, <1>0, <1>p DEF Expire, storeVars, indexVars, callVars, history, CallsOK
<1>14. CASE Crash
  BY <1>14, <1>0, <1>p DEF Crash, storeVars, indexVars, callVars, history, CallsOK
<1>15. CASE Prune
  BY <1>15, <1>0, <1>p DEF Prune, storeVars, indexVars, callVars, history, CallsOK
<1>16. CASE UNCHANGED vars
  BY <1>16, <1>0, <1>p DEF vars, storeVars, indexVars, callVars, history, CallsOK
<1> QED
  BY <1>1, <1>2, <1>3, <1>4, <1>5, <1>6, <1>7, <1>8, <1>9, <1>10, <1>11, <1>12, <1>13,
     <1>14, <1>15, <1>16 DEF Next, Refresh

\* A call is for a problem, of a process that runs.
LEMMA JobsStep ==
    TInv /\ [Next]_vars => JobsOK'
<1> SUFFICES ASSUME TInv, [Next]_vars PROVE JobsOK'
  OBVIOUS
<1>0. CallsOK /\ JobsOK
  BY DEF TInv
<1>1a. \A w \in Workers : pc[w] \in Places
  BY <1>0 DEF CallsOK
<1>1. ASSUME NEW w \in Workers, NEW p \in Problems, EnsureTestcases(w, p) PROVE JobsOK'
  BY <1>1, <1>0 DEF EnsureTestcases, FastPath, Join, Lead, Goto, storeVars, indexVars,
     callVars, history, JobsOK, CallsOK
<1>2. ASSUME NEW w \in Workers, Stat(w) PROVE JobsOK'
  BY <1>2, <1>0 DEF Stat, Goto, storeVars, indexVars, callVars, history, JobsOK, CallsOK
<1>3. ASSUME NEW w \in Workers, Compare(w) PROVE JobsOK'
  BY <1>3, <1>0 DEF Compare, Goto, storeVars, indexVars, callVars, history, JobsOK,
     CallsOK
<1>4. ASSUME NEW w \in Workers, Download(w) PROVE JobsOK'
  BY <1>4, <1>0 DEF Download, Goto, storeVars, indexVars, callVars, history, JobsOK,
     CallsOK
<1>5. ASSUME NEW w \in Workers, Replace(w) PROVE JobsOK'
  BY <1>5, <1>0 DEF Replace, Goto, storeVars, indexVars, callVars, history, JobsOK,
     CallsOK
<1>6. ASSUME NEW w \in Workers, Rename(w) PROVE JobsOK'
  BY <1>6, <1>0 DEF Rename, Goto, storeVars, indexVars, callVars, history, JobsOK,
     CallsOK
<1>7. ASSUME NEW w \in Workers, Finish(w) PROVE JobsOK'
  BY <1>7, <1>0 DEF Finish, Goto, storeVars, indexVars, callVars, history, JobsOK,
     CallsOK
<1>8. ASSUME NEW w \in Workers, Close(w) PROVE JobsOK'
  <2> DEFINE out == {w} \cup {v \in Workers : pc[v] = "wait" /\ leader[v] = w}
  <2>1. \A v \in Workers :
           /\ pc'[v] = IF v \notin out THEN pc[v] ELSE IF failed[w] THEN "idle" ELSE "use"
           /\ job'[v] = IF failed[w] /\ v \in out THEN NoProblem ELSE job[v]
    BY <1>8 DEF Close
  <2>2. \A v \in out : pc[v] # "idle" /\ v \in Workers
    BY <1>8 DEF Close
  <2>3. up' = up
    BY <1>8 DEF Close
  <2> HIDE DEF out
  <2> QED
    BY <2>1, <2>2, <2>3, <1>0 DEF JobsOK
<1>9. ASSUME NEW w \in Workers, Release(w) PROVE JobsOK'
  BY <1>9, <1>0 DEF Release, Goto, storeVars, indexVars, callVars, history, JobsOK,
     CallsOK
<1>10. ASSUME NEW p \in Problems, RemoveBegins(p) PROVE JobsOK'
  BY <1>10, <1>0 DEF RemoveBegins, storeVars, indexVars, callVars, history, JobsOK
<1>11. ASSUME NEW p \in Problems, RemoveEnds(p) PROVE JobsOK'
  BY <1>11, <1>0 DEF RemoveEnds, storeVars, indexVars, callVars, history, JobsOK
<1>12. ASSUME NEW p \in Problems, Upload(p) PROVE JobsOK'
  BY <1>12, <1>0 DEF Upload, storeVars, indexVars, callVars, history, JobsOK
<1>13. ASSUME NEW p \in Problems, Expire(p) PROVE JobsOK'
  BY <1>13, <1>0 DEF Expire, storeVars, indexVars, callVars, history, JobsOK
<1>14. CASE Crash
  BY <1>14, <1>0 DEF Crash, storeVars, indexVars, callVars, history, JobsOK, CallsOK
<1>15. CASE Prune
  BY <1>15, <1>0 DEF Prune, storeVars, indexVars, callVars, history, JobsOK
<1>16. CASE UNCHANGED vars
  BY <1>16, <1>0 DEF vars, storeVars, indexVars, callVars, history, JobsOK
<1> QED
  BY <1>1, <1>2, <1>3, <1>4, <1>5, <1>6, <1>7, <1>8, <1>9, <1>10, <1>11, <1>12, <1>13,
     <1>14, <1>15, <1>16 DEF Next, Refresh

\* Only a call about to return has failed.
LEMMA FailedStep ==
    TInv /\ [Next]_vars => FailedOK'
<1> SUFFICES ASSUME TInv, [Next]_vars PROVE FailedOK'
  OBVIOUS
<1>0. FailedOK /\ CallsOK
  BY DEF TInv
<1>1. ASSUME NEW w \in Workers, NEW p \in Problems, EnsureTestcases(w, p) PROVE FailedOK'
  BY <1>1, <1>0 DEF EnsureTestcases, FastPath, Join, Lead, Goto, storeVars, indexVars,
     callVars, history, FailedOK, CallsOK
<1>2. ASSUME NEW w \in Workers, Stat(w) PROVE FailedOK'
  BY <1>2, <1>0 DEF Stat, Goto, storeVars, indexVars, callVars, history, FailedOK,
     CallsOK
<1>3. ASSUME NEW w \in Workers, Compare(w) PROVE FailedOK'
  BY <1>3, <1>0 DEF Compare, Goto, storeVars, indexVars, callVars, history, FailedOK,
     CallsOK
<1>4. ASSUME NEW w \in Workers, Download(w) PROVE FailedOK'
  BY <1>4, <1>0 DEF Download, Goto, storeVars, indexVars, callVars, history, FailedOK,
     CallsOK
<1>5. ASSUME NEW w \in Workers, Replace(w) PROVE FailedOK'
  BY <1>5, <1>0 DEF Replace, Goto, storeVars, indexVars, callVars, history, FailedOK,
     CallsOK
<1>6. ASSUME NEW w \in Workers, Rename(w) PROVE FailedOK'
  BY <1>6, <1>0 DEF Rename, Goto, storeVars, indexVars, callVars, history, FailedOK,
     CallsOK
<1>7. ASSUME NEW w \in Workers, Finish(w) PROVE FailedOK'
  BY <1>7, <1>0 DEF Finish, Goto, storeVars, indexVars, callVars, history, FailedOK,
     CallsOK
<1>8. ASSUME NEW w \in Workers, Close(w) PROVE FailedOK'
  <2> DEFINE out == {w} \cup {v \in Workers : pc[v] = "wait" /\ leader[v] = w}
  <2>1. \A v \in Workers \ out : pc'[v] = pc[v]
    BY <1>8 DEF Close
  <2>2. failed' = [failed EXCEPT ![w] = FALSE]
    BY <1>8 DEF Close
  <2>3. \A v \in out : v = w \/ pc[v] = "wait"
    OBVIOUS
  <2>4. w \in out
    OBVIOUS
  <2> HIDE DEF out
  <2>5. failed' \in [Workers -> BOOLEAN]
    BY <2>2, <1>0 DEF FailedOK
  <2>6. ASSUME NEW v \in Workers, failed'[v] PROVE pc'[v] \in {"finish", "close"}
    <3>1. v # w /\ failed[v]
      BY <2>2, <2>6, <1>0 DEF FailedOK
    <3>2. v \notin out
      BY <3>1, <2>3, <1>0 DEF FailedOK
    <3> QED
      BY <3>1, <3>2, <2>1, <1>0 DEF FailedOK
  <2> QED
    BY <2>5, <2>6 DEF FailedOK
<1>9. ASSUME NEW w \in Workers, Release(w) PROVE FailedOK'
  BY <1>9, <1>0 DEF Release, Goto, storeVars, indexVars, callVars, history, FailedOK,
     CallsOK
<1>10. ASSUME NEW p \in Problems, RemoveBegins(p) PROVE FailedOK'
  BY <1>10, <1>0 DEF RemoveBegins, storeVars, indexVars, callVars, history, FailedOK
<1>11. ASSUME NEW p \in Problems, RemoveEnds(p) PROVE FailedOK'
  BY <1>11, <1>0 DEF RemoveEnds, storeVars, indexVars, callVars, history, FailedOK
<1>12. ASSUME NEW p \in Problems, Upload(p) PROVE FailedOK'
  BY <1>12, <1>0 DEF Upload, storeVars, indexVars, callVars, history, FailedOK
<1>13. ASSUME NEW p \in Problems, Expire(p) PROVE FailedOK'
  BY <1>13, <1>0 DEF Expire, storeVars, indexVars, callVars, history, FailedOK
<1>14. CASE Crash
  BY <1>14, <1>0 DEF Crash, storeVars, indexVars, callVars, history, FailedOK, CallsOK
<1>15. CASE Prune
  BY <1>15, <1>0 DEF Prune, storeVars, indexVars, callVars, history, FailedOK
<1>16. CASE UNCHANGED vars
  BY <1>16, <1>0 DEF vars, storeVars, indexVars, callVars, history, FailedOK
<1> QED
  BY <1>1, <1>2, <1>3, <1>4, <1>5, <1>6, <1>7, <1>8, <1>9, <1>10, <1>11, <1>12, <1>13,
     <1>14, <1>15, <1>16 DEF Next, Refresh

\* The history is about problems.
LEMMA HistoryStep ==
    TInv /\ [Next]_vars => HistoryOK'
<1> SUFFICES ASSUME TInv, [Next]_vars PROVE HistoryOK'
  OBVIOUS
<1>0. HistoryOK
  BY DEF TInv
<1>1. ASSUME NEW w \in Workers, NEW p \in Problems, EnsureTestcases(w, p) PROVE HistoryOK'
  BY <1>1, <1>0 DEF EnsureTestcases, FastPath, Join, Lead, storeVars, indexVars,
     callVars, history, HistoryOK
<1>2. ASSUME NEW w \in Workers, Stat(w) PROVE HistoryOK'
  BY <1>2, <1>0 DEF Stat, storeVars, indexVars, callVars, history, HistoryOK
<1>3. ASSUME NEW w \in Workers, Compare(w) PROVE HistoryOK'
  BY <1>3, <1>0 DEF Compare, storeVars, indexVars, callVars, history, HistoryOK
<1>4. ASSUME NEW w \in Workers, Download(w) PROVE HistoryOK'
  BY <1>4, <1>0 DEF Download, storeVars, indexVars, callVars, history, HistoryOK
<1>5. ASSUME NEW w \in Workers, Replace(w) PROVE HistoryOK'
  BY <1>5, <1>0 DEF Replace, storeVars, indexVars, callVars, history, HistoryOK
<1>6. ASSUME NEW w \in Workers, Rename(w) PROVE HistoryOK'
  <2>1. job[w] \in Problems
    BY <1>6 DEF Rename, TInv, JobsOK
  <2>2. tainted' \subseteq Problems
    BY <2>1, <1>6, <1>0 DEF Rename, HistoryOK
  <2>3. leaked' \subseteq Problems
    BY <2>1, <1>6, <1>0 DEF Rename, HistoryOK
  <2> QED
    BY <2>2, <2>3 DEF HistoryOK
<1>7. ASSUME NEW w \in Workers, Finish(w) PROVE HistoryOK'
  <2>1. job[w] \in Problems
    BY <1>7 DEF Finish, TInv, JobsOK
  <2>2. CASE failed[w]
    BY <2>2, <1>7, <1>0 DEF Finish, HistoryOK
  <2>3. CASE ~failed[w]
    <3>1. tainted' \subseteq Problems
      BY <2>1, <2>3, <1>7, PromoteFacts DEF Finish, TInv
    <3> QED
      BY <3>1, <1>7, <1>0 DEF Finish, HistoryOK
  <2> QED
    BY <2>2, <2>3
<1>8. ASSUME NEW w \in Workers, Close(w) PROVE HistoryOK'
  BY <1>8, <1>0 DEF Close, storeVars, indexVars, callVars, history, HistoryOK
<1>9. ASSUME NEW w \in Workers, Release(w) PROVE HistoryOK'
  BY <1>9, <1>0 DEF Release, storeVars, indexVars, callVars, history, HistoryOK
<1>10. ASSUME NEW p \in Problems, RemoveBegins(p) PROVE HistoryOK'
  BY <1>10, <1>0 DEF RemoveBegins, storeVars, indexVars, callVars, history, HistoryOK
<1>11. ASSUME NEW p \in Problems, RemoveEnds(p) PROVE HistoryOK'
  BY <1>11, <1>0 DEF RemoveEnds, storeVars, indexVars, callVars, history, HistoryOK
<1>12. ASSUME NEW p \in Problems, Upload(p) PROVE HistoryOK'
  BY <1>12, <1>0 DEF Upload, storeVars, indexVars, callVars, history, HistoryOK
<1>13. ASSUME NEW p \in Problems, Expire(p) PROVE HistoryOK'
  BY <1>13, <1>0 DEF Expire, storeVars, indexVars, callVars, history, HistoryOK
<1>14. CASE Crash
  BY <1>14, <1>0 DEF Crash, storeVars, indexVars, callVars, history, HistoryOK
<1>15. CASE Prune
  <2>0. PICK found \in SUBSET OnDisk :
           /\ \E list \in SetToSeqs(found) : evictIfNeeded(list)
           /\ leaked' = OnDisk \ found
    BY <1>15 DEF Prune
  <2>1. PICK list \in SetToSeqs(found) : evictIfNeeded(list)
    BY <2>0
  <2>2. leaked' \subseteq Problems
    BY <2>0 DEF OnDisk
  <2>3. list \in Seq(Problems)
    BY FoundFacts DEF OnDisk
  <2>4. tainted' \subseteq Problems
    BY <2>1, <2>3, EvictFacts DEF TInv
  <2> QED
    BY <2>2, <2>4, <1>0 DEF HistoryOK
<1>16. CASE UNCHANGED vars
  BY <1>16, <1>0 DEF vars, storeVars, indexVars, callVars, history, HistoryOK
<1> QED
  BY <1>1, <1>2, <1>3, <1>4, <1>5, <1>6, <1>7, <1>8, <1>9, <1>10, <1>11, <1>12, <1>13,
     <1>14, <1>15, <1>16 DEF Next, Refresh

\* What is left is counted down.
LEMMA BoundsStep ==
    TInv /\ [Next]_vars => BoundsOK'
<1> SUFFICES ASSUME TInv, [Next]_vars PROVE BoundsOK'
  OBVIOUS
<1>0. BoundsOK
  BY DEF TInv
<1>1. ASSUME NEW w \in Workers, NEW p \in Problems, EnsureTestcases(w, p) PROVE BoundsOK'
  BY <1>1, <1>0 DEF EnsureTestcases, FastPath, Join, Lead, storeVars, indexVars,
     callVars, history, BoundsOK
<1>2. ASSUME NEW w \in Workers, Stat(w) PROVE BoundsOK'
  <2>1. UNCHANGED <<up, calls>> /\ (UNCHANGED budget \/ (budget > 0 /\ budget' = budget - 1))
    BY <1>2 DEF Stat, Fault
  <2> QED
    BY <2>1, <1>0 DEF BoundsOK
<1>3. ASSUME NEW w \in Workers, Compare(w) PROVE BoundsOK'
  BY <1>3, <1>0 DEF Compare, storeVars, indexVars, callVars, history, BoundsOK
<1>4. ASSUME NEW w \in Workers, Download(w) PROVE BoundsOK'
  <2>1. UNCHANGED <<up, calls>> /\ (UNCHANGED budget \/ (budget > 0 /\ budget' = budget - 1))
    BY <1>4 DEF Download, Fault
  <2> QED
    BY <2>1, <1>0 DEF BoundsOK
<1>5. ASSUME NEW w \in Workers, Replace(w) PROVE BoundsOK'
  BY <1>5, <1>0 DEF Replace, storeVars, indexVars, callVars, history, BoundsOK
<1>6. ASSUME NEW w \in Workers, Rename(w) PROVE BoundsOK'
  <2>1. UNCHANGED <<up, calls>> /\ (UNCHANGED budget \/ (budget > 0 /\ budget' = budget - 1))
    BY <1>6 DEF Rename, Fault
  <2> QED
    BY <2>1, <1>0 DEF BoundsOK
<1>7. ASSUME NEW w \in Workers, Finish(w) PROVE BoundsOK'
  BY <1>7, <1>0 DEF Finish, storeVars, indexVars, callVars, history, BoundsOK
<1>8. ASSUME NEW w \in Workers, Close(w) PROVE BoundsOK'
  BY <1>8, <1>0 DEF Close, storeVars, indexVars, callVars, history, BoundsOK
<1>9. ASSUME NEW w \in Workers, Release(w) PROVE BoundsOK'
  BY <1>9, <1>0 DEF Release, storeVars, indexVars, callVars, history, BoundsOK
<1>10. ASSUME NEW p \in Problems, RemoveBegins(p) PROVE BoundsOK'
  BY <1>10, <1>0 DEF RemoveBegins, storeVars, indexVars, callVars, history, BoundsOK
<1>11. ASSUME NEW p \in Problems, RemoveEnds(p) PROVE BoundsOK'
  <2>1. UNCHANGED <<up, calls>> /\ (UNCHANGED budget \/ (budget > 0 /\ budget' = budget - 1))
    BY <1>11 DEF RemoveEnds, Fault
  <2> QED
    BY <2>1, <1>0 DEF BoundsOK
<1>12. ASSUME NEW p \in Problems, Upload(p) PROVE BoundsOK'
  BY <1>12, <1>0 DEF Upload, storeVars, indexVars, callVars, history, BoundsOK
<1>13. ASSUME NEW p \in Problems, Expire(p) PROVE BoundsOK'
  BY <1>13, <1>0 DEF Expire, storeVars, indexVars, callVars, history, BoundsOK
<1>14. CASE Crash
  <2>1. up' = FALSE /\ UNCHANGED calls /\ budget > 0 /\ budget' = budget - 1
    BY <1>14 DEF Crash, Fault
  <2>2. up' \in BOOLEAN
    BY <2>1
  <2>3. calls' \in Nat /\ budget' \in Nat
    BY <2>1, <1>0 DEF BoundsOK
  <2> QED
    BY <2>2, <2>3 DEF BoundsOK
<1>15. CASE Prune
  <2>1. up' = TRUE /\ UNCHANGED calls /\ (UNCHANGED budget \/ (budget > 0 /\ budget' = budget - 1))
    BY <1>15 DEF Prune, Fault
  <2> QED
    BY <2>1, <1>0 DEF BoundsOK
<1>16. CASE UNCHANGED vars
  BY <1>16, <1>0 DEF vars, storeVars, indexVars, callVars, history, BoundsOK
<1> QED
  BY <1>1, <1>2, <1>3, <1>4, <1>5, <1>6, <1>7, <1>8, <1>9, <1>10, <1>11, <1>12, <1>13,
     <1>14, <1>15, <1>16 DEF Next, Refresh

\* All types, at the start.
LEMMA TInvInit == Init => TInv
<1> SUFFICES ASSUME Init PROVE TInv
  OBVIOUS
<1>0. 0 .. 1 \subseteq Versions /\ 0 \in Versions /\ NoDir \in Dir
  BY VersionFacts
<1>1. StoreOK
  BY <1>0 DEF Init, StoreOK
<1>2. EntriesOK /\ ListOK /\ SlotsOK /\ RemoversOK
  BY <1>0 DEF Init, EntriesOK, ListOK, SlotsOK, RemoversOK, Idle
<1>3. CallsOK
  BY <1>0 DEF Init, CallsOK, Places
<1>4. JobsOK /\ FailedOK
  BY DEF Init, JobsOK, FailedOK
<1>5. HistoryOK /\ BoundsOK
  BY CacheAssumption DEF Init, HistoryOK, BoundsOK
<1> QED
  BY <1>1, <1>2, <1>3, <1>4, <1>5 DEF TInv

\* Every step keeps the types.
LEMMA TInvStep == TInv /\ [Next]_vars => TInv'
BY StoreStep, ListsStep, EntriesStep, SlotsStep, CallsStep, JobsStep, FailedStep, HistoryStep,
   BoundsStep DEF TInv

\* Every variable of the test case cache keeps its type.
THEOREM TypesHold == Spec => []TypeOK
<1>1. TInv => TypeOK
  BY DEF TInv, StoreOK, EntriesOK, ListOK, SlotsOK, RemoversOK, CallsOK, FailedOK, HistoryOK,
         BoundsOK, TypeOK, Places
<1> QED
  BY TInvInit, TInvStep, <1>1, PTL DEF Spec

-----------------------------------------------------------------------------
\* close(slot.done): the leader and those who wait for it return, nobody else moves.
LEMMA CloseFacts ==
    ASSUME TInv, NEW w \in Workers, Close(w)
    PROVE  /\ pc[w] = "close"
           /\ \A v \in Workers :
                 IF v = w \/ (pc[v] = "wait" /\ leader[v] = w)
                 THEN IF failed[w] THEN pc'[v] = "idle" /\ seen'[v] = 0
                      ELSE pc'[v] = "use" /\ seen'[v] = seen[w] /\ job'[v] = job[v]
                 ELSE /\ pc'[v] = pc[v] /\ seen'[v] = seen[v] /\ job'[v] = job[v]
                      /\ leader[v] # w => leader'[v] = leader[v]
           /\ \A v \in Workers \ {w} : failed'[v] = failed[v]
           /\ UNCHANGED <<storeVars, indexVars, removers, up, staged, history, calls, budget>>
<1> DEFINE out == {w} \cup {v \in Workers : pc[v] = "wait" /\ leader[v] = w}
<1>1. /\ pc' = [v \in Workers |->
                   IF v \notin out THEN pc[v] ELSE IF failed[w] THEN "idle" ELSE "use"]
      /\ seen' = [v \in Workers |-> IF v \notin out THEN seen[v]
                                    ELSE IF failed[w] THEN 0 ELSE seen[w]]
      /\ job' = [v \in Workers |-> IF failed[w] /\ v \in out THEN NoProblem ELSE job[v]]
      /\ leader' = [v \in Workers |-> IF leader[v] = w THEN NoWorker ELSE leader[v]]
      /\ failed' = [failed EXCEPT ![w] = FALSE]
      /\ pc[w] = "close"
      /\ UNCHANGED <<storeVars, indexVars, removers, up, staged, history, calls, budget>>
  BY DEF Close
<1>2. \A v \in Workers : v \in out <=> (v = w \/ (pc[v] = "wait" /\ leader[v] = w))
  OBVIOUS
<1> HIDE DEF out
<1>3. \A v \in Workers \ {w} : failed'[v] = failed[v]
  BY <1>1 DEF TInv, FailedOK
<1> QED
  BY <1>1, <1>2, <1>3

\* Slots have one owner, waiters a leader.
LEMMA OwnersStep ==
    SInv /\ [Next]_vars =>
        (SlotOwned /\ WaiterFollows)'
<1> DEFINE Goal == SlotOwned /\ WaiterFollows
<1> SUFFICES ASSUME SInv, [Next]_vars PROVE Goal'
  OBVIOUS
<1>0. CallsOK /\ JobsOK /\ SlotsOK /\ SlotOwned /\ WaiterFollows /\ NoWorker \notin Workers
  BY CacheAssumption DEF SInv, TInv
<1>1. ASSUME NEW w \in Workers, NEW p \in Problems, EnsureTestcases(w, p) PROVE Goal'
  <2>0. /\ pc[w] = "idle" /\ job' = [job EXCEPT ![w] = p]
        /\ \A v \in Workers : pc[v] = "idle" => pc[v] \notin InRefresh \cup {"close"}
    BY <1>1 DEF EnsureTestcases, InRefresh
  <2>1. CASE FastPath(w, p)
    <3>1. pc' = [pc EXCEPT ![w] = "use"] /\ UNCHANGED <<slot, leader>>
      BY <2>1 DEF FastPath, Goto
    <3> QED
      BY <2>0, <3>1, <1>0 DEF SlotOwned, WaiterFollows, CallsOK, SlotsOK, InRefresh
  <2>2. CASE Join(w, p)
    <3>1. /\ pc' = [pc EXCEPT ![w] = "wait"] /\ UNCHANGED slot
          /\ slot[p] # NoWorker /\ leader' = [leader EXCEPT ![w] = slot[p]]
      BY <2>2 DEF Join, Goto, indexVars
    <3>2. slot[p] \in Workers /\ slot[p] # w
      BY <2>0, <3>1, <1>0 DEF SlotOwned, SlotsOK
    <3>3. SlotOwned'
      BY <2>0, <3>1, <3>2, <1>0 DEF SlotOwned, CallsOK, SlotsOK, InRefresh
    <3>4. WaiterFollows'
      <4> SUFFICES ASSUME NEW v \in Workers, pc'[v] = "wait"
                   PROVE  /\ leader'[v] \in Workers
                          /\ job'[leader'[v]] = job'[v]
                          /\ pc'[leader'[v]] \in InRefresh \cup {"close"}
        BY DEF WaiterFollows
      <4>1. CASE v = w
        <5>1. leader'[v] = slot[p] /\ job'[v] = p
          BY <4>1, <3>1, <2>0, <1>0 DEF CallsOK
        <5>2. job'[slot[p]] = job[slot[p]] /\ pc'[slot[p]] = pc[slot[p]]
          BY <3>1, <3>2, <2>0, <1>0 DEF CallsOK
        <5> QED
          BY <5>1, <5>2, <3>1, <3>2, <1>0 DEF SlotOwned
      <4>2. CASE v # w
        <5>1. pc[v] = "wait" /\ leader'[v] = leader[v] /\ job'[v] = job[v]
          BY <4>2, <3>1, <2>0, <1>0 DEF CallsOK
        <5>2. leader[v] \in Workers /\ leader[v] # w
          BY <5>1, <2>0, <1>0 DEF WaiterFollows
        <5>3. job'[leader[v]] = job[leader[v]] /\ pc'[leader[v]] = pc[leader[v]]
          BY <5>2, <3>1, <2>0, <1>0 DEF CallsOK
        <5> QED
          BY <5>1, <5>2, <5>3, <1>0 DEF WaiterFollows
      <4> QED
        BY <4>1, <4>2
    <3> QED
      BY <3>3, <3>4
  <2>3. CASE Lead(w, p)
    <3>1. /\ pc' = [pc EXCEPT ![w] = "stat"] /\ UNCHANGED leader
          /\ slot[p] = NoWorker /\ slot' = [slot EXCEPT ![p] = w]
      BY <2>3 DEF Lead, Goto
    <3>2. \A v \in Workers : pc[v] \in InRefresh => job[v] # p /\ job[v] \in Problems
      BY <3>1, <1>0 DEF SlotOwned, JobsOK, InRefresh
    <3>3. SlotOwned'
      <4>1. ASSUME NEW v \in Workers, pc'[v] \in InRefresh PROVE slot'[job'[v]] = v
        <5>1. CASE v = w
          BY <5>1, <3>1, <2>0, <1>0 DEF CallsOK, SlotsOK
        <5>2. CASE v # w
          BY <5>2, <4>1, <3>1, <3>2, <2>0, <1>0 DEF CallsOK, SlotsOK, SlotOwned
        <5> QED
          BY <5>1, <5>2
      <4>2. ASSUME NEW q \in Problems, slot'[q] # NoWorker
            PROVE  pc'[slot'[q]] \in InRefresh /\ job'[slot'[q]] = q
        <5>1. CASE q = p
          BY <5>1, <3>1, <2>0, <1>0 DEF CallsOK, SlotsOK, InRefresh
        <5>2. CASE q # p
          <6>1. slot'[q] = slot[q] /\ slot[q] \in Workers /\ slot[q] # w
            BY <5>2, <4>2, <3>1, <2>0, <1>0 DEF SlotsOK, SlotOwned
          <6> QED
            BY <6>1, <4>2, <3>1, <2>0, <1>0 DEF CallsOK, SlotOwned
        <5> QED
          BY <5>1, <5>2
      <4> QED
        BY <4>1, <4>2 DEF SlotOwned
    <3>4. WaiterFollows'
      BY <2>0, <3>1, <1>0 DEF WaiterFollows, CallsOK, InRefresh
    <3> QED
      BY <3>3, <3>4
  <2> QED
    BY <1>1, <2>1, <2>2, <2>3 DEF EnsureTestcases
<1>2. ASSUME NEW w \in Workers, Stat(w) PROVE Goal'
  <2>1. /\ pc[w] \in InRefresh /\ pc'[w] \in InRefresh
        /\ \A v \in Workers \ {w} : pc'[v] = pc[v]
        /\ UNCHANGED <<job, slot, leader>>
    BY <1>2, <1>0 DEF Stat, Goto, CallsOK, InRefresh, indexVars
  <2> QED
    BY <2>1, <1>0 DEF SlotOwned, WaiterFollows, SlotsOK, InRefresh, CallsOK
<1>3. ASSUME NEW w \in Workers, Compare(w) PROVE Goal'
  <2>1. /\ pc[w] \in InRefresh /\ pc'[w] \in InRefresh
        /\ \A v \in Workers \ {w} : pc'[v] = pc[v]
        /\ UNCHANGED <<job, slot, leader>>
    BY <1>3, <1>0 DEF Compare, Goto, CallsOK, InRefresh, indexVars
  <2> QED
    BY <2>1, <1>0 DEF SlotOwned, WaiterFollows, SlotsOK, InRefresh, CallsOK
<1>4. ASSUME NEW w \in Workers, Download(w) PROVE Goal'
  <2>1. /\ pc[w] \in InRefresh /\ pc'[w] \in InRefresh
        /\ \A v \in Workers \ {w} : pc'[v] = pc[v]
        /\ UNCHANGED <<job, slot, leader>>
    BY <1>4, <1>0 DEF Download, Goto, CallsOK, InRefresh, indexVars
  <2> QED
    BY <2>1, <1>0 DEF SlotOwned, WaiterFollows, SlotsOK, InRefresh, CallsOK
<1>5. ASSUME NEW w \in Workers, Replace(w) PROVE Goal'
  <2>1. /\ pc[w] \in InRefresh /\ pc'[w] \in InRefresh
        /\ \A v \in Workers \ {w} : pc'[v] = pc[v]
        /\ UNCHANGED <<job, slot, leader>>
    BY <1>5, <1>0 DEF Replace, Goto, CallsOK, InRefresh, indexVars
  <2> QED
    BY <2>1, <1>0 DEF SlotOwned, WaiterFollows, SlotsOK, InRefresh, CallsOK
<1>6. ASSUME NEW w \in Workers, Rename(w) PROVE Goal'
  <2>1. /\ pc[w] \in InRefresh /\ pc'[w] \in InRefresh
        /\ \A v \in Workers \ {w} : pc'[v] = pc[v]
        /\ UNCHANGED <<job, slot, leader>>
    BY <1>6, <1>0 DEF Rename, Goto, CallsOK, InRefresh, indexVars
  <2> QED
    BY <2>1, <1>0 DEF SlotOwned, WaiterFollows, SlotsOK, InRefresh, CallsOK
<1>7. ASSUME NEW w \in Workers, Finish(w) PROVE Goal'
  <2>1. /\ pc[w] = "finish" /\ pc' = [pc EXCEPT ![w] = "close"]
        /\ slot' = [slot EXCEPT ![job[w]] = NoWorker]
        /\ UNCHANGED <<job, leader>>
    BY <1>7 DEF Finish, Goto
  <2>2. "finish" \in InRefresh /\ "close" \notin InRefresh
    BY DEF InRefresh
  <2>3. job[w] \in Problems /\ slot[job[w]] = w
    BY <2>1, <2>2, <1>0 DEF JobsOK, SlotOwned
  <2>4. SlotOwned'
    <3>1. ASSUME NEW v \in Workers, pc'[v] \in InRefresh PROVE slot'[job'[v]] = v
      <4>1. v # w /\ pc[v] \in InRefresh
        BY <3>1, <2>1, <2>2, <1>0 DEF CallsOK
      <4>2. slot[job[v]] = v /\ job[v] \in Problems /\ job[v] # job[w]
        BY <4>1, <2>3, <1>0 DEF SlotOwned, JobsOK, InRefresh
      <4> QED
        BY <4>2, <2>1, <1>0 DEF SlotsOK
    <3>2. ASSUME NEW q \in Problems, slot'[q] # NoWorker
          PROVE  pc'[slot'[q]] \in InRefresh /\ job'[slot'[q]] = q
      <4>1. q # job[w] /\ slot'[q] = slot[q] /\ slot[q] \in Workers
        BY <3>2, <2>1, <2>3, <1>0 DEF SlotsOK
      <4>2. slot[q] # w
        BY <4>1, <3>2, <1>0 DEF SlotOwned
      <4> QED
        BY <4>1, <4>2, <3>2, <2>1, <1>0 DEF SlotOwned, CallsOK
    <3> QED
      BY <3>1, <3>2 DEF SlotOwned
  <2>5. WaiterFollows'
    BY <2>1, <2>2, <1>0 DEF WaiterFollows, CallsOK
  <2> QED
    BY <2>4, <2>5
<1>8. ASSUME NEW w \in Workers, Close(w) PROVE Goal'
  <2>0. TInv
    BY DEF SInv
  <2>1. /\ pc[w] = "close"
        /\ \A v \in Workers :
              IF v = w \/ (pc[v] = "wait" /\ leader[v] = w)
              THEN pc'[v] \in {"idle", "use"}
              ELSE /\ pc'[v] = pc[v] /\ job'[v] = job[v]
                   /\ leader[v] # w => leader'[v] = leader[v]
        /\ UNCHANGED slot
    BY <1>8, <2>0, CloseFacts DEF indexVars
  <2>2. \A x \in {"wait", "close", "idle", "use"} : x \notin InRefresh
    BY DEF InRefresh
  <2>3. \A v \in Workers : pc'[v] \in InRefresh \cup {"wait", "close"} =>
           v # w /\ pc'[v] = pc[v] /\ job'[v] = job[v]
           /\ (pc[v] = "wait" => leader[v] # w /\ leader'[v] = leader[v])
    BY <2>1, <2>2
  <2>4. \A v \in Workers : pc[v] \in InRefresh \cup {"close"} /\ v # w =>
           pc'[v] = pc[v] /\ job'[v] = job[v]
    BY <2>1, <2>2
  <2>5. SlotOwned'
    BY <2>1, <2>2, <2>3, <2>4, <1>0 DEF SlotOwned, SlotsOK
  <2>6. WaiterFollows'
    BY <2>3, <2>4, <1>0 DEF WaiterFollows
  <2> QED
    BY <2>5, <2>6
<1>9. ASSUME NEW w \in Workers, Release(w) PROVE Goal'
  <2>1. /\ pc[w] = "use" /\ pc' = [pc EXCEPT ![w] = "idle"]
        /\ job' = [job EXCEPT ![w] = NoProblem] /\ UNCHANGED <<slot, leader>>
    BY <1>9 DEF Release, Goto, indexVars
  <2>2. \A x \in {"wait", "close", "idle", "use"} : x \notin InRefresh
    BY DEF InRefresh
  <2>3. \A v \in Workers \ {w} : pc'[v] = pc[v] /\ job'[v] = job[v]
    BY <2>1, <1>0 DEF CallsOK
  <2>4. pc'[w] = "idle"
    BY <2>1, <1>0 DEF CallsOK
  <2>5. SlotOwned'
    BY <2>1, <2>2, <2>3, <2>4, <1>0 DEF SlotOwned, SlotsOK
  <2>6. WaiterFollows'
    BY <2>1, <2>2, <2>3, <2>4, <1>0 DEF WaiterFollows
  <2> QED
    BY <2>5, <2>6
<1>10. ASSUME NEW p \in Problems, RemoveBegins(p) PROVE Goal'
  BY <1>10, <1>0 DEF RemoveBegins, storeVars, indexVars, callVars, history, SlotOwned,
     WaiterFollows
<1>11. ASSUME NEW p \in Problems, RemoveEnds(p) PROVE Goal'
  BY <1>11, <1>0 DEF RemoveEnds, storeVars, indexVars, callVars, history, SlotOwned,
     WaiterFollows
<1>12. ASSUME NEW p \in Problems, Upload(p) PROVE Goal'
  BY <1>12, <1>0 DEF Upload, storeVars, indexVars, callVars, history, SlotOwned,
     WaiterFollows
<1>13. ASSUME NEW p \in Problems, Expire(p) PROVE Goal'
  BY <1>13, <1>0 DEF Expire, storeVars, indexVars, callVars, history, SlotOwned,
     WaiterFollows
<1>14. CASE Crash
  BY <1>14, <1>0 DEF Crash, storeVars, indexVars, callVars, history, SlotOwned,
     WaiterFollows, InRefresh
<1>15. CASE Prune
  BY <1>15, <1>0 DEF Prune, storeVars, indexVars, callVars, history, SlotOwned,
     WaiterFollows
<1>16. CASE UNCHANGED vars
  BY <1>16, <1>0 DEF vars, storeVars, indexVars, callVars, history, SlotOwned,
     WaiterFollows
<1> QED
  BY <1>1, <1>2, <1>3, <1>4, <1>5, <1>6, <1>7, <1>8, <1>9, <1>10, <1>11, <1>12, <1>13,
     <1>14, <1>15, <1>16 DEF Next, Refresh

\* Slots and waiters, at the start.
LEMMA SInvInit == Init => SInv
<1>1. Init => SlotOwned /\ WaiterFollows
  BY CacheAssumption DEF Init, SlotOwned, WaiterFollows, InRefresh
<1> QED
  BY <1>1, TInvInit DEF SInv

\* Every step keeps slots and waiters in order.
LEMMA SInvStep == SInv /\ [Next]_vars => SInv'
BY TInvStep, OwnersStep DEF SInv

\* "Only one download goroutine runs": two workers never refresh the same problem,
\* whoever joins, fails or is evicted in between.
THEOREM OneRefreshHolds == Spec => []OneRefresh
<1>1. SInv => OneRefresh
  BY DEF SInv, SlotOwned, OneRefresh
<1> QED
  BY SInvInit, SInvStep, <1>1, PTL DEF Spec

-----------------------------------------------------------------------------
\* Directories change only so.
LEMMA DirStep ==
    SInv /\ [Next]_vars =>
        \A q \in Problems : DirMoves(q)
<1> DEFINE Goal == \A q \in Problems : DirMoves(q)
<1> SUFFICES ASSUME SInv, [Next]_vars PROVE Goal
  OBVIOUS
<1>0. StoreOK /\ EntriesOK /\ CallsOK /\ JobsOK /\ SlotOwned /\ Versions \subseteq Nat
  BY VersionFacts DEF SInv, TInv
<1>n. \A q \in Problems : remote[q] \in Nat
  BY <1>0 DEF StoreOK
<1>1. ASSUME NEW w \in Workers, NEW p \in Problems, EnsureTestcases(w, p) PROVE Goal
  <2>1. UNCHANGED <<remote, disk>>
    BY <1>1 DEF EnsureTestcases, storeVars
  <2> QED
    BY <2>1, <1>n DEF DirMoves, DirKept
<1>2. ASSUME NEW w \in Workers, Stat(w) PROVE Goal
  <2>1. UNCHANGED <<remote, disk>>
    BY <1>2 DEF Stat, storeVars
  <2> QED
    BY <2>1, <1>n DEF DirMoves, DirKept
<1>3. ASSUME NEW w \in Workers, Compare(w) PROVE Goal
  <2>1. UNCHANGED <<remote, disk>>
    BY <1>3 DEF Compare, storeVars
  <2> QED
    BY <2>1, <1>n DEF DirMoves, DirKept
<1>4. ASSUME NEW w \in Workers, Download(w) PROVE Goal
  <2>1. UNCHANGED <<remote, disk>>
    BY <1>4 DEF Download, storeVars
  <2> QED
    BY <2>1, <1>n DEF DirMoves, DirKept
<1>5. ASSUME NEW w \in Workers, Replace(w) PROVE Goal
  <2>0. job[w] \in Problems /\ UNCHANGED remote
    BY <1>5, <1>0 DEF Replace, JobsOK
  <2>1. PICK e \in {0, disk[job[w]].etag} :
           disk' = [disk EXCEPT ![job[w]].whole = FALSE, ![job[w]].etag = e]
    BY <1>5 DEF Replace
  <2>2. /\ disk'[job[w]].etag = e /\ disk'[job[w]].files = disk[job[w]].files
        /\ \A q \in Problems \ {job[w]} : disk'[q] = disk[q]
    BY <2>0, <2>1, <1>0, TornFacts
  <2>3. \A q \in Problems : DirKept(q)
    BY <2>2 DEF DirKept
  <2>4. \A q \in Problems : remote[q] <= remote'[q]
    BY <2>0, <1>n
  <2> QED
    BY <2>3, <2>4 DEF DirMoves
<1>6. ASSUME NEW w \in Workers, Rename(w) PROVE Goal
  <2>1. /\ pc[w] = "rename" /\ pc'[w] = "finish" /\ UNCHANGED remote
        /\ \/ disk' = [disk EXCEPT ![job[w]] = staged[w]]
           \/ UNCHANGED disk
           \/ disk' = [disk EXCEPT ![job[w]] = NoDir]
    BY <1>6, <1>0 DEF Rename, Goto, CallsOK
  <2>2. \A q \in Problems : remote[q] <= remote'[q]
    BY <2>1, <1>n
  <2>3. ASSUME NEW q \in Problems PROVE DirKept(q) \/ DirInstalled(q)
    <3>1. CASE disk'[q] = disk[q]
      BY <3>1 DEF DirKept
    <3>2. CASE disk'[q] = NoDir
      BY <3>2, VersionFacts DEF DirKept
    <3>3. CASE q = job[w] /\ disk'[q] = staged[w]
      BY <3>3, <2>1 DEF DirInstalled
    <3> QED
      BY <2>1, <3>1, <3>2, <3>3, <1>0 DEF StoreOK
  <2> QED
    BY <2>2, <2>3 DEF DirMoves
<1>7. ASSUME NEW w \in Workers, Finish(w) PROVE Goal
  <2>1. UNCHANGED <<remote, disk>>
    BY <1>7 DEF Finish, storeVars
  <2> QED
    BY <2>1, <1>n DEF DirMoves, DirKept
<1>8. ASSUME NEW w \in Workers, Close(w) PROVE Goal
  <2>1. UNCHANGED <<remote, disk>>
    BY <1>8 DEF Close, storeVars
  <2> QED
    BY <2>1, <1>n DEF DirMoves, DirKept
<1>9. ASSUME NEW w \in Workers, Release(w) PROVE Goal
  <2>1. UNCHANGED <<remote, disk>>
    BY <1>9 DEF Release, storeVars
  <2> QED
    BY <2>1, <1>n DEF DirMoves, DirKept
<1>10. ASSUME NEW p \in Problems, RemoveBegins(p) PROVE Goal
  <2>1. \A q \in Problems : remote[q] <= remote'[q]
    BY <1>10, <1>n DEF RemoveBegins
  <2>2. CASE UNCHANGED disk
    BY <2>1, <2>2 DEF DirMoves, DirKept
  <2>3. CASE disk[p] # NoDir
    <3>1. PICK e \in {0, disk[p].etag} :
             disk' = [disk EXCEPT ![p].whole = FALSE, ![p].etag = e]
      BY <1>10, <2>3 DEF RemoveBegins
    <3>2. /\ disk'[p].etag = e /\ disk'[p].files = disk[p].files
          /\ \A q \in Problems \ {p} : disk'[q] = disk[q]
      BY <3>1, <1>0, TornFacts
    <3> QED
      BY <3>2, <2>1 DEF DirMoves, DirKept
  <2> QED
    BY <1>10, <2>2, <2>3 DEF RemoveBegins
<1>11. ASSUME NEW p \in Problems, RemoveEnds(p) PROVE Goal
  <2>1. \A q \in Problems : remote[q] <= remote'[q]
    BY <1>11, <1>n DEF RemoveEnds
  <2>2. UNCHANGED disk \/ disk' = [disk EXCEPT ![p] = NoDir]
    BY <1>11 DEF RemoveEnds
  <2>3. ASSUME NEW q \in Problems PROVE disk'[q] = disk[q] \/ disk'[q] = NoDir
    BY <2>2, <1>0 DEF StoreOK
  <2> QED
    BY <2>1, <2>3, VersionFacts DEF DirMoves, DirKept
<1>12. ASSUME NEW p \in Problems, Upload(p) PROVE Goal
  <2>1. remote' = [remote EXCEPT ![p] = remote[p] + 1] /\ UNCHANGED disk
    BY <1>12 DEF Upload
  <2>2. \A q \in Problems : remote[q] \in Nat
    BY <1>0 DEF StoreOK
  <2>3. \A q \in Problems : remote[q] <= remote'[q]
    BY <2>1, <2>2, <1>0 DEF StoreOK
  <2> QED
    BY <2>1, <2>3 DEF DirMoves, DirKept
<1>13. ASSUME NEW p \in Problems, Expire(p) PROVE Goal
  <2>1. UNCHANGED <<remote, disk>>
    BY <1>13 DEF Expire, storeVars
  <2> QED
    BY <2>1, <1>n DEF DirMoves, DirKept
<1>14. CASE Crash
  <2>1. UNCHANGED <<remote, disk>>
    BY <1>14 DEF Crash, storeVars
  <2> QED
    BY <2>1, <1>n DEF DirMoves, DirKept
<1>15. CASE Prune
  <2>1. UNCHANGED <<remote, disk>>
    BY <1>15 DEF Prune, storeVars
  <2> QED
    BY <2>1, <1>n DEF DirMoves, DirKept
<1>16. CASE UNCHANGED vars
  BY <1>16, <1>0, <1>n DEF vars, storeVars, indexVars, callVars, history, DirMoves,
     DirKept, StoreOK
<1> QED
  BY <1>1, <1>2, <1>3, <1>4, <1>5, <1>6, <1>7, <1>8, <1>9, <1>10, <1>11, <1>12, <1>13,
     <1>14, <1>15, <1>16 DEF Next, Refresh

\* Entries change only so.
LEMMA EntryStep ==
    SInv /\ [Next]_vars =>
        \A q \in Problems : EntryMoves(q)
<1> DEFINE Goal == \A q \in Problems : EntryMoves(q)
<1> SUFFICES ASSUME SInv, [Next]_vars PROVE Goal
  OBVIOUS
<1>0. StoreOK /\ EntriesOK /\ CallsOK /\ JobsOK /\ SlotOwned /\ Versions \subseteq Nat
  BY VersionFacts DEF SInv, TInv
<1>1. ASSUME NEW w \in Workers, NEW p \in Problems, EnsureTestcases(w, p) PROVE Goal
  BY <1>1, <1>0 DEF EnsureTestcases, FastPath, Join, Lead, storeVars, indexVars,
     callVars, history, EntryMoves
<1>2. ASSUME NEW w \in Workers, Stat(w) PROVE Goal
  BY <1>2, <1>0 DEF Stat, storeVars, indexVars, callVars, history, EntryMoves
<1>3. ASSUME NEW w \in Workers, Compare(w) PROVE Goal
  <2> DEFINE e == [entry[job[w]] EXCEPT !.recent = TRUE]
  <2>1. UNCHANGED entry \/ entry' = [entry EXCEPT ![job[w]] = e]
    BY <1>3 DEF Compare
  <2>2. job[w] \in Problems /\ entry[job[w]] \in [etag : Versions, recent : BOOLEAN]
    BY <1>3, <1>0 DEF Compare, JobsOK, EntriesOK
  <2>3. e.etag = entry[job[w]].etag
    BY <2>2
  <2> HIDE DEF e
  <2> QED
    BY <2>1, <2>2, <2>3, <1>0 DEF EntriesOK, EntryMoves
<1>4. ASSUME NEW w \in Workers, Download(w) PROVE Goal
  BY <1>4, <1>0 DEF Download, storeVars, indexVars, callVars, history, EntryMoves
<1>5. ASSUME NEW w \in Workers, Replace(w) PROVE Goal
  BY <1>5, <1>0 DEF Replace, storeVars, indexVars, callVars, history, EntryMoves
<1>6. ASSUME NEW w \in Workers, Rename(w) PROVE Goal
  BY <1>6, <1>0 DEF Rename, storeVars, indexVars, callVars, history, EntryMoves
<1>7. ASSUME NEW w \in Workers, Finish(w) PROVE Goal
  <2>1. /\ pc[w] = "finish" /\ job[w] \in Problems /\ pc' = [pc EXCEPT ![w] = "close"]
        /\ UNCHANGED <<remote, disk, job>>
    BY <1>7, <1>0 DEF Finish, Goto, JobsOK, storeVars
  <2>2. CASE failed[w]
    BY <2>2, <1>7 DEF Finish, EntryMoves
  <2>3. CASE ~failed[w]
    <3>1. /\ entry'[job[w]].etag = disk[job[w]].etag
          /\ \A q \in Problems \ {job[w]} : entry'[q] = entry[q]
      BY <2>1, <2>3, <1>7, PromoteFacts DEF Finish, SInv, TInv
    <3>2. \A v \in Workers : pc'[v] \in Validating => job'[v] # job[w]
      <4> SUFFICES ASSUME NEW v \in Workers, pc'[v] \in Validating, job[v] = job[w] PROVE FALSE
        BY <2>1
      <4>1. v # w /\ pc[v] \in Validating
        BY <2>1, <1>0 DEF CallsOK, Validating
      <4>2. slot[job[v]] = v /\ slot[job[w]] = w
        BY <4>1, <2>1, <1>0 DEF SlotOwned, Validating, InRefresh
      <4> QED
        BY <4>1, <4>2
    <3> QED
      BY <3>1, <3>2, <2>1 DEF EntryMoves
  <2> QED
    BY <2>2, <2>3
<1>8. ASSUME NEW w \in Workers, Close(w) PROVE Goal
  BY <1>8, <1>0 DEF Close, storeVars, indexVars, callVars, history, EntryMoves
<1>9. ASSUME NEW w \in Workers, Release(w) PROVE Goal
  BY <1>9, <1>0 DEF Release, storeVars, indexVars, callVars, history, EntryMoves
<1>10. ASSUME NEW p \in Problems, RemoveBegins(p) PROVE Goal
  BY <1>10, <1>0 DEF RemoveBegins, storeVars, indexVars, callVars, history, EntryMoves
<1>11. ASSUME NEW p \in Problems, RemoveEnds(p) PROVE Goal
  BY <1>11, <1>0 DEF RemoveEnds, storeVars, indexVars, callVars, history, EntryMoves
<1>12. ASSUME NEW p \in Problems, Upload(p) PROVE Goal
  BY <1>12, <1>0 DEF Upload, storeVars, indexVars, callVars, history, EntryMoves
<1>13. ASSUME NEW p \in Problems, Expire(p) PROVE Goal
  <2> DEFINE e == [entry[p] EXCEPT !.recent = FALSE]
  <2>1. entry' = [entry EXCEPT ![p] = e]
    BY <1>13 DEF Expire
  <2>2. entry[p] \in [etag : Versions, recent : BOOLEAN]
    BY <1>0 DEF EntriesOK
  <2>3. e.etag = entry[p].etag
    BY <2>2
  <2> HIDE DEF e
  <2> QED
    BY <2>1, <2>3, <1>0 DEF EntriesOK, EntryMoves
<1>14. CASE Crash
  BY <1>14, <1>0 DEF Crash, storeVars, indexVars, callVars, history, EntryMoves
<1>15. CASE Prune
  <2>1. /\ ~up /\ UNCHANGED <<remote, disk, pc, job>>
        /\ \A q \in Problems : entry'[q].etag = disk[q].etag
    BY <1>15 DEF Prune, storeVars, callVars
  <2>2. \A v \in Workers : pc[v] = "idle"
    BY <2>1, <1>0 DEF JobsOK
  <2> QED
    BY <2>1, <2>2 DEF EntryMoves, Validating
<1>16. CASE UNCHANGED vars
  BY <1>16, <1>0 DEF vars, storeVars, indexVars, callVars, history, EntryMoves
<1> QED
  BY <1>1, <1>2, <1>3, <1>4, <1>5, <1>6, <1>7, <1>8, <1>9, <1>10, <1>11, <1>12, <1>13,
     <1>14, <1>15, <1>16 DEF Next, Refresh

\* Calls get their ETags only so.
LEMMA SeenStep ==
    SInv /\ NothingAhead /\ [Next]_vars =>
        \A v \in Workers : pc'[v] # "idle" => SeenFrom(v)
<1> DEFINE Goal == \A v \in Workers : pc'[v] # "idle" => SeenFrom(v)
<1> SUFFICES ASSUME SInv, NothingAhead, [Next]_vars PROVE Goal
  OBVIOUS
<1>0. StoreOK /\ EntriesOK /\ CallsOK /\ JobsOK /\ SlotOwned /\ Versions \subseteq Nat
  BY VersionFacts DEF SInv, TInv
<1>1. ASSUME NEW w \in Workers, NEW p \in Problems, EnsureTestcases(w, p) PROVE Goal
  <2>1. job' = [job EXCEPT ![w] = p] /\ pc[w] = "idle"
    BY <1>1 DEF EnsureTestcases
  <2>2. CASE FastPath(w, p)
    BY <2>1, <2>2, <1>0 DEF FastPath, Goto, SeenFrom, CallsOK
  <2>3. CASE Join(w, p) \/ Lead(w, p)
    <3>1. UNCHANGED seen /\ \A v \in Workers \ {w} : pc'[v] = pc[v]
      BY <2>3, <1>0 DEF Join, Lead, Goto, CallsOK
    <3>2. seen[w] = 0
      BY <2>1 DEF NothingAhead
    <3> QED
      BY <3>1, <3>2, <2>1, <1>0 DEF SeenFrom, CallsOK
  <2> QED
    BY <1>1, <2>2, <2>3 DEF EnsureTestcases
<1>2. ASSUME NEW w \in Workers, Stat(w) PROVE Goal
  BY <1>2, <1>0 DEF Stat, Goto, storeVars, indexVars, callVars, history, SeenFrom,
     CallsOK
<1>3. ASSUME NEW w \in Workers, Compare(w) PROVE Goal
  BY <1>3, <1>0 DEF Compare, Goto, storeVars, indexVars, callVars, history, SeenFrom,
     CallsOK
<1>4. ASSUME NEW w \in Workers, Download(w) PROVE Goal
  BY <1>4, <1>0 DEF Download, Goto, storeVars, indexVars, callVars, history, SeenFrom,
     CallsOK
<1>5. ASSUME NEW w \in Workers, Replace(w) PROVE Goal
  BY <1>5, <1>0 DEF Replace, Goto, storeVars, indexVars, callVars, history, SeenFrom,
     CallsOK
<1>6. ASSUME NEW w \in Workers, Rename(w) PROVE Goal
  BY <1>6, <1>0 DEF Rename, Goto, storeVars, indexVars, callVars, history, SeenFrom,
     CallsOK
<1>7. ASSUME NEW w \in Workers, Finish(w) PROVE Goal
  BY <1>7, <1>0 DEF Finish, Goto, storeVars, indexVars, callVars, history, SeenFrom,
     CallsOK
<1>8. ASSUME NEW w \in Workers, Close(w) PROVE Goal
  <2>0. TInv
    BY DEF SInv
  <2>1. /\ pc[w] = "close"
        /\ \A v \in Workers :
              IF v = w \/ (pc[v] = "wait" /\ leader[v] = w)
              THEN IF failed[w] THEN pc'[v] = "idle" /\ seen'[v] = 0
                   ELSE pc'[v] = "use" /\ seen'[v] = seen[w] /\ job'[v] = job[v]
              ELSE pc'[v] = pc[v] /\ seen'[v] = seen[v] /\ job'[v] = job[v]
    BY <1>8, <2>0, CloseFacts
  <2>2. \A v \in Workers : pc[v] = "wait" /\ leader[v] = w => job[v] = job[w]
    BY DEF SInv, WaiterFollows
  <2> SUFFICES ASSUME NEW v \in Workers, pc'[v] # "idle" PROVE SeenFrom(v)
    OBVIOUS
  <2>3. CASE v = w \/ (pc[v] = "wait" /\ leader[v] = w)
    BY <2>1, <2>2, <2>3 DEF SeenFrom
  <2>4. CASE ~(v = w \/ (pc[v] = "wait" /\ leader[v] = w))
    BY <2>1, <2>4 DEF SeenFrom
  <2> QED
    BY <2>3, <2>4
<1>9. ASSUME NEW w \in Workers, Release(w) PROVE Goal
  BY <1>9, <1>0 DEF Release, Goto, storeVars, indexVars, callVars, history, SeenFrom,
     CallsOK
<1>10. ASSUME NEW p \in Problems, RemoveBegins(p) PROVE Goal
  BY <1>10, <1>0 DEF RemoveBegins, storeVars, indexVars, callVars, history, SeenFrom
<1>11. ASSUME NEW p \in Problems, RemoveEnds(p) PROVE Goal
  BY <1>11, <1>0 DEF RemoveEnds, storeVars, indexVars, callVars, history, SeenFrom
<1>12. ASSUME NEW p \in Problems, Upload(p) PROVE Goal
  BY <1>12, <1>0 DEF Upload, storeVars, indexVars, callVars, history, SeenFrom
<1>13. ASSUME NEW p \in Problems, Expire(p) PROVE Goal
  BY <1>13, <1>0 DEF Expire, storeVars, indexVars, callVars, history, SeenFrom
<1>14. CASE Crash
  BY <1>14, <1>0 DEF Crash, storeVars, indexVars, callVars, history, SeenFrom, CallsOK
<1>15. CASE Prune
  BY <1>15, <1>0 DEF Prune, storeVars, indexVars, callVars, history, SeenFrom
<1>16. CASE UNCHANGED vars
  BY <1>16, <1>0 DEF vars, storeVars, indexVars, callVars, history, SeenFrom
<1> QED
  BY <1>1, <1>2, <1>3, <1>4, <1>5, <1>6, <1>7, <1>8, <1>9, <1>10, <1>11, <1>12, <1>13,
     <1>14, <1>15, <1>16 DEF Next, Refresh

\* Refreshes go on only so.
LEMMA ValidatingStep ==
    SInv /\ [Next]_vars =>
        \A v \in Workers : pc'[v] \in Validating => ValidatingFrom(v)
<1> DEFINE Goal == \A v \in Workers : pc'[v] \in Validating => ValidatingFrom(v)
<1> SUFFICES ASSUME SInv, [Next]_vars PROVE Goal
  OBVIOUS
<1>0. StoreOK /\ EntriesOK /\ CallsOK /\ JobsOK /\ SlotOwned /\ Versions \subseteq Nat
  BY VersionFacts DEF SInv, TInv
<1>1. ASSUME NEW w \in Workers, NEW p \in Problems, EnsureTestcases(w, p) PROVE Goal
  <2>1. \A v \in Workers \ {w} : pc'[v] = pc[v] /\ job'[v] = job[v] /\ seen'[v] = seen[v]
    BY <1>1, <1>0 DEF EnsureTestcases, FastPath, Join, Lead, Goto, CallsOK
  <2>2. pc'[w] \in {"use", "wait", "stat"}
    BY <1>1, <1>0 DEF EnsureTestcases, FastPath, Join, Lead, Goto, CallsOK
  <2> QED
    BY <2>1, <2>2, <1>0 DEF ValidatingFrom, JobsOK, Validating
<1>2. ASSUME NEW w \in Workers, Stat(w) PROVE Goal
  <2>1. /\ \A v \in Workers \ {w} : pc'[v] = pc[v] /\ job'[v] = job[v] /\ seen'[v] = seen[v]
        /\ job'[w] = job[w] /\ job[w] \in Problems
    BY <1>2, <1>0 DEF Stat, Goto, CallsOK, JobsOK
  <2>2. pc'[w] \in Validating => ValidatingFrom(w)
    BY <2>1, <1>2, <1>0 DEF Stat, Goto, CallsOK, Validating, ValidatingFrom, UpToDate,
                             storeVars, indexVars
  <2> QED
    BY <2>1, <2>2, <1>0 DEF ValidatingFrom, JobsOK, Validating
<1>3. ASSUME NEW w \in Workers, Compare(w) PROVE Goal
  <2>1. /\ \A v \in Workers \ {w} : pc'[v] = pc[v] /\ job'[v] = job[v] /\ seen'[v] = seen[v]
        /\ job'[w] = job[w] /\ job[w] \in Problems
    BY <1>3, <1>0 DEF Compare, Goto, CallsOK, JobsOK
  <2>2. pc'[w] \in Validating => ValidatingFrom(w)
    BY <2>1, <1>3, <1>0 DEF Compare, Goto, CallsOK, Validating, ValidatingFrom, UpToDate,
                             storeVars, indexVars
  <2> QED
    BY <2>1, <2>2, <1>0 DEF ValidatingFrom, JobsOK, Validating
<1>4. ASSUME NEW w \in Workers, Download(w) PROVE Goal
  <2>1. /\ \A v \in Workers \ {w} : pc'[v] = pc[v] /\ job'[v] = job[v] /\ seen'[v] = seen[v]
        /\ job'[w] = job[w] /\ job[w] \in Problems
    BY <1>4, <1>0 DEF Download, Goto, CallsOK, JobsOK
  <2>2. pc'[w] \in Validating => ValidatingFrom(w)
    BY <2>1, <1>4, <1>0 DEF Download, Goto, CallsOK, Validating, ValidatingFrom, UpToDate,
                             storeVars, indexVars
  <2> QED
    BY <2>1, <2>2, <1>0 DEF ValidatingFrom, JobsOK, Validating
<1>5. ASSUME NEW w \in Workers, Replace(w) PROVE Goal
  <2>1. /\ \A v \in Workers \ {w} : pc'[v] = pc[v] /\ job'[v] = job[v] /\ seen'[v] = seen[v]
        /\ job'[w] = job[w] /\ job[w] \in Problems
    BY <1>5, <1>0 DEF Replace, Goto, CallsOK, JobsOK
  <2>2. pc'[w] \in Validating => ValidatingFrom(w)
    BY <2>1, <1>5, <1>0 DEF Replace, Goto, CallsOK, Validating, ValidatingFrom, UpToDate,
                             storeVars, indexVars
  <2> QED
    BY <2>1, <2>2, <1>0 DEF ValidatingFrom, JobsOK, Validating
<1>6. ASSUME NEW w \in Workers, Rename(w) PROVE Goal
  <2>1. /\ \A v \in Workers \ {w} : pc'[v] = pc[v] /\ job'[v] = job[v] /\ seen'[v] = seen[v]
        /\ job'[w] = job[w] /\ job[w] \in Problems
    BY <1>6, <1>0 DEF Rename, Goto, CallsOK, JobsOK
  <2>2. pc'[w] \in Validating => ValidatingFrom(w)
    BY <2>1, <1>6, <1>0 DEF Rename, Goto, CallsOK, Validating, ValidatingFrom, UpToDate,
                             storeVars, indexVars
  <2> QED
    BY <2>1, <2>2, <1>0 DEF ValidatingFrom, JobsOK, Validating
<1>7. ASSUME NEW w \in Workers, Finish(w) PROVE Goal
  <2>1. /\ \A v \in Workers \ {w} : pc'[v] = pc[v] /\ job'[v] = job[v] /\ seen'[v] = seen[v]
        /\ pc'[w] \notin Validating
    BY <1>7, <1>0 DEF Finish, Goto, CallsOK, Validating
  <2> QED
    BY <2>1, <1>0 DEF ValidatingFrom, JobsOK, Validating
<1>8. ASSUME NEW w \in Workers, Close(w) PROVE Goal
  <2>0. TInv
    BY DEF SInv
  <2>1. \A v \in Workers :
           \/ pc'[v] = pc[v] /\ job'[v] = job[v] /\ seen'[v] = seen[v]
           \/ pc'[v] \in {"idle", "use"}
    BY <1>8, <2>0, CloseFacts
  <2> QED
    BY <2>1, <1>0 DEF ValidatingFrom, JobsOK, Validating
<1>9. ASSUME NEW w \in Workers, Release(w) PROVE Goal
  <2>1. /\ \A v \in Workers \ {w} : pc'[v] = pc[v] /\ job'[v] = job[v] /\ seen'[v] = seen[v]
        /\ pc'[w] \notin Validating
    BY <1>9, <1>0 DEF Release, Goto, CallsOK, Validating
  <2> QED
    BY <2>1, <1>0 DEF ValidatingFrom, JobsOK, Validating
<1>10. ASSUME NEW p \in Problems, RemoveBegins(p) PROVE Goal
  BY <1>10, <1>0 DEF RemoveBegins, storeVars, indexVars, callVars, history,
     ValidatingFrom, JobsOK, Validating
<1>11. ASSUME NEW p \in Problems, RemoveEnds(p) PROVE Goal
  BY <1>11, <1>0 DEF RemoveEnds, storeVars, indexVars, callVars, history,
     ValidatingFrom, JobsOK, Validating
<1>12. ASSUME NEW p \in Problems, Upload(p) PROVE Goal
  BY <1>12, <1>0 DEF Upload, storeVars, indexVars, callVars, history, ValidatingFrom,
     JobsOK, Validating
<1>13. ASSUME NEW p \in Problems, Expire(p) PROVE Goal
  BY <1>13, <1>0 DEF Expire, storeVars, indexVars, callVars, history, ValidatingFrom,
     JobsOK, Validating
<1>14. CASE Crash
  BY <1>14, <1>0 DEF Crash, storeVars, indexVars, callVars, history, ValidatingFrom,
     JobsOK, Validating
<1>15. CASE Prune
  BY <1>15, <1>0 DEF Prune, storeVars, indexVars, callVars, history, ValidatingFrom,
     JobsOK, Validating
<1>16. CASE UNCHANGED vars
  BY <1>16, <1>0 DEF vars, storeVars, indexVars, callVars, history, ValidatingFrom,
     JobsOK, Validating
<1> QED
  BY <1>1, <1>2, <1>3, <1>4, <1>5, <1>6, <1>7, <1>8, <1>9, <1>10, <1>11, <1>12, <1>13,
     <1>14, <1>15, <1>16 DEF Next, Refresh

\* Before Stat a call has seen nothing.
LEMMA NothingYetStep ==
    SInv /\ NothingAhead /\ [Next]_vars =>
        \A v \in Workers : pc'[v] \in {"idle", "wait", "stat"} => seen'[v] = 0
<1> DEFINE Goal == \A v \in Workers : pc'[v] \in {"idle", "wait", "stat"} => seen'[v] = 0
<1> SUFFICES ASSUME SInv, NothingAhead, [Next]_vars PROVE Goal
  OBVIOUS
<1>0. /\ CallsOK
      /\ \A v \in Workers : pc[v] \in {"idle", "wait", "stat"} => seen[v] = 0
  BY DEF SInv, TInv, NothingAhead
<1>1. ASSUME NEW w \in Workers, NEW p \in Problems, EnsureTestcases(w, p) PROVE Goal
  BY <1>1, <1>0 DEF EnsureTestcases, FastPath, Join, Lead, Goto, storeVars, indexVars,
     callVars, history, CallsOK
<1>2. ASSUME NEW w \in Workers, Stat(w) PROVE Goal
  BY <1>2, <1>0 DEF Stat, Goto, storeVars, indexVars, callVars, history, CallsOK
<1>3. ASSUME NEW w \in Workers, Compare(w) PROVE Goal
  BY <1>3, <1>0 DEF Compare, Goto, storeVars, indexVars, callVars, history, CallsOK
<1>4. ASSUME NEW w \in Workers, Download(w) PROVE Goal
  BY <1>4, <1>0 DEF Download, Goto, storeVars, indexVars, callVars, history, CallsOK
<1>5. ASSUME NEW w \in Workers, Replace(w) PROVE Goal
  BY <1>5, <1>0 DEF Replace, Goto, storeVars, indexVars, callVars, history, CallsOK
<1>6. ASSUME NEW w \in Workers, Rename(w) PROVE Goal
  BY <1>6, <1>0 DEF Rename, Goto, storeVars, indexVars, callVars, history, CallsOK
<1>7. ASSUME NEW w \in Workers, Finish(w) PROVE Goal
  BY <1>7, <1>0 DEF Finish, Goto, storeVars, indexVars, callVars, history, CallsOK
<1>8. ASSUME NEW w \in Workers, Close(w) PROVE Goal
  <2>1. \A v \in Workers : \/ pc'[v] = pc[v] /\ seen'[v] = seen[v]
                           \/ pc'[v] = "idle" /\ seen'[v] = 0
                           \/ pc'[v] = "use"
    BY <1>8, CloseFacts DEF SInv
  <2> QED
    BY <2>1, <1>0
<1>9. ASSUME NEW w \in Workers, Release(w) PROVE Goal
  BY <1>9, <1>0 DEF Release, Goto, storeVars, indexVars, callVars, history, CallsOK
<1>10. ASSUME NEW p \in Problems, RemoveBegins(p) PROVE Goal
  BY <1>10, <1>0 DEF RemoveBegins, storeVars, indexVars, callVars, history, CallsOK
<1>11. ASSUME NEW p \in Problems, RemoveEnds(p) PROVE Goal
  BY <1>11, <1>0 DEF RemoveEnds, storeVars, indexVars, callVars, history, CallsOK
<1>12. ASSUME NEW p \in Problems, Upload(p) PROVE Goal
  BY <1>12, <1>0 DEF Upload, storeVars, indexVars, callVars, history, CallsOK
<1>13. ASSUME NEW p \in Problems, Expire(p) PROVE Goal
  BY <1>13, <1>0 DEF Expire, storeVars, indexVars, callVars, history, CallsOK
<1>14. CASE Crash
  BY <1>14, <1>0 DEF Crash, storeVars, indexVars, callVars, history, CallsOK
<1>15. CASE Prune
  BY <1>15, <1>0 DEF Prune, storeVars, indexVars, callVars, history, CallsOK
<1>16. CASE UNCHANGED vars
  BY <1>16, <1>0 DEF vars, storeVars, indexVars, callVars, history, CallsOK
<1> QED
  BY <1>1, <1>2, <1>3, <1>4, <1>5, <1>6, <1>7, <1>8, <1>9, <1>10, <1>11, <1>12, <1>13,
     <1>14, <1>15, <1>16 DEF Next, Refresh

\* Nothing gets ahead of MinIO.
LEMMA NothingAheadStep == NInv /\ [Next]_vars => NothingAhead'
<1> SUFFICES ASSUME NInv, [Next]_vars PROVE NothingAhead'
  OBVIOUS
<1>0. SInv /\ TInv /\ SInv' /\ TInv' /\ NothingAhead /\ StagedCurrent
  BY SInvStep DEF NInv, SInv
<1>1. /\ \A p \in Problems : DirMoves(p) /\ EntryMoves(p)
      /\ \A v \in Workers : pc'[v] # "idle" => SeenFrom(v)
  BY <1>0, DirStep, EntryStep, SeenStep
<1>2. \A p \in Problems : /\ remote[p] \in Nat /\ remote'[p] \in Nat /\ entry[p].etag \in Nat
                          /\ entry'[p].etag \in Nat
                          /\ disk[p].etag \in Nat /\ disk[p].files \in Nat
                          /\ disk'[p].etag \in Nat /\ disk'[p].files \in Nat
  BY <1>0, VersionFacts DEF TInv, StoreOK, EntriesOK
<1>3. \A w \in Workers : seen[w] \in Nat /\ seen'[w] \in Nat
  BY <1>0, VersionFacts DEF TInv, CallsOK
<1>4. ASSUME NEW p \in Problems
      PROVE  /\ entry'[p].etag <= remote'[p]
             /\ disk'[p].etag <= disk'[p].files
             /\ disk'[p].files <= remote'[p]
  <2>1. /\ entry[p].etag <= remote[p] /\ disk[p].etag <= disk[p].files /\ disk[p].files <= remote[p]
        /\ remote[p] <= remote'[p]
    BY <1>0, <1>1 DEF NothingAhead, DirMoves
  <2>2. disk'[p].etag <= disk'[p].files /\ disk'[p].files <= remote'[p]
    <3>1. CASE DirKept(p)
      <4>1. CASE disk'[p] = NoDir
        BY <4>1, <1>2, VersionFacts
      <4>2. CASE disk'[p].files = disk[p].files
        BY <4>2, <3>1, <2>1, <1>2 DEF DirKept
      <4> QED
        BY <4>1, <4>2, <3>1 DEF DirKept
    <3>2. CASE DirInstalled(p)
      <4>1. PICK w \in Workers : pc[w] = "rename" /\ job[w] = p /\ disk'[p] = staged[w]
                                 /\ UNCHANGED remote
        BY <3>2 DEF DirInstalled
      <4>2. staged[w].etag = seen[w] /\ seen[w] <= staged[w].files /\ staged[w].files <= remote[p]
        BY <4>1, <1>0 DEF StagedCurrent
      <4> QED
        BY <4>1, <4>2
    <3> QED
      BY <3>1, <3>2, <1>1 DEF DirMoves
  <2>3. entry'[p].etag <= remote'[p]
    <3>1. CASE entry'[p].etag \in {0, entry[p].etag}
      BY <3>1, <2>1, <1>2
    <3>2. CASE entry'[p].etag = disk[p].etag
      BY <3>2, <2>1, <1>2
    <3> QED
      BY <3>1, <3>2, <1>1 DEF EntryMoves
  <2> QED
    BY <2>2, <2>3
<1>5. ASSUME NEW v \in Workers, pc'[v] # "idle" PROVE seen'[v] <= remote'[job'[v]]
  <2>1. SeenFrom(v) /\ job'[v] \in Problems
    BY <1>0, <1>1, <1>5 DEF TInv, JobsOK
  <2>2. \A u \in Workers : pc[u] # "idle" => job[u] \in Problems /\ seen[u] <= remote[job[u]]
    BY <1>0 DEF TInv, JobsOK, NothingAhead
  <2>3. \A p \in Problems : remote[p] <= remote'[p] /\ entry[p].etag <= remote[p]
    BY <1>0, <1>1 DEF DirMoves, NothingAhead
  <2>4. CASE seen'[v] = 0
    BY <2>1, <2>4, <1>2
  <2>5. CASE seen'[v] = seen[v] /\ job'[v] = job[v] /\ pc[v] # "idle"
    BY <2>1, <2>2, <2>3, <2>5, <1>2, <1>3
  <2>6. CASE seen'[v] = remote[job[v]] /\ job'[v] = job[v]
    BY <2>1, <2>3, <2>6, <1>2
  <2>7. CASE seen'[v] = entry[job'[v]].etag
    BY <2>1, <2>3, <2>7, <1>2
  <2>8. CASE \E u \in Workers : pc[u] # "idle" /\ job'[v] = job[u] /\ seen'[v] = seen[u]
    <3>1. PICK u \in Workers : pc[u] # "idle" /\ job'[v] = job[u] /\ seen'[v] = seen[u]
      BY <2>8
    <3> QED
      BY <3>1, <2>1, <2>2, <2>3, <1>2, <1>3
  <2> QED
    BY <2>1, <2>4, <2>5, <2>6, <2>7, <2>8 DEF SeenFrom
<1>6. \A w \in Workers : pc'[w] \in {"idle", "wait", "stat"} => seen'[w] = 0
  BY <1>0, NothingYetStep
<1> QED
  BY <1>4, <1>5, <1>6 DEF NothingAhead

\* What a refresh saw stays the newest.
LEMMA SawNewestStep == NInv /\ [Next]_vars => SawNewest'
<1> SUFFICES ASSUME NInv, [Next]_vars, NEW v \in Workers, pc'[v] \in Validating
             PROVE  /\ seen'[v] # 0
                    /\ entry'[job'[v]].etag <= seen'[v]
                    /\ disk'[job'[v]].etag <= seen'[v]
                    /\ pc'[v] # "compare" => disk'[job'[v]].etag < seen'[v]
                    /\ \A u \in Workers :
                          pc'[u] # "idle" /\ job'[u] = job'[v] => seen'[u] <= seen'[v]
  BY DEF SawNewest
<1>0. SInv /\ TInv /\ TInv' /\ NothingAhead /\ SawNewest /\ SlotOwned
  BY SInvStep DEF NInv, SInv
<1>1. /\ \A p \in Problems : DirMoves(p) /\ EntryMoves(p)
      /\ \A u \in Workers : pc'[u] # "idle" => SeenFrom(u)
      /\ ValidatingFrom(v)
  BY <1>0, DirStep, EntryStep, SeenStep, ValidatingStep
<1> DEFINE p == job[v]
<1>p. p \in Problems /\ job'[v] = p
  BY <1>1 DEF ValidatingFrom
<1>2. /\ remote[p] \in Nat /\ entry[p].etag \in Nat /\ entry'[p].etag \in Nat
      /\ disk[p].etag \in Nat /\ disk'[p].etag \in Nat /\ disk[p].files \in Nat
  BY <1>0, <1>p, VersionFacts DEF TInv, StoreOK, EntriesOK
<1>3. \A u \in Workers : seen[u] \in Nat /\ seen'[u] \in Nat
  BY <1>0, VersionFacts DEF TInv, CallsOK
<1>v. pc[v] \in InRefresh /\ \A u \in Workers : pc[u] \in InRefresh /\ job[u] = p => u = v
  BY <1>0, <1>1 DEF SlotOwned, ValidatingFrom, InRefresh, Validating
<1> HIDE DEF p
<1>4. CASE pc[v] \in Validating /\ seen'[v] = seen[v]
  <2>1. /\ seen[v] # 0 /\ entry[p].etag <= seen[v] /\ disk[p].etag <= seen[v]
        /\ pc[v] # "compare" => disk[p].etag < seen[v]
        /\ \A u \in Workers : pc[u] # "idle" /\ job[u] = p => seen[u] <= seen[v]
    BY <1>0, <1>4 DEF SawNewest, p
  <2>2. entry'[p].etag <= seen[v]
    <3>1. entry'[p].etag \in {0, entry[p].etag}
      BY <1>1, <1>p DEF EntryMoves
    <3> QED
      BY <3>1, <2>1, <1>2, <1>3
  <2>3. DirKept(p)
    <3>1. ASSUME DirInstalled(p) PROVE FALSE
      <4>1. PICK w \in Workers : pc[w] = "rename" /\ job[w] = p /\ pc'[w] = "finish"
        BY <3>1 DEF DirInstalled
      <4>2. w = v
        BY <4>1, <1>v DEF InRefresh
      <4> QED
        BY <4>1, <4>2 DEF Validating
    <3> QED
      BY <3>1, <1>1, <1>p DEF DirMoves
  <2>4. disk'[p].etag <= seen[v] /\ (disk[p].etag < seen[v] => disk'[p].etag < seen[v])
    <3>1. disk'[p].etag \in {0, disk[p].etag}
      BY <2>3 DEF DirKept
    <3>2. seen[v] > 0
      BY <2>1, <1>3
    <3> QED
      BY <3>1, <3>2, <2>1, <1>2, <1>3
  <2>5. ASSUME pc'[v] # "compare" PROVE disk'[p].etag < seen[v]
    <3>1. CASE pc[v] # "compare"
      BY <3>1, <2>1, <2>4
    <3>2. CASE pc[v] = "compare"
      <4>1. disk[p].etag # seen[v]
        BY <3>2, <2>5, <1>1, <1>4 DEF ValidatingFrom, p, Validating
      <4>2. disk[p].etag < seen[v]
        BY <4>1, <2>1, <1>2, <1>3
      <4> QED
        BY <4>2, <2>4
    <3> QED
      BY <3>1, <3>2
  <2>6. ASSUME NEW u \in Workers, pc'[u] # "idle", job'[u] = p PROVE seen'[u] <= seen[v]
    <3>1. SeenFrom(u)
      BY <2>6, <1>1
    <3>2. CASE seen'[u] = 0
      BY <3>2, <1>3
    <3>3. CASE seen'[u] = seen[u] /\ job'[u] = job[u] /\ pc[u] # "idle"
      BY <3>3, <2>1, <2>6
    <3>4. CASE pc[u] = "stat" /\ job'[u] = job[u]
      BY <3>4, <2>6, <1>v, <1>4 DEF InRefresh, Validating
    <3>5. CASE seen'[u] = entry[job'[u]].etag
      BY <3>5, <2>6, <2>1
    <3>6. CASE \E x \in Workers : pc[x] # "idle" /\ job'[u] = job[x] /\ seen'[u] = seen[x]
      BY <3>6, <2>6, <2>1
    <3> QED
      BY <3>1, <3>2, <3>3, <3>4, <3>5, <3>6 DEF SeenFrom
  <2> QED
    BY <2>1, <2>2, <2>4, <2>5, <2>6, <1>4, <1>p
<1>5. CASE pc[v] = "stat"
  <2>1. /\ pc'[v] = "compare" /\ seen'[v] = remote[p] /\ remote[p] # 0
        /\ UNCHANGED <<remote, disk, entry>>
        /\ \A u \in Workers \ {v} : pc'[u] = pc[u] /\ seen'[u] = seen[u] /\ job'[u] = job[u]
    BY <1>5, <1>1 DEF ValidatingFrom, Validating, p
  <2>2. entry[p].etag <= remote[p] /\ disk[p].etag <= disk[p].files /\ disk[p].files <= remote[p]
    BY <1>0, <1>p DEF NothingAhead
  <2>3. disk[p].etag <= remote[p]
    BY <2>2, <1>2
  <2>4. ASSUME NEW u \in Workers, pc'[u] # "idle", job'[u] = p PROVE seen'[u] <= seen'[v]
    <3>1. CASE u = v
      BY <3>1, <1>3
    <3>2. CASE u # v
      <4>1. seen[u] <= remote[job[u]] /\ job[u] = p /\ seen'[u] = seen[u]
        BY <3>2, <2>1, <2>4, <1>0 DEF NothingAhead
      <4> QED
        BY <4>1, <2>1
    <3> QED
      BY <3>1, <3>2
  <2> QED
    BY <2>1, <2>2, <2>3, <2>4, <1>p
<1> QED
  BY <1>1, <1>4, <1>5 DEF ValidatingFrom

\* What is staged stays current.
LEMMA StagedStep ==
    NInv /\ [Next]_vars => StagedCurrent'
<1> SUFFICES ASSUME NInv, [Next]_vars PROVE StagedCurrent'
  OBVIOUS
<1>0. StoreOK /\ CallsOK /\ JobsOK /\ StagedCurrent /\ NothingAhead /\ Versions \subseteq Nat
  BY VersionFacts DEF NInv, SInv, TInv
<1>1. ASSUME NEW w \in Workers, NEW p \in Problems, EnsureTestcases(w, p) PROVE StagedCurrent'
  <2>1. \A v \in Workers \ {w} : pc'[v] = pc[v] /\ job'[v] = job[v] /\ seen'[v] = seen[v]
    BY <1>1, <1>0 DEF EnsureTestcases, FastPath, Join, Lead, Goto, CallsOK
  <2>2. pc'[w] \in {"use", "wait", "stat"}
    BY <1>1, <1>0 DEF EnsureTestcases, FastPath, Join, Lead, Goto, CallsOK
  <2>3. UNCHANGED <<remote, staged>>
    BY <1>1 DEF EnsureTestcases, storeVars
  <2> QED
    BY <2>1, <2>2, <2>3, <1>0 DEF StagedCurrent
<1>2. ASSUME NEW w \in Workers, Stat(w) PROVE StagedCurrent'
  <2>1. \A v \in Workers \ {w} : /\ pc'[v] = pc[v] /\ job'[v] = job[v]
                                  /\ seen'[v] = seen[v] /\ staged'[v] = staged[v]
    BY <1>2, <1>0 DEF Stat, Goto, CallsOK
  <2>2. pc'[w] \notin {"replace", "rename"}
    BY <1>2, <1>0 DEF Stat, Goto, CallsOK
  <2>3. UNCHANGED remote
    BY <1>2 DEF Stat, storeVars
  <2> QED
    BY <2>1, <2>2, <2>3, <1>0 DEF StagedCurrent
<1>3. ASSUME NEW w \in Workers, Compare(w) PROVE StagedCurrent'
  <2>1. \A v \in Workers \ {w} : /\ pc'[v] = pc[v] /\ job'[v] = job[v]
                                  /\ seen'[v] = seen[v] /\ staged'[v] = staged[v]
    BY <1>3, <1>0 DEF Compare, Goto, CallsOK
  <2>2. pc'[w] \notin {"replace", "rename"}
    BY <1>3, <1>0 DEF Compare, Goto, CallsOK
  <2>3. UNCHANGED remote
    BY <1>3 DEF Compare, storeVars
  <2> QED
    BY <2>1, <2>2, <2>3, <1>0 DEF StagedCurrent
<1>4. ASSUME NEW w \in Workers, Download(w) PROVE StagedCurrent'
  <2> DEFINE d == [etag |-> seen[w], files |-> remote[job[w]], whole |-> TRUE]
  <2>0. /\ pc[w] = "download" /\ job[w] \in Problems /\ seen[w] <= remote[job[w]]
        /\ remote[job[w]] \in Nat
    BY <1>4, <1>0 DEF Download, JobsOK, NothingAhead, StoreOK
  <2>1. /\ UNCHANGED <<remote, job, seen>>
        /\ \/ staged' = [staged EXCEPT ![w] = d] /\ pc' = [pc EXCEPT ![w] = "replace"]
           \/ UNCHANGED staged /\ pc' = [pc EXCEPT ![w] = "finish"]
    BY <1>4 DEF Download, Goto, storeVars
  <2>2. d.etag = seen[w] /\ d.files = remote[job[w]] /\ d.whole
    OBVIOUS
  <2> HIDE DEF d
  <2>3. \A v \in Workers \ {w} : pc'[v] = pc[v] /\ staged'[v] = staged[v]
    BY <2>1, <1>0 DEF CallsOK
  <2>4. pc'[w] \in {"replace", "rename"} => staged'[w] = d
    BY <2>1, <1>0 DEF CallsOK
  <2>5. remote[job[w]] <= remote[job[w]]
    BY <2>0
  <2> QED
    BY <2>0, <2>1, <2>2, <2>3, <2>4, <2>5, <1>0 DEF StagedCurrent
<1>5. ASSUME NEW w \in Workers, Replace(w) PROVE StagedCurrent'
  <2>1. /\ pc[w] = "replace" /\ UNCHANGED <<remote, job, seen, staged>>
        /\ \A v \in Workers \ {w} : pc'[v] = pc[v]
    BY <1>5, <1>0 DEF Replace, Goto, CallsOK
  <2> QED
    BY <2>1, <1>0 DEF StagedCurrent
<1>6. ASSUME NEW w \in Workers, Rename(w) PROVE StagedCurrent'
  <2>1. \A v \in Workers \ {w} : /\ pc'[v] = pc[v] /\ job'[v] = job[v]
                                  /\ seen'[v] = seen[v] /\ staged'[v] = staged[v]
    BY <1>6, <1>0 DEF Rename, Goto, CallsOK
  <2>2. pc'[w] \notin {"replace", "rename"}
    BY <1>6, <1>0 DEF Rename, Goto, CallsOK
  <2>3. UNCHANGED remote
    BY <1>6 DEF Rename, storeVars
  <2> QED
    BY <2>1, <2>2, <2>3, <1>0 DEF StagedCurrent
<1>7. ASSUME NEW w \in Workers, Finish(w) PROVE StagedCurrent'
  <2>1. \A v \in Workers \ {w} : /\ pc'[v] = pc[v] /\ job'[v] = job[v]
                                  /\ seen'[v] = seen[v] /\ staged'[v] = staged[v]
    BY <1>7, <1>0 DEF Finish, Goto, CallsOK
  <2>2. pc'[w] \notin {"replace", "rename"}
    BY <1>7, <1>0 DEF Finish, Goto, CallsOK
  <2>3. UNCHANGED remote
    BY <1>7 DEF Finish, storeVars
  <2> QED
    BY <2>1, <2>2, <2>3, <1>0 DEF StagedCurrent
<1>8. ASSUME NEW w \in Workers, Close(w) PROVE StagedCurrent'
  <2>1. /\ UNCHANGED <<remote, staged>>
        /\ \A v \in Workers : \/ pc'[v] = pc[v] /\ job'[v] = job[v] /\ seen'[v] = seen[v]
                              \/ pc'[v] \in {"idle", "use"}
    BY <1>8, CloseFacts DEF NInv, SInv, storeVars
  <2> QED
    BY <2>1, <1>0 DEF StagedCurrent
<1>9. ASSUME NEW w \in Workers, Release(w) PROVE StagedCurrent'
  <2>1. \A v \in Workers \ {w} : /\ pc'[v] = pc[v] /\ job'[v] = job[v]
                                  /\ seen'[v] = seen[v] /\ staged'[v] = staged[v]
    BY <1>9, <1>0 DEF Release, Goto, CallsOK
  <2>2. pc'[w] \notin {"replace", "rename"}
    BY <1>9, <1>0 DEF Release, Goto, CallsOK
  <2>3. UNCHANGED remote
    BY <1>9 DEF Release, storeVars
  <2> QED
    BY <2>1, <2>2, <2>3, <1>0 DEF StagedCurrent
<1>10. ASSUME NEW p \in Problems, RemoveBegins(p) PROVE StagedCurrent'
  BY <1>10, <1>0 DEF RemoveBegins, storeVars, indexVars, callVars, history,
     StagedCurrent
<1>11. ASSUME NEW p \in Problems, RemoveEnds(p) PROVE StagedCurrent'
  BY <1>11, <1>0 DEF RemoveEnds, storeVars, indexVars, callVars, history, StagedCurrent
<1>12. ASSUME NEW p \in Problems, Upload(p) PROVE StagedCurrent'
  <2>1. UNCHANGED <<pc, job, seen, staged>> /\ remote' = [remote EXCEPT ![p] = remote[p] + 1]
    BY <1>12 DEF Upload, callVars
  <2>2. \A q \in Problems : remote[q] \in Nat
    BY <1>0 DEF StoreOK
  <2>3. \A q \in Problems : remote[q] <= remote'[q] /\ remote'[q] \in Nat
    BY <2>1, <2>2, <1>0 DEF StoreOK
  <2>4. \A w \in Workers : staged[w].files \in Nat
    BY <1>0, VersionFacts DEF CallsOK
  <2>5. ASSUME NEW w \in Workers, pc[w] \in {"replace", "rename"}
        PROVE  staged[w].files <= remote'[job[w]]
    <3>1. job[w] \in Problems /\ staged[w].files <= remote[job[w]]
      BY <2>5, <1>0 DEF JobsOK, StagedCurrent
    <3> QED
      BY <3>1, <2>2, <2>3, <2>4
  <2> QED
    BY <2>1, <2>5, <1>0 DEF StagedCurrent
<1>13. ASSUME NEW p \in Problems, Expire(p) PROVE StagedCurrent'
  BY <1>13, <1>0 DEF Expire, storeVars, indexVars, callVars, history, StagedCurrent
<1>14. CASE Crash
  BY <1>14, <1>0 DEF Crash, storeVars, indexVars, callVars, history, StagedCurrent
<1>15. CASE Prune
  BY <1>15, <1>0 DEF Prune, storeVars, indexVars, callVars, history, StagedCurrent
<1>16. CASE UNCHANGED vars
  BY <1>16, <1>0 DEF vars, storeVars, indexVars, callVars, history, StagedCurrent
<1> QED
  BY <1>1, <1>2, <1>3, <1>4, <1>5, <1>6, <1>7, <1>8, <1>9, <1>10, <1>11, <1>12, <1>13,
     <1>14, <1>15, <1>16 DEF Next, Refresh

\* Versions, at the start.
LEMMA NInvInit == Init => NInv
<1> SUFFICES ASSUME Init PROVE NInv
  OBVIOUS
<1>1. SInv
  BY SInvInit
<1>2. NothingAhead
  BY VersionFacts DEF Init, NothingAhead
<1>3. SawNewest /\ StagedCurrent
  BY DEF Init, SawNewest, StagedCurrent, Validating
<1> QED
  BY <1>1, <1>2, <1>3 DEF NInv

\* Every step keeps the versions in order.
LEMMA NInvStep == NInv /\ [Next]_vars => NInv'
BY SInvStep, NothingAheadStep, SawNewestStep, StagedStep DEF NInv

-----------------------------------------------------------------------------
\* A goroutine removes only what was evicted.
LEMMA RemoverTaintsStep ==
    SInv /\ RemoverTaints /\ [Next]_vars => RemoverTaints'
<1> SUFFICES ASSUME SInv, RemoverTaints, [Next]_vars PROVE RemoverTaints'
  OBVIOUS
<1>0. RemoversOK /\ HistoryOK /\ RemoverTaints
  BY DEF SInv, TInv
<1>1. ASSUME NEW w \in Workers, NEW p \in Problems, EnsureTestcases(w, p) PROVE RemoverTaints'
  <2>1. UNCHANGED <<removers, tainted>>
    BY <1>1 DEF EnsureTestcases, history
  <2> QED
    BY <2>1, <1>0 DEF RemoverTaints
<1>2. ASSUME NEW w \in Workers, Stat(w) PROVE RemoverTaints'
  <2>1. UNCHANGED <<removers, tainted>>
    BY <1>2 DEF Stat, history
  <2> QED
    BY <2>1, <1>0 DEF RemoverTaints
<1>3. ASSUME NEW w \in Workers, Compare(w) PROVE RemoverTaints'
  <2>1. UNCHANGED <<removers, tainted>>
    BY <1>3 DEF Compare, history
  <2> QED
    BY <2>1, <1>0 DEF RemoverTaints
<1>4. ASSUME NEW w \in Workers, Download(w) PROVE RemoverTaints'
  <2>1. UNCHANGED <<removers, tainted>>
    BY <1>4 DEF Download, history
  <2> QED
    BY <2>1, <1>0 DEF RemoverTaints
<1>5. ASSUME NEW w \in Workers, Replace(w) PROVE RemoverTaints'
  <2>1. UNCHANGED <<removers, tainted>>
    BY <1>5 DEF Replace, history
  <2> QED
    BY <2>1, <1>0 DEF RemoverTaints
<1>6. ASSUME NEW w \in Workers, Rename(w) PROVE RemoverTaints'
  <2>1. /\ UNCHANGED removers
        /\ tainted' = tainted \cup {job[w]}
           \/ (tainted' = IF removers[job[w]] = [waiting |-> 0, working |-> 0]
                          THEN tainted \ {job[w]} ELSE tainted)
    BY <1>6 DEF Rename
  <2>2. removers[job[w]] = [waiting |-> 0, working |-> 0] =>
           removers[job[w]].waiting = 0 /\ removers[job[w]].working = 0
    OBVIOUS
  <2> QED
    BY <2>1, <2>2, <1>0 DEF RemoverTaints
<1>7. ASSUME NEW w \in Workers, Finish(w) PROVE RemoverTaints'
  <2>1. job[w] \in Problems
    BY <1>7 DEF Finish, SInv, TInv, JobsOK
  <2>2. CASE failed[w]
    BY <2>2, <1>7, <1>0 DEF Finish, RemoverTaints
  <2>3. CASE ~failed[w]
    <3>1. /\ tainted \subseteq tainted'
          /\ \A q \in Problems :
                /\ removers'[q].working = removers[q].working
                /\ removers'[q].waiting > 0 => removers[q].waiting > 0 \/ q \in tainted'
      BY <2>1, <2>3, <1>7, PromoteFacts DEF Finish, SInv, TInv
    <3> QED
      BY <3>1, <1>0 DEF RemoverTaints
  <2> QED
    BY <2>2, <2>3
<1>8. ASSUME NEW w \in Workers, Close(w) PROVE RemoverTaints'
  <2>1. UNCHANGED <<removers, tainted>>
    BY <1>8 DEF Close, history
  <2> QED
    BY <2>1, <1>0 DEF RemoverTaints
<1>9. ASSUME NEW w \in Workers, Release(w) PROVE RemoverTaints'
  <2>1. UNCHANGED <<removers, tainted>>
    BY <1>9 DEF Release, history
  <2> QED
    BY <2>1, <1>0 DEF RemoverTaints
<1>10. ASSUME NEW p \in Problems, RemoveBegins(p) PROVE RemoverTaints'
  <2>1. p \in tainted /\ UNCHANGED tainted /\ \A q \in Problems \ {p} : removers'[q] = removers[q]
    BY <1>10, <1>0 DEF RemoveBegins, RemoverTaints, RemoversOK, history
  <2> QED
    BY <2>1, <1>0 DEF RemoverTaints
<1>11. ASSUME NEW p \in Problems, RemoveEnds(p) PROVE RemoverTaints'
  <2>1. p \in tainted /\ UNCHANGED tainted /\ \A q \in Problems \ {p} : removers'[q] = removers[q]
    BY <1>11, <1>0 DEF RemoveEnds, RemoverTaints, RemoversOK, history
  <2> QED
    BY <2>1, <1>0 DEF RemoverTaints
<1>12. ASSUME NEW p \in Problems, Upload(p) PROVE RemoverTaints'
  <2>1. UNCHANGED <<removers, tainted>>
    BY <1>12 DEF Upload, history
  <2> QED
    BY <2>1, <1>0 DEF RemoverTaints
<1>13. ASSUME NEW p \in Problems, Expire(p) PROVE RemoverTaints'
  <2>1. UNCHANGED <<removers, tainted>>
    BY <1>13 DEF Expire, history
  <2> QED
    BY <2>1, <1>0 DEF RemoverTaints
<1>14. CASE Crash
  <2>1. \A q \in Problems : removers'[q] = [waiting |-> 0, working |-> 0]
    BY <1>14 DEF Crash, Idle
  <2>2. \A q \in Problems : removers'[q].waiting = 0 /\ removers'[q].working = 0
    BY <2>1
  <2> QED
    BY <2>2 DEF RemoverTaints
<1>15. CASE Prune
  <2>0. PICK found \in SUBSET OnDisk :
           /\ \E list \in SetToSeqs(found) : evictIfNeeded(list)
           /\ leaked' = OnDisk \ found
    BY <1>15 DEF Prune
  <2>1. PICK list \in SetToSeqs(found) : evictIfNeeded(list)
    BY <2>0
  <2>2. list \in Seq(Problems)
    BY FoundFacts DEF OnDisk
  <2>3. /\ tainted \subseteq tainted'
        /\ \A q \in Problems :
              /\ removers'[q].working = removers[q].working
              /\ removers'[q].waiting > 0 => removers[q].waiting > 0 \/ q \in tainted'
    BY <2>1, <2>2, <1>0, EvictFacts
  <2> QED
    BY <2>3, <1>0 DEF RemoverTaints
<1>16. CASE UNCHANGED vars
  BY <1>16, <1>0 DEF vars, storeVars, indexVars, callVars, history, RemoverTaints
<1> QED
  BY <1>1, <1>2, <1>3, <1>4, <1>5, <1>6, <1>7, <1>8, <1>9, <1>10, <1>11, <1>12, <1>13,
     <1>14, <1>15, <1>16 DEF Next, Refresh

\* Taints and whole directories change only so.
LEMMA TaintStep ==
    NInv /\ RemoverTaints /\ [Next]_vars =>
        \A q \in Problems : TaintMoves(q)
<1> DEFINE Goal == \A q \in Problems : TaintMoves(q)
<1> SUFFICES ASSUME NInv, RemoverTaints, [Next]_vars PROVE Goal
  OBVIOUS
<1>0. StoreOK /\ CallsOK /\ JobsOK /\ RemoversOK /\ HistoryOK /\ RemoverTaints
  BY DEF NInv, SInv, TInv
<1>1. ASSUME NEW w \in Workers, NEW p \in Problems, EnsureTestcases(w, p) PROVE Goal
  <2>1. UNCHANGED <<disk, tainted>>
    BY <1>1 DEF EnsureTestcases, history, storeVars
  <2> QED
    BY <2>1 DEF TaintMoves
<1>2. ASSUME NEW w \in Workers, Stat(w) PROVE Goal
  <2>1. UNCHANGED <<disk, tainted>>
    BY <1>2 DEF Stat, history, storeVars
  <2> QED
    BY <2>1 DEF TaintMoves
<1>3. ASSUME NEW w \in Workers, Compare(w) PROVE Goal
  <2>1. UNCHANGED <<disk, tainted>>
    BY <1>3 DEF Compare, history, storeVars
  <2> QED
    BY <2>1 DEF TaintMoves
<1>4. ASSUME NEW w \in Workers, Download(w) PROVE Goal
  <2>1. UNCHANGED <<disk, tainted>>
    BY <1>4 DEF Download, history, storeVars
  <2> QED
    BY <2>1 DEF TaintMoves
<1>5. ASSUME NEW w \in Workers, Replace(w) PROVE Goal
  <2>0. job[w] \in Problems /\ UNCHANGED <<tainted, job>> /\ pc'[w] = "rename"
    BY <1>5, <1>0 DEF Replace, Goto, JobsOK, CallsOK, history
  <2>1. PICK e \in {0, disk[job[w]].etag} :
           disk' = [disk EXCEPT ![job[w]].whole = FALSE, ![job[w]].etag = e]
    BY <1>5 DEF Replace
  <2>2. ~disk'[job[w]].whole /\ \A q \in Problems \ {job[w]} : disk'[q] = disk[q]
    BY <2>0, <2>1, <1>0, TornFacts
  <2> QED
    BY <2>0, <2>2 DEF TaintMoves
<1>6. ASSUME NEW w \in Workers, Rename(w) PROVE Goal
  <2>1. /\ pc[w] = "rename" /\ pc'[w] = "finish" /\ UNCHANGED remote /\ job[w] \in Problems
        /\ \/ /\ disk' = [disk EXCEPT ![job[w]] = staged[w]]
              /\ tainted \ {job[w]} \subseteq tainted'
           \/ /\ disk' = [disk EXCEPT ![job[w]] = NoDir] \/ UNCHANGED disk
              /\ tainted' = tainted \cup {job[w]}
    BY <1>6, <1>0 DEF Rename, Goto, CallsOK, JobsOK
  <2>2. \A q \in Problems \ {job[w]} : disk'[q] = disk[q] /\ (q \in tainted => q \in tainted')
    BY <2>1, <1>0 DEF StoreOK
  <2>3. \A q \in Problems \ {job[w]} : TaintMoves(q)
    BY <2>2 DEF TaintMoves
  <2>4. CASE disk' = [disk EXCEPT ![job[w]] = staged[w]]
    <3>1. disk'[job[w]] = staged[w]
      BY <2>1, <2>4, <1>0 DEF StoreOK
    <3>2. DirInstalled(job[w])
      BY <3>1, <2>1 DEF DirInstalled
    <3>3. disk[job[w]].whole /\ ~disk'[job[w]].whole => job[w] \in tainted'
      BY <3>1, <2>1 DEF NInv, StagedCurrent
    <3>4. TaintMoves(job[w])
      BY <3>2, <3>3 DEF TaintMoves
    <3> QED
      BY <3>4, <2>3
  <2>5. CASE ~(disk' = [disk EXCEPT ![job[w]] = staged[w]])
    <3>1. job[w] \in tainted' /\ (disk'[job[w]] = disk[job[w]] \/ disk'[job[w]] = NoDir)
      BY <2>1, <2>5, <1>0 DEF StoreOK
    <3>2. TaintMoves(job[w])
      BY <3>1, VersionFacts DEF TaintMoves
    <3> QED
      BY <3>2, <2>3
  <2> QED
    BY <2>4, <2>5
<1>7. ASSUME NEW w \in Workers, Finish(w) PROVE Goal
  <2>1. job[w] \in Problems /\ UNCHANGED disk
    BY <1>7, <1>0 DEF Finish, JobsOK, storeVars
  <2>2. CASE failed[w]
    BY <2>1, <2>2, <1>7 DEF Finish, TaintMoves
  <2>3. CASE ~failed[w]
    <3>1. tainted \subseteq tainted'
      BY <2>1, <2>3, <1>7, PromoteFacts DEF Finish, NInv, SInv, TInv
    <3> QED
      BY <3>1, <2>1 DEF TaintMoves
  <2> QED
    BY <2>2, <2>3
<1>8. ASSUME NEW w \in Workers, Close(w) PROVE Goal
  <2>1. UNCHANGED <<disk, tainted>>
    BY <1>8 DEF Close, history, storeVars
  <2> QED
    BY <2>1 DEF TaintMoves
<1>9. ASSUME NEW w \in Workers, Release(w) PROVE Goal
  <2>1. UNCHANGED <<disk, tainted>>
    BY <1>9 DEF Release, history, storeVars
  <2> QED
    BY <2>1 DEF TaintMoves
<1>10. ASSUME NEW p \in Problems, RemoveBegins(p) PROVE Goal
  <2>1. p \in tainted /\ UNCHANGED tainted
    BY <1>10, <1>0 DEF RemoveBegins, RemoverTaints, history
  <2>2. CASE UNCHANGED disk
    BY <2>1, <2>2 DEF TaintMoves
  <2>3. CASE disk[p] # NoDir
    <3>1. PICK e \in {0, disk[p].etag} :
             disk' = [disk EXCEPT ![p].whole = FALSE, ![p].etag = e]
      BY <1>10, <2>3 DEF RemoveBegins
    <3>2. ~disk'[p].whole /\ \A q \in Problems \ {p} : disk'[q] = disk[q]
      BY <3>1, <1>0, TornFacts
    <3> QED
      BY <3>2, <2>1 DEF TaintMoves
  <2> QED
    BY <1>10, <2>2, <2>3 DEF RemoveBegins
<1>11. ASSUME NEW p \in Problems, RemoveEnds(p) PROVE Goal
  <2>1. /\ p \in tainted /\ UNCHANGED tainted
        /\ UNCHANGED disk \/ disk' = [disk EXCEPT ![p] = NoDir]
    BY <1>11, <1>0 DEF RemoveEnds, RemoverTaints
  <2>2. /\ disk'[p] = disk[p] \/ disk'[p] = NoDir
        /\ \A q \in Problems \ {p} : disk'[q] = disk[q]
    BY <2>1, <1>0 DEF StoreOK
  <2> QED
    BY <2>1, <2>2, VersionFacts DEF TaintMoves
<1>12. ASSUME NEW p \in Problems, Upload(p) PROVE Goal
  <2>1. UNCHANGED <<disk, tainted>>
    BY <1>12 DEF Upload, history, storeVars
  <2> QED
    BY <2>1 DEF TaintMoves
<1>13. ASSUME NEW p \in Problems, Expire(p) PROVE Goal
  <2>1. UNCHANGED <<disk, tainted>>
    BY <1>13 DEF Expire, history, storeVars
  <2> QED
    BY <2>1 DEF TaintMoves
<1>14. CASE Crash
  <2>1. UNCHANGED <<disk, tainted>>
    BY <1>14 DEF Crash, history, storeVars
  <2> QED
    BY <2>1 DEF TaintMoves
<1>15. CASE Prune
  <2>0. PICK found \in SUBSET OnDisk :
           /\ \E list \in SetToSeqs(found) : evictIfNeeded(list)
           /\ leaked' = OnDisk \ found
    BY <1>15 DEF Prune
  <2>1. PICK list \in SetToSeqs(found) : evictIfNeeded(list)
    BY <2>0
  <2>2. list \in Seq(Problems)
    BY FoundFacts DEF OnDisk
  <2>3. tainted \subseteq tainted'
    BY <2>1, <2>2, <1>0, EvictFacts
  <2>4. UNCHANGED disk
    BY <1>15 DEF Prune, storeVars
  <2> QED
    BY <2>3, <2>4 DEF TaintMoves
<1>16. CASE UNCHANGED vars
  BY <1>16, <1>0 DEF vars, storeVars, indexVars, callVars, history, TaintMoves
<1> QED
  BY <1>1, <1>2, <1>3, <1>4, <1>5, <1>6, <1>7, <1>8, <1>9, <1>10, <1>11, <1>12, <1>13,
     <1>14, <1>15, <1>16 DEF Next, Refresh

\* Renames end only so.
LEMMA RenameStep ==
    SInv /\ [Next]_vars =>
        \A v \in Workers : pc[v] = "rename" => RenameMoves(v)
<1> DEFINE Goal == \A v \in Workers : pc[v] = "rename" => RenameMoves(v)
<1> SUFFICES ASSUME SInv, [Next]_vars PROVE Goal
  OBVIOUS
<1>0. StoreOK /\ CallsOK /\ JobsOK
  BY DEF SInv, TInv
<1>1. ASSUME NEW w \in Workers, NEW p \in Problems, EnsureTestcases(w, p) PROVE Goal
  BY <1>1, <1>0 DEF EnsureTestcases, FastPath, Join, Lead, Goto, storeVars, indexVars,
     callVars, history, RenameMoves, CallsOK
<1>2. ASSUME NEW w \in Workers, Stat(w) PROVE Goal
  BY <1>2, <1>0 DEF Stat, Goto, storeVars, indexVars, callVars, history, RenameMoves,
     CallsOK
<1>3. ASSUME NEW w \in Workers, Compare(w) PROVE Goal
  BY <1>3, <1>0 DEF Compare, Goto, storeVars, indexVars, callVars, history, RenameMoves,
     CallsOK
<1>4. ASSUME NEW w \in Workers, Download(w) PROVE Goal
  BY <1>4, <1>0 DEF Download, Goto, storeVars, indexVars, callVars, history,
     RenameMoves, CallsOK
<1>5. ASSUME NEW w \in Workers, Replace(w) PROVE Goal
  BY <1>5, <1>0 DEF Replace, Goto, storeVars, indexVars, callVars, history, RenameMoves,
     CallsOK
<1>6. ASSUME NEW w \in Workers, Rename(w) PROVE Goal
  <2>1. /\ job[w] \in Problems
        /\ \A v \in Workers \ {w} : pc'[v] = pc[v] /\ job'[v] = job[v]
    BY <1>6, <1>0 DEF Rename, Goto, CallsOK, JobsOK
  <2>2. disk'[job[w]] = staged[w] \/ job[w] \in tainted'
    BY <2>1, <1>6, <1>0 DEF Rename, StoreOK
  <2> QED
    BY <2>1, <2>2 DEF RenameMoves
<1>7. ASSUME NEW w \in Workers, Finish(w) PROVE Goal
  BY <1>7, <1>0 DEF Finish, Goto, storeVars, indexVars, callVars, history, RenameMoves,
     CallsOK
<1>8. ASSUME NEW w \in Workers, Close(w) PROVE Goal
  <2>1. \A v \in Workers : pc[v] = "rename" => pc'[v] = pc[v] /\ job'[v] = job[v]
    BY <1>8, CloseFacts DEF SInv
  <2> QED
    BY <2>1 DEF RenameMoves
<1>9. ASSUME NEW w \in Workers, Release(w) PROVE Goal
  BY <1>9, <1>0 DEF Release, Goto, storeVars, indexVars, callVars, history, RenameMoves,
     CallsOK
<1>10. ASSUME NEW p \in Problems, RemoveBegins(p) PROVE Goal
  BY <1>10, <1>0 DEF RemoveBegins, storeVars, indexVars, callVars, history, RenameMoves,
     CallsOK
<1>11. ASSUME NEW p \in Problems, RemoveEnds(p) PROVE Goal
  BY <1>11, <1>0 DEF RemoveEnds, storeVars, indexVars, callVars, history, RenameMoves,
     CallsOK
<1>12. ASSUME NEW p \in Problems, Upload(p) PROVE Goal
  BY <1>12, <1>0 DEF Upload, storeVars, indexVars, callVars, history, RenameMoves,
     CallsOK
<1>13. ASSUME NEW p \in Problems, Expire(p) PROVE Goal
  BY <1>13, <1>0 DEF Expire, storeVars, indexVars, callVars, history, RenameMoves,
     CallsOK
<1>14. CASE Crash
  BY <1>14, <1>0 DEF Crash, storeVars, indexVars, callVars, history, RenameMoves,
     CallsOK
<1>15. CASE Prune
  BY <1>15, <1>0 DEF Prune, storeVars, indexVars, callVars, history, RenameMoves,
     CallsOK
<1>16. CASE UNCHANGED vars
  BY <1>16, <1>0 DEF vars, storeVars, indexVars, callVars, history, RenameMoves, CallsOK
<1> QED
  BY <1>1, <1>2, <1>3, <1>4, <1>5, <1>6, <1>7, <1>8, <1>9, <1>10, <1>11, <1>12, <1>13,
     <1>14, <1>15, <1>16 DEF Next, Refresh

\* Entries come to be trusted only so.
LEMMA EntryTrustStep ==
    SInv /\ [Next]_vars =>
        \A q \in Problems : q \in Range(lru') /\ entry'[q].recent => EntryTrust(q)
<1> DEFINE Goal == \A q \in Problems : q \in Range(lru') /\ entry'[q].recent => EntryTrust(q)
<1> SUFFICES ASSUME SInv, [Next]_vars PROVE Goal
  OBVIOUS
<1>0. EntriesOK /\ ListOK /\ CallsOK /\ JobsOK
  BY DEF SInv, TInv
<1>1. ASSUME NEW w \in Workers, NEW p \in Problems, EnsureTestcases(w, p) PROVE Goal
  <2>1. /\ UNCHANGED entry
        /\ UNCHANGED lru \/ (p \in Range(lru) /\ lru' = MoveToFront(p))
    BY <1>1 DEF EnsureTestcases, FastPath, Join, Lead, indexVars
  <2>2. Range(lru') = Range(lru)
    BY <2>1, <1>0, MoveToFrontFacts
  <2> QED
    BY <2>1, <2>2 DEF EntryTrust
<1>2. ASSUME NEW w \in Workers, Stat(w) PROVE Goal
  <2>1. UNCHANGED <<lru, entry>>
    BY <1>2 DEF Stat, indexVars
  <2> QED
    BY <2>1 DEF EntryTrust
<1>3. ASSUME NEW w \in Workers, Compare(w) PROVE Goal
  <2> DEFINE e == [entry[job[w]] EXCEPT !.recent = TRUE]
  <2>0. pc[w] = "compare" /\ job[w] \in Problems /\ UNCHANGED <<disk, tainted>>
    BY <1>3, <1>0 DEF Compare, JobsOK, storeVars, history
  <2>1. \/ UNCHANGED <<entry, lru>>
        \/ /\ UpToDate(w) /\ job[w] \in Range(lru)
           /\ entry' = [entry EXCEPT ![job[w]] = e] /\ lru' = MoveToFront(job[w])
    BY <1>3 DEF Compare
  <2>2. CASE UNCHANGED <<entry, lru>>
    BY <2>2 DEF EntryTrust
  <2>3. CASE UpToDate(w) /\ job[w] \in Range(lru)
             /\ entry' = [entry EXCEPT ![job[w]] = e] /\ lru' = MoveToFront(job[w])
    <3>1. entry[job[w]] \in [etag : Versions, recent : BOOLEAN]
      BY <2>0, <1>0 DEF EntriesOK
    <3>2. e.etag = entry[job[w]].etag
      BY <3>1
    <3> HIDE DEF e
    <3>3. entry'[job[w]] = e /\ \A q \in Problems \ {job[w]} : entry'[q] = entry[q]
      BY <2>0, <2>3, <1>0 DEF EntriesOK
    <3>4. Range(lru') = Range(lru)
      BY <2>3, <1>0, MoveToFrontFacts
    <3>5. EntryTrust(job[w])
      BY <3>2, <3>3, <2>0, <2>3 DEF EntryTrust, UpToDate
    <3> QED
      BY <3>3, <3>4, <3>5 DEF EntryTrust
  <2> QED
    BY <2>1, <2>2, <2>3
<1>4. ASSUME NEW w \in Workers, Download(w) PROVE Goal
  <2>1. UNCHANGED <<lru, entry>>
    BY <1>4 DEF Download, indexVars
  <2> QED
    BY <2>1 DEF EntryTrust
<1>5. ASSUME NEW w \in Workers, Replace(w) PROVE Goal
  <2>1. UNCHANGED <<lru, entry>>
    BY <1>5 DEF Replace, indexVars
  <2> QED
    BY <2>1 DEF EntryTrust
<1>6. ASSUME NEW w \in Workers, Rename(w) PROVE Goal
  <2>1. UNCHANGED <<lru, entry>>
    BY <1>6 DEF Rename, indexVars
  <2> QED
    BY <2>1 DEF EntryTrust
<1>7. ASSUME NEW w \in Workers, Finish(w) PROVE Goal
  <2>1. pc[w] = "finish" /\ job[w] \in Problems
    BY <1>7, <1>0 DEF Finish, JobsOK
  <2>2. CASE failed[w]
    BY <2>2, <1>7 DEF Finish, EntryTrust
  <2>3. CASE ~failed[w]
    <3>1. /\ entry'[job[w]].etag = disk[job[w]].etag
          /\ \A q \in Problems \ {job[w]} : entry'[q] = entry[q]
          /\ \A q \in Problems : q \in Range(lru') => q \in Range(lru) \/ q = job[w]
      BY <2>1, <2>3, <1>7, PromoteFacts DEF Finish, SInv, TInv
    <3> QED
      BY <3>1, <2>1, <2>3 DEF EntryTrust
  <2> QED
    BY <2>2, <2>3
<1>8. ASSUME NEW w \in Workers, Close(w) PROVE Goal
  <2>1. UNCHANGED <<lru, entry>>
    BY <1>8 DEF Close, indexVars
  <2> QED
    BY <2>1 DEF EntryTrust
<1>9. ASSUME NEW w \in Workers, Release(w) PROVE Goal
  <2>1. UNCHANGED <<lru, entry>>
    BY <1>9 DEF Release, indexVars
  <2> QED
    BY <2>1 DEF EntryTrust
<1>10. ASSUME NEW p \in Problems, RemoveBegins(p) PROVE Goal
  <2>1. UNCHANGED <<lru, entry>>
    BY <1>10 DEF RemoveBegins, indexVars
  <2> QED
    BY <2>1 DEF EntryTrust
<1>11. ASSUME NEW p \in Problems, RemoveEnds(p) PROVE Goal
  <2>1. UNCHANGED <<lru, entry>>
    BY <1>11 DEF RemoveEnds, indexVars
  <2> QED
    BY <2>1 DEF EntryTrust
<1>12. ASSUME NEW p \in Problems, Upload(p) PROVE Goal
  <2>1. UNCHANGED <<lru, entry>>
    BY <1>12 DEF Upload, indexVars
  <2> QED
    BY <2>1 DEF EntryTrust
<1>13. ASSUME NEW p \in Problems, Expire(p) PROVE Goal
  <2> DEFINE e == [entry[p] EXCEPT !.recent = FALSE]
  <2>1. entry' = [entry EXCEPT ![p] = e] /\ UNCHANGED lru
    BY <1>13 DEF Expire
  <2>2. entry[p] \in [etag : Versions, recent : BOOLEAN]
    BY <1>0 DEF EntriesOK
  <2>3. ~e.recent
    BY <2>2
  <2> HIDE DEF e
  <2>4. entry'[p] = e /\ \A q \in Problems \ {p} : entry'[q] = entry[q]
    BY <2>1, <1>0 DEF EntriesOK
  <2> QED
    BY <2>1, <2>3, <2>4 DEF EntryTrust
<1>14. CASE Crash
  <2>1. \A q \in Problems : entry'[q] = [etag |-> 0, recent |-> FALSE]
    BY <1>14 DEF Crash
  <2>2. \A q \in Problems : ~entry'[q].recent
    BY <2>1
  <2> QED
    BY <2>2
<1>15. CASE Prune
  <2>1. \A q \in Problems : entry'[q] = [etag |-> disk[q].etag, recent |-> FALSE]
    BY <1>15 DEF Prune
  <2>2. ASSUME NEW q \in Problems PROVE ~entry'[q].recent
    <3>1. entry'[q] = [etag |-> disk[q].etag, recent |-> FALSE]
      BY <2>1
    <3>2. entry'[q].recent = FALSE
      BY <3>1
    <3> QED
      BY <3>2
  <2> QED
    BY <2>2
<1>16. CASE UNCHANGED vars
  BY <1>16, <1>0 DEF vars, storeVars, indexVars, callVars, history, EntryTrust
<1> QED
  BY <1>1, <1>2, <1>3, <1>4, <1>5, <1>6, <1>7, <1>8, <1>9, <1>10, <1>11, <1>12, <1>13,
     <1>14, <1>15, <1>16 DEF Next, Refresh

\* Calls come to trust a directory only so.
LEMMA CallTrustStep ==
    SInv /\ [Next]_vars =>
        \A v \in Workers : Trusts(v)' => CallTrust(v)
<1> DEFINE Goal == \A v \in Workers : Trusts(v)' => CallTrust(v)
<1> SUFFICES ASSUME SInv, [Next]_vars PROVE Goal
  OBVIOUS
<1>0. StoreOK /\ CallsOK /\ JobsOK /\ FailedOK
  BY DEF SInv, TInv
<1>1. ASSUME NEW w \in Workers, NEW p \in Problems, EnsureTestcases(w, p) PROVE Goal
  <2>1. \A v \in Workers \ {w} :
           /\ pc'[v] = pc[v] /\ job'[v] = job[v] /\ seen'[v] = seen[v] /\ failed'[v] = failed[v]
    BY <1>1, <1>0 DEF EnsureTestcases, FastPath, Join, Lead, Goto, CallsOK, FailedOK
  <2>2. \A v \in Workers \ {w} : Trusts(v)' => CallTrust(v)
    BY <2>1 DEF Trusts, CallTrust
  <2>3. Trusts(w)' => CallTrust(w)
    <3>1. CASE FastPath(w, p)
      <4>1. p \in Range(lru) /\ entry[p].recent /\ seen'[w] = entry[p].etag /\ job'[w] = p
        BY <3>1, <1>1, <1>0 DEF EnsureTestcases, FastPath, CallsOK
      <4> QED
        BY <4>1 DEF CallTrust
    <3>2. CASE Join(w, p) \/ Lead(w, p)
      <4>1. pc'[w] \in {"wait", "stat"}
        BY <3>2, <1>0 DEF Join, Lead, Goto, CallsOK
      <4> QED
        BY <4>1 DEF Trusts
    <3> QED
      BY <1>1, <3>1, <3>2 DEF EnsureTestcases
  <2> QED
    BY <2>2, <2>3
<1>2. ASSUME NEW w \in Workers, Stat(w) PROVE Goal
  <2>1. \A v \in Workers \ {w} :
           /\ pc'[v] = pc[v] /\ job'[v] = job[v] /\ seen'[v] = seen[v] /\ failed'[v] = failed[v]
    BY <1>2, <1>0 DEF Stat, Goto, CallsOK, FailedOK
  <2>2. \A v \in Workers \ {w} : Trusts(v)' => CallTrust(v)
    BY <2>1 DEF Trusts, CallTrust
  <2>3. Trusts(w)' => CallTrust(w)
    BY <1>2, <1>0 DEF Stat, Goto, CallsOK, FailedOK, Trusts,
                      CallTrust
  <2> QED
    BY <2>2, <2>3
<1>3. ASSUME NEW w \in Workers, Compare(w) PROVE Goal
  <2>1. \A v \in Workers \ {w} :
           /\ pc'[v] = pc[v] /\ job'[v] = job[v] /\ seen'[v] = seen[v] /\ failed'[v] = failed[v]
    BY <1>3, <1>0 DEF Compare, Goto, CallsOK, FailedOK
  <2>2. \A v \in Workers \ {w} : Trusts(v)' => CallTrust(v)
    BY <2>1 DEF Trusts, CallTrust
  <2>3. Trusts(w)' => CallTrust(w)
    BY <1>3, <1>0 DEF Compare, Goto, CallsOK, FailedOK, Trusts,
                      CallTrust, UpToDate, storeVars, history
  <2> QED
    BY <2>2, <2>3
<1>4. ASSUME NEW w \in Workers, Download(w) PROVE Goal
  <2>1. \A v \in Workers \ {w} :
           /\ pc'[v] = pc[v] /\ job'[v] = job[v] /\ seen'[v] = seen[v] /\ failed'[v] = failed[v]
    BY <1>4, <1>0 DEF Download, Goto, CallsOK, FailedOK
  <2>2. \A v \in Workers \ {w} : Trusts(v)' => CallTrust(v)
    BY <2>1 DEF Trusts, CallTrust
  <2>3. Trusts(w)' => CallTrust(w)
    BY <1>4, <1>0 DEF Download, Goto, CallsOK, FailedOK, Trusts,
                      CallTrust
  <2> QED
    BY <2>2, <2>3
<1>5. ASSUME NEW w \in Workers, Replace(w) PROVE Goal
  <2>1. \A v \in Workers \ {w} :
           /\ pc'[v] = pc[v] /\ job'[v] = job[v] /\ seen'[v] = seen[v] /\ failed'[v] = failed[v]
    BY <1>5, <1>0 DEF Replace, Goto, CallsOK, FailedOK
  <2>2. \A v \in Workers \ {w} : Trusts(v)' => CallTrust(v)
    BY <2>1 DEF Trusts, CallTrust
  <2>3. Trusts(w)' => CallTrust(w)
    BY <1>5, <1>0 DEF Replace, Goto, CallsOK, FailedOK, Trusts,
                      CallTrust
  <2> QED
    BY <2>2, <2>3
<1>6. ASSUME NEW w \in Workers, Rename(w) PROVE Goal
  <2>0. pc[w] = "rename" /\ job[w] \in Problems
    BY <1>6, <1>0 DEF Rename, JobsOK
  <2>1. /\ \A v \in Workers \ {w} : pc'[v] = pc[v] /\ failed'[v] = failed[v]
        /\ UNCHANGED <<job, seen>> /\ pc'[w] = "finish"
    BY <1>6, <1>0 DEF Rename, Goto, CallsOK, FailedOK
  <2>2. \A v \in Workers \ {w} : Trusts(v)' => CallTrust(v)
    BY <2>1 DEF Trusts, CallTrust
  <2>3. failed'[w] \/ disk'[job[w]] = staged[w]
    BY <2>0, <1>6, <1>0 DEF Rename, FailedOK, StoreOK
  <2>4. Trusts(w)' => CallTrust(w)
    BY <2>0, <2>1, <2>3 DEF Trusts, CallTrust
  <2> QED
    BY <2>2, <2>4
<1>7. ASSUME NEW w \in Workers, Finish(w) PROVE Goal
  <2>1. \A v \in Workers \ {w} :
           /\ pc'[v] = pc[v] /\ job'[v] = job[v] /\ seen'[v] = seen[v] /\ failed'[v] = failed[v]
    BY <1>7, <1>0 DEF Finish, Goto, CallsOK, FailedOK
  <2>2. \A v \in Workers \ {w} : Trusts(v)' => CallTrust(v)
    BY <2>1 DEF Trusts, CallTrust
  <2>3. Trusts(w)' => CallTrust(w)
    BY <1>7, <1>0 DEF Finish, Goto, CallsOK, FailedOK, Trusts,
                      CallTrust
  <2> QED
    BY <2>2, <2>3
<1>8. ASSUME NEW w \in Workers, Close(w) PROVE Goal
  <2>0. TInv
    BY DEF SInv
  <2>1. /\ pc[w] = "close"
        /\ \A v \in Workers :
              IF v = w \/ (pc[v] = "wait" /\ leader[v] = w)
              THEN IF failed[w] THEN pc'[v] = "idle"
                   ELSE pc'[v] = "use" /\ seen'[v] = seen[w] /\ job'[v] = job[v]
              ELSE pc'[v] = pc[v] /\ seen'[v] = seen[v] /\ job'[v] = job[v]
        /\ \A v \in Workers \ {w} : failed'[v] = failed[v]
    BY <1>8, <2>0, CloseFacts
  <2>2. \A v \in Workers : pc[v] = "wait" /\ leader[v] = w => job[v] = job[w]
    BY DEF SInv, WaiterFollows
  <2> SUFFICES ASSUME NEW v \in Workers, Trusts(v)' PROVE CallTrust(v)
    OBVIOUS
  <2>3. CASE v = w \/ (pc[v] = "wait" /\ leader[v] = w)
    <3>1. ~failed[w]
      BY <2>1, <2>3 DEF Trusts
    <3>2. job'[v] = job[w] /\ seen'[v] = seen[w]
      BY <3>1, <2>1, <2>2, <2>3
    <3> QED
      BY <3>1, <3>2, <2>1 DEF CallTrust
  <2>4. CASE ~(v = w \/ (pc[v] = "wait" /\ leader[v] = w))
    BY <2>1, <2>4 DEF Trusts, CallTrust
  <2> QED
    BY <2>3, <2>4
<1>9. ASSUME NEW w \in Workers, Release(w) PROVE Goal
  <2>1. \A v \in Workers \ {w} :
           /\ pc'[v] = pc[v] /\ job'[v] = job[v] /\ seen'[v] = seen[v] /\ failed'[v] = failed[v]
    BY <1>9, <1>0 DEF Release, Goto, CallsOK, FailedOK
  <2>2. \A v \in Workers \ {w} : Trusts(v)' => CallTrust(v)
    BY <2>1 DEF Trusts, CallTrust
  <2>3. Trusts(w)' => CallTrust(w)
    BY <1>9, <1>0 DEF Release, Goto, CallsOK, FailedOK, Trusts,
                      CallTrust
  <2> QED
    BY <2>2, <2>3
<1>10. ASSUME NEW p \in Problems, RemoveBegins(p) PROVE Goal
  BY <1>10, <1>0 DEF RemoveBegins, storeVars, indexVars, callVars, history, Trusts,
     CallTrust
<1>11. ASSUME NEW p \in Problems, RemoveEnds(p) PROVE Goal
  BY <1>11, <1>0 DEF RemoveEnds, storeVars, indexVars, callVars, history, Trusts,
     CallTrust
<1>12. ASSUME NEW p \in Problems, Upload(p) PROVE Goal
  BY <1>12, <1>0 DEF Upload, storeVars, indexVars, callVars, history, Trusts, CallTrust
<1>13. ASSUME NEW p \in Problems, Expire(p) PROVE Goal
  BY <1>13, <1>0 DEF Expire, storeVars, indexVars, callVars, history, Trusts, CallTrust
<1>14. CASE Crash
  BY <1>14, <1>0 DEF Crash, storeVars, indexVars, callVars, history, Trusts, CallTrust
<1>15. CASE Prune
  BY <1>15, <1>0 DEF Prune, storeVars, indexVars, callVars, history, Trusts, CallTrust
<1>16. CASE UNCHANGED vars
  BY <1>16, <1>0 DEF vars, storeVars, indexVars, callVars, history, Trusts, CallTrust
<1> QED
  BY <1>1, <1>2, <1>3, <1>4, <1>5, <1>6, <1>7, <1>8, <1>9, <1>10, <1>11, <1>12, <1>13,
     <1>14, <1>15, <1>16 DEF Next, Refresh

\* A refresh does not compare twice.
LEMMA BackStep ==
    SInv /\ [Next]_vars =>
        \A v \in Workers : pc'[v] = "compare" => pc[v] \in {"stat", "compare"}
<1> DEFINE Goal == \A v \in Workers : pc'[v] = "compare" => pc[v] \in {"stat", "compare"}
<1> SUFFICES ASSUME SInv, [Next]_vars PROVE Goal
  OBVIOUS
<1>0. CallsOK
  BY DEF SInv, TInv
<1>1. ASSUME NEW w \in Workers, NEW p \in Problems, EnsureTestcases(w, p) PROVE Goal
  BY <1>1, <1>0 DEF EnsureTestcases, FastPath, Join, Lead, Goto, storeVars, indexVars,
     callVars, history, CallsOK
<1>2. ASSUME NEW w \in Workers, Stat(w) PROVE Goal
  BY <1>2, <1>0 DEF Stat, Goto, storeVars, indexVars, callVars, history, CallsOK
<1>3. ASSUME NEW w \in Workers, Compare(w) PROVE Goal
  BY <1>3, <1>0 DEF Compare, Goto, storeVars, indexVars, callVars, history, CallsOK
<1>4. ASSUME NEW w \in Workers, Download(w) PROVE Goal
  BY <1>4, <1>0 DEF Download, Goto, storeVars, indexVars, callVars, history, CallsOK
<1>5. ASSUME NEW w \in Workers, Replace(w) PROVE Goal
  BY <1>5, <1>0 DEF Replace, Goto, storeVars, indexVars, callVars, history, CallsOK
<1>6. ASSUME NEW w \in Workers, Rename(w) PROVE Goal
  BY <1>6, <1>0 DEF Rename, Goto, storeVars, indexVars, callVars, history, CallsOK
<1>7. ASSUME NEW w \in Workers, Finish(w) PROVE Goal
  BY <1>7, <1>0 DEF Finish, Goto, storeVars, indexVars, callVars, history, CallsOK
<1>8. ASSUME NEW w \in Workers, Close(w) PROVE Goal
  <2>1. \A v \in Workers : pc'[v] = pc[v] \/ pc'[v] \in {"idle", "use"}
    BY <1>8, CloseFacts DEF SInv
  <2> QED
    BY <2>1
<1>9. ASSUME NEW w \in Workers, Release(w) PROVE Goal
  BY <1>9, <1>0 DEF Release, Goto, storeVars, indexVars, callVars, history, CallsOK
<1>10. ASSUME NEW p \in Problems, RemoveBegins(p) PROVE Goal
  BY <1>10, <1>0 DEF RemoveBegins, storeVars, indexVars, callVars, history, CallsOK
<1>11. ASSUME NEW p \in Problems, RemoveEnds(p) PROVE Goal
  BY <1>11, <1>0 DEF RemoveEnds, storeVars, indexVars, callVars, history, CallsOK
<1>12. ASSUME NEW p \in Problems, Upload(p) PROVE Goal
  BY <1>12, <1>0 DEF Upload, storeVars, indexVars, callVars, history, CallsOK
<1>13. ASSUME NEW p \in Problems, Expire(p) PROVE Goal
  BY <1>13, <1>0 DEF Expire, storeVars, indexVars, callVars, history, CallsOK
<1>14. CASE Crash
  BY <1>14, <1>0 DEF Crash, storeVars, indexVars, callVars, history, CallsOK
<1>15. CASE Prune
  BY <1>15, <1>0 DEF Prune, storeVars, indexVars, callVars, history, CallsOK
<1>16. CASE UNCHANGED vars
  BY <1>16, <1>0 DEF vars, storeVars, indexVars, callVars, history, CallsOK
<1> QED
  BY <1>1, <1>2, <1>3, <1>4, <1>5, <1>6, <1>7, <1>8, <1>9, <1>10, <1>11, <1>12, <1>13,
     <1>14, <1>15, <1>16 DEF Next, Refresh

\* A torn directory stays recognisable.
LEMMA TornStep == HInv /\ [Next]_vars => TornIsOld'
<1> SUFFICES ASSUME HInv, [Next]_vars PROVE TornIsOld'
  OBVIOUS
<1>0. NInv /\ NInv' /\ SInv /\ SInv' /\ TInv /\ TInv' /\ RemoverTaints /\ TornIsOld
  BY NInvStep DEF HInv, NInv, SInv
<1>1. \A p \in Problems : DirMoves(p) /\ TaintMoves(p)
  BY <1>0, DirStep, TaintStep
<1>2. \A p \in Problems : /\ remote[p] \in Nat /\ remote'[p] \in Nat
                          /\ disk[p].etag \in Nat /\ disk'[p].etag \in Nat
  BY <1>0, VersionFacts DEF TInv, StoreOK
<1>3. \A w \in Workers : seen[w] \in Nat /\ seen'[w] \in Nat
  BY <1>0, VersionFacts DEF TInv, CallsOK
<1>4. ASSUME NEW p \in Problems, ~disk'[p].whole
      PROVE  /\ ~DirInstalled(p)
             /\ disk'[p].etag = 0 \/ disk'[p].etag = disk[p].etag
             /\ p \in tainted => p \in tainted'
             /\ \/ ~disk[p].whole
                \/ p \in tainted'
                \/ \E v \in Workers : pc'[v] = "rename" /\ job'[v] = p
  <2>1. ~DirInstalled(p)
    BY <1>0, <1>4 DEF DirInstalled, NInv, StagedCurrent
  <2> QED
    BY <2>1, <1>1, <1>4 DEF DirMoves, DirKept, TaintMoves
<1>5. ASSUME NEW p \in Problems, ~disk'[p].whole
      PROVE  p \in tainted' \/ disk'[p].etag = 0 \/ disk'[p].etag < remote'[p]
  <2>1. CASE ~disk[p].whole
    <3>1. p \in tainted \/ disk[p].etag = 0 \/ disk[p].etag < remote[p]
      BY <2>1, <1>0 DEF TornIsOld
    <3>2. remote[p] <= remote'[p]
      BY <1>1 DEF DirMoves
    <3> QED
      BY <3>1, <3>2, <1>2, <1>4, <1>5
  <2>2. CASE \E v \in Workers : pc'[v] = "rename" /\ job'[v] = p
    <3>1. PICK v \in Workers : pc'[v] = "rename" /\ job'[v] = p
      BY <2>2
    <3>2. disk'[p].etag < seen'[v] /\ seen'[v] <= remote'[p]
      BY <3>1, <1>0 DEF NInv, SawNewest, NothingAhead, Validating
    <3> QED
      BY <3>2, <1>2, <1>3
  <2> QED
    BY <2>1, <2>2, <1>4, <1>5
<1>6. ASSUME NEW w \in Workers, pc'[w] = "compare", ~disk'[job'[w]].whole
      PROVE  job'[w] \in tainted' \/ disk'[job'[w]].etag = 0 \/ disk'[job'[w]].etag < seen'[w]
  <2>1. ValidatingFrom(w)
    BY <1>0, <1>6, ValidatingStep DEF Validating
  <2>2. job'[w] = job[w] /\ job[w] \in Problems
    BY <2>1 DEF ValidatingFrom
  <2>3. CASE pc[w] = "stat"
    <3>1. seen'[w] = remote[job[w]] /\ UNCHANGED <<remote, disk>>
      BY <2>1, <2>3 DEF ValidatingFrom, Validating
    <3> QED
      BY <3>1, <2>2, <1>5, <1>6
  <2>4. CASE pc[w] \in Validating /\ seen'[w] = seen[w]
    <3>1. pc[w] = "compare"
      BY <2>4, <1>6, <1>0, BackStep DEF Validating
    <3>2. CASE ~disk[job[w]].whole
      BY <3>1, <3>2, <2>2, <2>4, <1>0, <1>4, <1>6 DEF TornIsOld
    <3>3. CASE \E v \in Workers : pc'[v] = "rename" /\ job'[v] = job[w]
      <4>1. PICK v \in Workers : pc'[v] = "rename" /\ job'[v] = job[w]
        BY <3>3
      <4>2. v = w
        BY <4>1, <2>2, <1>0, <1>6 DEF SInv, SlotOwned, InRefresh
      <4> QED
        BY <4>1, <4>2, <1>6
    <3> QED
      BY <3>2, <3>3, <2>2, <1>4, <1>6
  <2> QED
    BY <2>1, <2>3, <2>4 DEF ValidatingFrom
<1> QED
  BY <1>5, <1>6 DEF TornIsOld

\* Who was served still is: by the same directory, by the one renamed into its
\* place, or with an excuse.
LEMMA ServesStep ==
    ASSUME HInv, [Next]_vars, up', NEW p \in Problems, NEW n \in Nat, Serves(p, n),
           \A w \in Workers : pc[w] = "rename" /\ job[w] = p => n <= seen[w]
    PROVE  ServesNext(p, n)
<1>0. NInv /\ SInv /\ TInv /\ TInv' /\ RemoverTaints /\ StagedCurrent
  BY NInvStep DEF HInv, NInv, SInv
<1>1. DirMoves(p) /\ TaintMoves(p) /\ \A v \in Workers : pc[v] = "rename" => RenameMoves(v)
  BY <1>0, DirStep, TaintStep, RenameStep
<1>2. ASSUME NEW w \in Workers, pc[w] = "rename", job[w] = p, disk'[p] = staged[w]
      PROVE  disk'[p].whole /\ n <= disk'[p].files
  <2>1. staged[w].whole /\ seen[w] <= staged[w].files
    BY <1>0, <1>2 DEF StagedCurrent
  <2>2. seen[w] \in Nat /\ staged[w].files \in Nat
    BY <1>0, VersionFacts DEF TInv, CallsOK
  <2>3. n <= seen[w]
    BY <1>2
  <2> QED
    BY <2>1, <2>2, <2>3, <1>2
<1>3. CASE DirInstalled(p)
  BY <1>2, <1>3 DEF DirInstalled, ServesNext
<1>4. CASE ~DirInstalled(p)
  <2>1. CASE disk[p].whole /\ n <= disk[p].files
    <3>1. CASE disk'[p].whole
      <4>1. disk'[p].files = disk[p].files
        BY <3>1, <1>1, <1>4, VersionFacts DEF DirMoves, DirKept
      <4> QED
        BY <4>1, <3>1, <2>1 DEF ServesNext
    <3>2. CASE ~disk'[p].whole
      BY <3>2, <2>1, <1>1 DEF TaintMoves, ServesNext
    <3> QED
      BY <3>1, <3>2
  <2>2. CASE p \in tainted
    BY <2>2, <1>1, <1>4 DEF TaintMoves, ServesNext
  <2>3. CASE \E v \in Workers : pc[v] = "rename" /\ job[v] = p
    <3>1. PICK v \in Workers : pc[v] = "rename" /\ job[v] = p
      BY <2>3
    <3>2. RenameMoves(v)
      BY <3>1, <1>1
    <3>3. CASE disk'[p] = staged[v]
      BY <3>1, <3>3, <1>2 DEF ServesNext
    <3> QED
      BY <3>1, <3>2, <3>3 DEF RenameMoves, ServesNext
  <2> QED
    BY <2>1, <2>2, <2>3 DEF Serves
<1> QED
  BY <1>3, <1>4

\* A directory that a refresh finds up to date serves everybody.
LEMMA CurrentServes ==
    ASSUME HInv, NEW w \in Workers, pc[w] = "compare", disk[job[w]].etag = seen[w],
           NEW n \in Nat, n <= seen[w]
    PROVE  (disk[job[w]].whole /\ n <= disk[job[w]].files) \/ job[w] \in tainted
<1> DEFINE p == job[w]
<1>0. TInv /\ NothingAhead /\ SawNewest /\ TornIsOld
  BY DEF HInv, NInv, SInv
<1>1. p \in Problems
  BY <1>0 DEF TInv, JobsOK
<1>2. seen[w] \in Nat /\ disk[p].etag \in Nat /\ disk[p].files \in Nat
  BY <1>0, <1>1, VersionFacts DEF TInv, StoreOK, CallsOK
<1>3. seen[w] # 0 /\ disk[p].etag <= disk[p].files
  BY <1>0, <1>1 DEF SawNewest, NothingAhead, Validating
<1>4. disk[p].whole \/ p \in tainted
  BY <1>0, <1>2, <1>3 DEF TornIsOld
<1> QED
  BY <1>2, <1>3, <1>4

\* A crash forgets the list, and nobody fills it before Prune.
LEMMA DownStep ==
    SInv /\ DownEmpty /\ [Next]_vars => DownEmpty'
<1> SUFFICES ASSUME SInv, DownEmpty, [Next]_vars PROVE DownEmpty'
  OBVIOUS
<1>0. DownEmpty /\ JobsOK
  BY DEF SInv, TInv
<1>1. ASSUME NEW w \in Workers, NEW p \in Problems, EnsureTestcases(w, p) PROVE DownEmpty'
  <2>1. up'
    BY <1>1 DEF EnsureTestcases
  <2> QED
    BY <2>1 DEF DownEmpty
<1>2. ASSUME NEW w \in Workers, Stat(w) PROVE DownEmpty'
  BY <1>2, <1>0 DEF Stat, storeVars, indexVars, callVars, history, DownEmpty
<1>3. ASSUME NEW w \in Workers, Compare(w) PROVE DownEmpty'
  <2>1. up'
    BY <1>3, <1>0 DEF Compare, JobsOK
  <2> QED
    BY <2>1 DEF DownEmpty
<1>4. ASSUME NEW w \in Workers, Download(w) PROVE DownEmpty'
  BY <1>4, <1>0 DEF Download, storeVars, indexVars, callVars, history, DownEmpty
<1>5. ASSUME NEW w \in Workers, Replace(w) PROVE DownEmpty'
  BY <1>5, <1>0 DEF Replace, storeVars, indexVars, callVars, history, DownEmpty
<1>6. ASSUME NEW w \in Workers, Rename(w) PROVE DownEmpty'
  BY <1>6, <1>0 DEF Rename, storeVars, indexVars, callVars, history, DownEmpty
<1>7. ASSUME NEW w \in Workers, Finish(w) PROVE DownEmpty'
  <2>1. up'
    BY <1>7, <1>0 DEF Finish, JobsOK
  <2> QED
    BY <2>1 DEF DownEmpty
<1>8. ASSUME NEW w \in Workers, Close(w) PROVE DownEmpty'
  BY <1>8, <1>0 DEF Close, storeVars, indexVars, callVars, history, DownEmpty
<1>9. ASSUME NEW w \in Workers, Release(w) PROVE DownEmpty'
  BY <1>9, <1>0 DEF Release, storeVars, indexVars, callVars, history, DownEmpty
<1>10. ASSUME NEW p \in Problems, RemoveBegins(p) PROVE DownEmpty'
  BY <1>10, <1>0 DEF RemoveBegins, storeVars, indexVars, callVars, history, DownEmpty
<1>11. ASSUME NEW p \in Problems, RemoveEnds(p) PROVE DownEmpty'
  BY <1>11, <1>0 DEF RemoveEnds, storeVars, indexVars, callVars, history, DownEmpty
<1>12. ASSUME NEW p \in Problems, Upload(p) PROVE DownEmpty'
  BY <1>12, <1>0 DEF Upload, storeVars, indexVars, callVars, history, DownEmpty
<1>13. ASSUME NEW p \in Problems, Expire(p) PROVE DownEmpty'
  BY <1>13, <1>0 DEF Expire, storeVars, indexVars, callVars, history, DownEmpty
<1>14. CASE Crash
  <2>1. lru' = <<>>
    BY <1>14 DEF Crash
  <2> QED
    BY <2>1 DEF DownEmpty, Range
<1>15. CASE Prune
  BY <1>15, <1>0 DEF Prune, storeVars, indexVars, callVars, history, DownEmpty
<1>16. CASE UNCHANGED vars
  BY <1>16, <1>0 DEF vars, storeVars, indexVars, callVars, history, DownEmpty
<1> QED
  BY <1>1, <1>2, <1>3, <1>4, <1>5, <1>6, <1>7, <1>8, <1>9, <1>10, <1>11, <1>12, <1>13,
     <1>14, <1>15, <1>16 DEF Next, Refresh

\* Trust stays deserved.
LEMMA TrustStep == HInv /\ [Next]_vars => TrustIsDeserved'
<1> SUFFICES ASSUME HInv, [Next]_vars PROVE TrustIsDeserved'
  OBVIOUS
<1>0. /\ NInv /\ SInv /\ SInv' /\ TInv /\ TInv' /\ NothingAhead /\ SawNewest /\ StagedCurrent
      /\ TrustIsDeserved /\ DownEmpty'
  BY SInvStep, DownStep DEF HInv, NInv, SInv
<1>t. /\ \A p \in Problems : /\ entry[p].etag \in Nat /\ disk[p].etag \in Nat
                             /\ disk[p].files \in Nat
      /\ \A w \in Workers : seen[w] \in Nat /\ (pc[w] # "idle" => job[w] \in Problems)
  BY <1>0, VersionFacts DEF TInv, StoreOK, EntriesOK, CallsOK, JobsOK
<1>b. \A p \in Problems, v \in Workers : pc[v] = "rename" /\ job[v] = p =>
         /\ entry[p].etag <= seen[v] /\ disk[p].etag <= seen[v]
         /\ \A u \in Workers : pc[u] # "idle" /\ job[u] = p => seen[u] <= seen[v]
  BY <1>0 DEF SawNewest, Validating
<1>c. \A w \in Workers : Trusts(w) =>
         pc[w] # "idle" /\ job[w] \in Problems /\ Serves(job[w], seen[w])
  BY <1>0, <1>t DEF Trusts, TrustIsDeserved
<1>1. CASE ~up'
  <2>1. \A w \in Workers : pc'[w] = "idle"
    BY <1>1, <1>0 DEF TInv, JobsOK
  <2>2. Range(lru') = {}
    BY <1>1, <1>0 DEF DownEmpty
  <2> QED
    BY <2>1, <2>2 DEF TrustIsDeserved, Trusts
<1>2. CASE up'
  <2>a. ASSUME NEW p \in Problems, p \in Range(lru), entry[p].recent
        PROVE  ServesNext(p, entry[p].etag)
    <3>1. Serves(p, entry[p].etag)
      BY <2>a, <1>0 DEF TrustIsDeserved
    <3>2. /\ entry[p].etag \in Nat
          /\ \A v \in Workers : pc[v] = "rename" /\ job[v] = p => entry[p].etag <= seen[v]
      BY <1>t, <1>b
    <3> QED
      BY <3>1, <3>2, <1>2, ServesStep
  <2>b. ASSUME NEW w \in Workers, Trusts(w)
        PROVE  ServesNext(job[w], seen[w])
    <3>1. pc[w] # "idle" /\ job[w] \in Problems /\ Serves(job[w], seen[w]) /\ seen[w] \in Nat
      BY <2>b, <1>c, <1>t
    <3>2. \A v \in Workers : pc[v] = "rename" /\ job[v] = job[w] => seen[w] <= seen[v]
      BY <3>1, <1>b
    <3> QED
      BY <3>1, <3>2, <1>2, ServesStep
  <2>1. ASSUME NEW p \in Problems, p \in Range(lru'), entry'[p].recent
        PROVE  ServesNext(p, entry'[p].etag)
    <3>0. EntryTrust(p)
      BY <2>1, <1>0, EntryTrustStep
    <3>1. CASE p \in Range(lru) /\ entry[p].recent /\ entry'[p].etag = entry[p].etag
      BY <3>1, <2>a
    <3>2. CASE \E w \in Workers : /\ pc[w] = "compare" /\ job[w] = p /\ disk[p].etag = seen[w]
                                  /\ entry'[p].etag = entry[p].etag
                                  /\ UNCHANGED <<disk, tainted>>
      <4>1. PICK w \in Workers : /\ pc[w] = "compare" /\ job[w] = p /\ disk[p].etag = seen[w]
                                 /\ entry'[p].etag = entry[p].etag
                                 /\ UNCHANGED <<disk, tainted>>
        BY <3>2
      <4>2. entry[p].etag <= seen[w] /\ entry[p].etag \in Nat
        BY <4>1, <1>0, <1>t DEF SawNewest, Validating
      <4>3. (disk[p].whole /\ entry[p].etag <= disk[p].files) \/ p \in tainted
        BY <4>1, <4>2, CurrentServes
      <4> QED
        BY <4>1, <4>3 DEF ServesNext
    <3>3. CASE \E w \in Workers : /\ pc[w] = "finish" /\ ~failed[w] /\ job[w] = p
                                  /\ entry'[p].etag = disk[p].etag
      <4>1. PICK w \in Workers : /\ pc[w] = "finish" /\ ~failed[w] /\ job[w] = p
                                 /\ entry'[p].etag = disk[p].etag
        BY <3>3
      <4>2. Serves(p, seen[w])
        BY <4>1, <1>c DEF Trusts
      <4>3. Serves(p, disk[p].etag)
        BY <4>2, <1>0 DEF Serves, NothingAhead
      <4>4. /\ disk[p].etag \in Nat
            /\ \A v \in Workers : pc[v] = "rename" /\ job[v] = p => disk[p].etag <= seen[v]
        BY <1>t, <1>b
      <4>5. ServesNext(p, disk[p].etag)
        BY <4>3, <4>4, <1>2, ServesStep
      <4> QED
        BY <4>1, <4>5
    <3> QED
      BY <3>0, <3>1, <3>2, <3>3 DEF EntryTrust
  <2>2. ASSUME NEW w \in Workers, Trusts(w)' PROVE ServesNext(job'[w], seen'[w])
    <3>0. CallTrust(w) /\ job'[w] \in Problems
      BY <2>2, <1>0, CallTrustStep DEF Trusts, TInv, JobsOK
    <3>1. CASE Trusts(w) /\ seen'[w] = seen[w] /\ job'[w] = job[w]
      BY <3>1, <2>b
    <3>2. CASE /\ seen'[w] = seen[w] /\ job'[w] = job[w]
               /\ pc[w] = "compare" /\ disk[job[w]].etag = seen[w] /\ UNCHANGED <<disk, tainted>>
      <4>1. seen[w] \in Nat /\ seen[w] <= seen[w]
        BY <1>t
      <4>2. (disk[job[w]].whole /\ seen[w] <= disk[job[w]].files) \/ job[w] \in tainted
        BY <4>1, <3>2, CurrentServes
      <4> QED
        BY <4>2, <3>2 DEF ServesNext
    <3>3. CASE /\ seen'[w] = seen[w] /\ job'[w] = job[w]
               /\ pc[w] = "rename" /\ disk'[job[w]] = staged[w]
      <4>1. staged[w].whole /\ seen[w] <= staged[w].files
        BY <3>3, <1>0 DEF StagedCurrent
      <4> QED
        BY <4>1, <3>3 DEF ServesNext
    <3>4. CASE /\ job'[w] \in Range(lru) /\ entry[job'[w]].recent
               /\ seen'[w] = entry[job'[w]].etag
      BY <3>0, <3>4, <2>a
    <3>5. CASE \E u \in Workers : /\ pc[u] = "close" /\ ~failed[u]
                                  /\ job'[w] = job[u] /\ seen'[w] = seen[u]
      <4>1. PICK u \in Workers : /\ pc[u] = "close" /\ ~failed[u]
                                 /\ job'[w] = job[u] /\ seen'[w] = seen[u]
        BY <3>5
      <4>2. ServesNext(job[u], seen[u])
        BY <4>1, <2>b DEF Trusts
      <4> QED
        BY <4>1, <4>2
    <3> QED
      BY <3>0, <3>1, <3>2, <3>3, <3>4, <3>5 DEF CallTrust
  <2> QED
    BY <2>1, <2>2 DEF TrustIsDeserved, Serves, ServesNext, Trusts
<1> QED
  BY <1>1, <1>2

\* The invariant holds at the start.
LEMMA HInvInit == Init => HInv
<1> SUFFICES ASSUME Init PROVE HInv
  OBVIOUS
<1>1. NInv
  BY NInvInit
<1>2. \A p \in Problems : removers[p].waiting = 0 /\ removers[p].working = 0 /\ ~entry[p].recent
  BY DEF Init, Idle
<1>3. RemoverTaints
  BY <1>2 DEF RemoverTaints
<1>4. TornIsOld
  BY VersionFacts DEF Init, TornIsOld
<1>5. DownEmpty
  BY DEF Init, DownEmpty
<1>6. TrustIsDeserved
  BY <1>2 DEF Init, TrustIsDeserved, Trusts
<1> QED
  BY <1>1, <1>3, <1>4, <1>5, <1>6 DEF HInv

\* Every step keeps it.
LEMMA HInvStep == HInv /\ [Next]_vars => HInv'
<1> SUFFICES ASSUME HInv, [Next]_vars PROVE HInv'
  OBVIOUS
<1>1. NInv /\ SInv /\ RemoverTaints /\ DownEmpty
  BY DEF HInv, NInv
<1> QED
  BY <1>1, NInvStep, RemoverTaintsStep, TornStep, DownStep, TrustStep DEF HInv

\* The test cases handed to the scheduler are whole and at least as new as the zip
\* the call saw in MinIO, through every interleaving of uploads, refreshes, waiters,
\* evictions and crashes; the two excuses are an eviction since the directory was
\* installed and another worker's rename under way.
THEOREM HandedOutIsCurrentHolds == Spec => []HandedOutIsCurrent
<1>1. HInv => HandedOutIsCurrent
  <2> SUFFICES ASSUME HInv, NEW w \in Workers, pc[w] = "use"
               PROVE  \/ disk[job[w]].whole /\ disk[job[w]].files >= seen[w]
                      \/ job[w] \in tainted
                      \/ \E v \in Workers : pc[v] = "rename" /\ job[v] = job[w]
    BY DEF HandedOutIsCurrent
  <2>0. TInv
    BY DEF HInv, NInv, SInv
  <2>1. Serves(job[w], seen[w])
    BY DEF HInv, TrustIsDeserved, Trusts
  <2>2. seen[w] \in Nat /\ disk[job[w]].files \in Nat
    BY <2>0, VersionFacts DEF TInv, CallsOK, StoreOK, JobsOK
  <2> QED
    BY <2>1, <2>2 DEF Serves
<1> QED
  BY HInvInit, HInvStep, <1>1, PTL DEF Spec

-----------------------------------------------------------------------------
\* The list stays within its bound and free of repetitions.
LEMMA ListBoundedStep ==
    SInv /\ ListBounded /\ [Next]_vars => ListBounded'
<1> SUFFICES ASSUME SInv, ListBounded, [Next]_vars PROVE ListBounded'
  OBVIOUS
<1>0. ListBounded /\ ListOK /\ JobsOK /\ MaxEntries \in Nat
  BY CacheAssumption DEF SInv, TInv
<1>1. ASSUME NEW w \in Workers, NEW p \in Problems, EnsureTestcases(w, p) PROVE ListBounded'
  <2>1. UNCHANGED lru \/ (p \in Range(lru) /\ lru' = MoveToFront(p))
    BY <1>1 DEF EnsureTestcases, FastPath, Join, Lead, indexVars
  <2> QED
    BY <2>1, <1>0, MoveToFrontFacts DEF ListBounded
<1>2. ASSUME NEW w \in Workers, Stat(w) PROVE ListBounded'
  BY <1>2, <1>0 DEF Stat, storeVars, indexVars, callVars, history, ListBounded
<1>3. ASSUME NEW w \in Workers, Compare(w) PROVE ListBounded'
  <2>1. UNCHANGED lru \/ (job[w] \in Range(lru) /\ lru' = MoveToFront(job[w]))
    BY <1>3 DEF Compare
  <2> QED
    BY <2>1, <1>0, MoveToFrontFacts DEF ListBounded
<1>4. ASSUME NEW w \in Workers, Download(w) PROVE ListBounded'
  BY <1>4, <1>0 DEF Download, storeVars, indexVars, callVars, history, ListBounded
<1>5. ASSUME NEW w \in Workers, Replace(w) PROVE ListBounded'
  BY <1>5, <1>0 DEF Replace, storeVars, indexVars, callVars, history, ListBounded
<1>6. ASSUME NEW w \in Workers, Rename(w) PROVE ListBounded'
  BY <1>6, <1>0 DEF Rename, storeVars, indexVars, callVars, history, ListBounded
<1>7. ASSUME NEW w \in Workers, Finish(w) PROVE ListBounded'
  <2>1. job[w] \in Problems
    BY <1>7, <1>0 DEF Finish, JobsOK
  <2>2. CASE failed[w]
    BY <2>2, <1>7, <1>0 DEF Finish, ListBounded
  <2>3. CASE ~failed[w]
    BY <2>1, <2>3, <1>7, <1>0, PromoteFacts DEF Finish, SInv, TInv
  <2> QED
    BY <2>2, <2>3
<1>8. ASSUME NEW w \in Workers, Close(w) PROVE ListBounded'
  BY <1>8, <1>0 DEF Close, storeVars, indexVars, callVars, history, ListBounded
<1>9. ASSUME NEW w \in Workers, Release(w) PROVE ListBounded'
  BY <1>9, <1>0 DEF Release, storeVars, indexVars, callVars, history, ListBounded
<1>10. ASSUME NEW p \in Problems, RemoveBegins(p) PROVE ListBounded'
  BY <1>10, <1>0 DEF RemoveBegins, storeVars, indexVars, callVars, history, ListBounded
<1>11. ASSUME NEW p \in Problems, RemoveEnds(p) PROVE ListBounded'
  BY <1>11, <1>0 DEF RemoveEnds, storeVars, indexVars, callVars, history, ListBounded
<1>12. ASSUME NEW p \in Problems, Upload(p) PROVE ListBounded'
  BY <1>12, <1>0 DEF Upload, storeVars, indexVars, callVars, history, ListBounded
<1>13. ASSUME NEW p \in Problems, Expire(p) PROVE ListBounded'
  BY <1>13, <1>0 DEF Expire, storeVars, indexVars, callVars, history, ListBounded
<1>14. CASE Crash
  <2>1. lru' = <<>>
    BY <1>14 DEF Crash
  <2> QED
    BY <2>1, <1>0 DEF ListBounded
<1>15. CASE Prune
  <2>0. PICK found \in SUBSET OnDisk :
           /\ \E list \in SetToSeqs(found) : evictIfNeeded(list)
           /\ leaked' = OnDisk \ found
    BY <1>15 DEF Prune
  <2>1. PICK list \in SetToSeqs(found) : evictIfNeeded(list)
    BY <2>0
  <2>2. list \in Seq(Problems) /\ \A i, j \in DOMAIN list : list[i] = list[j] => i = j
    BY FoundFacts DEF OnDisk
  <2> QED
    BY <2>1, <2>2, EvictFacts DEF SInv, TInv, ListBounded
<1>16. CASE UNCHANGED vars
  BY <1>16, <1>0 DEF vars, storeVars, indexVars, callVars, history, ListBounded
<1> QED
  BY <1>1, <1>2, <1>3, <1>4, <1>5, <1>6, <1>7, <1>8, <1>9, <1>10, <1>11, <1>12, <1>13,
     <1>14, <1>15, <1>16 DEF Next, Refresh

\* A reason for the directory of q outlives a step that does not touch it.
LEMMA AccountedKept ==
    ASSUME SInv, NEW q \in Problems, Accounted(q), slot'[q] = slot[q],
           removers'[q] = removers[q],
           ~disk[q].whole => ~disk'[q].whole,
           q \in Range(lru) => q \in Range(lru'),
           q \in leaked => q \in leaked',
           \A v \in Workers :
              slot[q] = v /\ pc[v] = "finish" /\ ~failed[v] => pc'[v] = "finish" /\ ~failed'[v]
    PROVE  Accounted(q)'
<1>1. slot[q] # NoWorker => slot[q] \in Workers
  BY DEF SInv, TInv, SlotsOK
<1> QED
  BY <1>1 DEF Accounted

\* Every directory stays accounted for.
LEMMA AccountsStep ==
    SInv /\ DirsAccounted /\ [Next]_vars => DirsAccounted'
<1> SUFFICES ASSUME SInv, DirsAccounted, [Next]_vars PROVE DirsAccounted'
  OBVIOUS
<1>0. /\ DirsAccounted /\ StoreOK /\ ListOK /\ SlotsOK /\ RemoversOK /\ CallsOK /\ JobsOK
      /\ FailedOK /\ SlotOwned /\ NoWorker \notin Workers
  BY CacheAssumption DEF SInv, TInv
<1>1. ASSUME NEW w \in Workers, NEW p \in Problems, EnsureTestcases(w, p) PROVE DirsAccounted'
  <2>1. /\ up /\ UNCHANGED <<disk, removers, leaked>> /\ pc[w] = "idle"
        /\ UNCHANGED lru \/ (p \in Range(lru) /\ lru' = MoveToFront(p))
        /\ \A v \in Workers \ {w} : pc'[v] = pc[v] /\ failed'[v] = failed[v]
        /\ UNCHANGED slot \/ (slot[p] = NoWorker /\ slot' = [slot EXCEPT ![p] = w])
    BY <1>1, <1>0 DEF EnsureTestcases, FastPath, Join, Lead, Goto, CallsOK, storeVars, indexVars,
                      history
  <2>2. Range(lru') = Range(lru)
    BY <2>1, <1>0, MoveToFrontFacts
  <2>3. \A v \in Workers : pc[v] = "finish" => v # w
    BY <2>1
  <2> SUFFICES ASSUME NEW q \in Problems, disk'[q] # NoDir PROVE Accounted(q)'
    BY <1>1 DEF EnsureTestcases, DirsAccounted
  <2>4. Accounted(q)
    BY <2>1, <1>0 DEF DirsAccounted
  <2>5. CASE slot'[q] = slot[q]
    BY <2>1, <2>2, <2>3, <2>4, <2>5, AccountedKept
  <2>6. CASE slot'[q] # slot[q]
    <3>1. slot[q] = NoWorker
      BY <2>1, <2>6, <1>0 DEF SlotsOK
    <3> QED
      BY <3>1, <2>1, <2>2, <2>4 DEF Accounted
  <2> QED
    BY <2>5, <2>6
<1>2. ASSUME NEW w \in Workers, Stat(w) PROVE DirsAccounted'
  <2>1. /\ up /\ UNCHANGED <<disk, slot, removers, leaked>>
        /\ \A v \in Workers : pc[v] = "finish" /\ ~failed[v] => pc'[v] = "finish" /\ ~failed'[v]
    BY <1>2, <1>0 DEF Stat, Goto, CallsOK, FailedOK, JobsOK, storeVars, indexVars, history
  <2>2. Range(lru') = Range(lru)
    BY <1>2 DEF Stat, indexVars
  <2> QED
    BY <2>1, <2>2, <1>0, AccountedKept DEF DirsAccounted
<1>3. ASSUME NEW w \in Workers, Compare(w) PROVE DirsAccounted'
  <2>1. /\ up /\ UNCHANGED <<disk, slot, removers, leaked>>
        /\ \A v \in Workers : pc[v] = "finish" /\ ~failed[v] => pc'[v] = "finish" /\ ~failed'[v]
    BY <1>3, <1>0 DEF Compare, Goto, CallsOK, FailedOK, JobsOK, storeVars, indexVars, history
  <2>2. Range(lru') = Range(lru)
    <3>1. UNCHANGED lru \/ (job[w] \in Range(lru) /\ lru' = MoveToFront(job[w]))
      BY <1>3 DEF Compare
    <3> QED
      BY <3>1, <1>0, MoveToFrontFacts
  <2> QED
    BY <2>1, <2>2, <1>0, AccountedKept DEF DirsAccounted
<1>4. ASSUME NEW w \in Workers, Download(w) PROVE DirsAccounted'
  <2>1. /\ up /\ UNCHANGED <<disk, slot, removers, leaked>>
        /\ \A v \in Workers : pc[v] = "finish" /\ ~failed[v] => pc'[v] = "finish" /\ ~failed'[v]
    BY <1>4, <1>0 DEF Download, Goto, CallsOK, FailedOK, JobsOK, storeVars, indexVars, history
  <2>2. Range(lru') = Range(lru)
    BY <1>4 DEF Download, indexVars
  <2> QED
    BY <2>1, <2>2, <1>0, AccountedKept DEF DirsAccounted
<1>5. ASSUME NEW w \in Workers, Replace(w) PROVE DirsAccounted'
  <2>0. /\ up /\ pc[w] = "replace" /\ job[w] \in Problems
        /\ UNCHANGED <<lru, slot, removers, leaked, failed>>
        /\ \A v \in Workers \ {w} : pc'[v] = pc[v]
    BY <1>5, <1>0 DEF Replace, Goto, JobsOK, CallsOK, indexVars, history
  <2>1. PICK e \in {0, disk[job[w]].etag} :
           disk' = [disk EXCEPT ![job[w]].whole = FALSE, ![job[w]].etag = e]
    BY <1>5 DEF Replace
  <2>2. /\ ~disk'[job[w]].whole
        /\ disk[job[w]] = NoDir => disk'[job[w]] = NoDir
        /\ \A q \in Problems \ {job[w]} : disk'[q] = disk[q]
    BY <2>0, <2>1, <1>0, TornFacts
  <2> SUFFICES ASSUME NEW q \in Problems, disk'[q] # NoDir PROVE Accounted(q)'
    BY DEF DirsAccounted
  <2>3. Accounted(q)
    BY <2>0, <2>2, <1>0 DEF DirsAccounted
  <2>4. ~disk[q].whole => ~disk'[q].whole
    BY <2>2
  <2> QED
    BY <2>0, <2>3, <2>4, AccountedKept
<1>6. ASSUME NEW w \in Workers, Rename(w) PROVE DirsAccounted'
  <2>0. /\ up /\ pc[w] = "rename" /\ job[w] \in Problems /\ ~failed[w] /\ pc'[w] = "finish"
        /\ UNCHANGED <<lru, slot, removers>> /\ leaked \subseteq leaked'
        /\ \A v \in Workers \ {w} : pc'[v] = pc[v] /\ failed'[v] = failed[v]
    BY <1>6, <1>0 DEF Rename, Goto, JobsOK, CallsOK, FailedOK, indexVars
  <2>1. slot[job[w]] = w
    BY <2>0, <1>0 DEF SlotOwned, InRefresh
  <2>2. \/ disk' = [disk EXCEPT ![job[w]] = staged[w]] /\ UNCHANGED failed
        \/ UNCHANGED disk /\ job[w] \in leaked'
        \/ disk' = [disk EXCEPT ![job[w]] = NoDir]
    BY <1>6 DEF Rename
  <2> SUFFICES ASSUME NEW q \in Problems, disk'[q] # NoDir PROVE Accounted(q)'
    BY DEF DirsAccounted
  <2>3. CASE q # job[w]
    <3>1. disk'[q] = disk[q]
      BY <2>2, <2>3, <1>0 DEF StoreOK
    <3>2. Accounted(q)
      BY <3>1, <2>0, <1>0 DEF DirsAccounted
    <3>3. slot[q] # w
      BY <2>3, <1>0 DEF SlotOwned
    <3> QED
      BY <3>1, <3>2, <3>3, <2>0, AccountedKept
  <2>4. CASE q = job[w]
    <3>1. job[w] \in leaked' \/ ~failed'[w]
      BY <2>0, <2>2, <2>4, <1>0 DEF StoreOK
    <3> QED
      BY <3>1, <2>0, <2>1, <2>4, <1>0 DEF Accounted
  <2> QED
    BY <2>3, <2>4
<1>7. ASSUME NEW w \in Workers, Finish(w) PROVE DirsAccounted'
  <2>0. /\ up /\ pc[w] = "finish" /\ job[w] \in Problems
        /\ UNCHANGED <<disk, leaked, failed>>
        /\ slot' = [slot EXCEPT ![job[w]] = NoWorker]
        /\ \A v \in Workers \ {w} : pc'[v] = pc[v]
    BY <1>7, <1>0 DEF Finish, Goto, JobsOK, CallsOK, storeVars
  <2>1. slot[job[w]] = w
    BY <2>0, <1>0 DEF SlotOwned, InRefresh
  <2> SUFFICES ASSUME NEW q \in Problems, disk'[q] # NoDir PROVE Accounted(q)'
    BY DEF DirsAccounted
  <2>2. Accounted(q)
    BY <2>0, <1>0 DEF DirsAccounted
  <2>3. q # job[w] => slot'[q] = slot[q] /\ slot[q] # w
    BY <2>0, <1>0 DEF SlotsOK, SlotOwned
  <2>4. CASE failed[w]
    <3>1. UNCHANGED <<lru, removers>>
      BY <1>7, <2>4 DEF Finish
    <3>2. CASE q = job[w]
      BY <3>1, <3>2, <2>0, <2>1, <2>2, <2>4 DEF Accounted
    <3>3. CASE q # job[w]
      BY <3>1, <3>3, <2>0, <2>2, <2>3, AccountedKept
    <3> QED
      BY <3>2, <3>3
  <2>5. CASE ~failed[w]
    <3>1. /\ job[w] \in Range(lru')
          /\ removers'[q].working = removers[q].working
          /\ removers[q].waiting > 0 => removers'[q].waiting > 0
          /\ q \in Range(lru) => q \in Range(lru') \/ removers'[q].waiting > 0
      BY <2>0, <2>5, <1>7, PromoteFacts DEF Finish, SInv, TInv
    <3>2. CASE q = job[w]
      BY <3>1, <3>2 DEF Accounted
    <3>3. CASE q # job[w]
      <4>1. slot[q] # NoWorker => slot[q] \in Workers \ {w}
        BY <3>3, <2>3, <1>0 DEF SlotsOK
      <4> QED
        BY <4>1, <3>1, <3>3, <2>0, <2>2, <2>3 DEF Accounted
    <3> QED
      BY <3>2, <3>3
  <2> QED
    BY <2>4, <2>5
<1>8. ASSUME NEW w \in Workers, Close(w) PROVE DirsAccounted'
  <2>1. /\ pc[w] = "close" /\ UNCHANGED <<disk, slot, removers, leaked, lru>>
        /\ \A v \in Workers : pc[v] = "finish" => v # w /\ pc'[v] = pc[v]
        /\ \A v \in Workers \ {w} : failed'[v] = failed[v]
    BY <1>8, CloseFacts DEF SInv, storeVars, indexVars, history
  <2>2. up
    BY <2>1, <1>0 DEF JobsOK
  <2> QED
    BY <2>1, <2>2, <1>0, AccountedKept DEF DirsAccounted
<1>9. ASSUME NEW w \in Workers, Release(w) PROVE DirsAccounted'
  <2>1. /\ up /\ UNCHANGED <<disk, slot, removers, leaked>>
        /\ \A v \in Workers : pc[v] = "finish" /\ ~failed[v] => pc'[v] = "finish" /\ ~failed'[v]
    BY <1>9, <1>0 DEF Release, Goto, CallsOK, FailedOK, JobsOK, storeVars, indexVars, history
  <2>2. Range(lru') = Range(lru)
    BY <1>9 DEF Release, indexVars
  <2> QED
    BY <2>1, <2>2, <1>0, AccountedKept DEF DirsAccounted
<1>10. ASSUME NEW p \in Problems, RemoveBegins(p) PROVE DirsAccounted'
  <2>0. /\ UNCHANGED <<up, lru, slot, leaked, pc, failed>> /\ removers[p].waiting > 0
        /\ removers[p] \in [waiting : Nat, working : Nat]
    BY <1>10, <1>0 DEF RemoveBegins, indexVars, callVars, history, RemoversOK
  <2> SUFFICES ASSUME up, NEW q \in Problems, disk'[q] # NoDir PROVE Accounted(q)'
    BY <2>0 DEF DirsAccounted
  <2>1. CASE disk[p] = NoDir
    <3>1. UNCHANGED disk /\ removers' = [removers EXCEPT ![p].waiting = @ - 1]
      BY <1>10, <2>1 DEF RemoveBegins
    <3>2. q # p /\ removers'[q] = removers[q] /\ Accounted(q)
      BY <3>1, <2>1, <1>0 DEF RemoversOK, DirsAccounted
    <3> QED
      BY <3>1, <3>2, <2>0, AccountedKept
  <2>2. CASE disk[p] # NoDir
    <3> DEFINE r == [waiting |-> removers[p].waiting - 1, working |-> removers[p].working + 1]
    <3>1. removers' = [removers EXCEPT ![p] = r]
      BY <1>10, <2>2 DEF RemoveBegins
    <3>r. r.working > 0
      BY <2>0
    <3> HIDE DEF r
    <3>2. PICK e \in {0, disk[p].etag} :
             disk' = [disk EXCEPT ![p].whole = FALSE, ![p].etag = e]
      BY <1>10, <2>2 DEF RemoveBegins
    <3>3. ~disk'[p].whole /\ \A x \in Problems \ {p} : disk'[x] = disk[x]
      BY <3>2, <1>0, TornFacts
    <3>4. CASE q = p
      BY <3>1, <3>r, <3>3, <3>4, <1>0 DEF Accounted, RemoversOK
    <3>5. CASE q # p
      <4>1. removers'[q] = removers[q] /\ disk'[q] = disk[q] /\ Accounted(q)
        BY <3>1, <3>3, <3>5, <1>0 DEF RemoversOK, DirsAccounted
      <4> QED
        BY <4>1, <2>0, AccountedKept
    <3> QED
      BY <3>4, <3>5
  <2> QED
    BY <2>1, <2>2
<1>11. ASSUME NEW p \in Problems, RemoveEnds(p) PROVE DirsAccounted'
  <2> DEFINE r == [removers[p] EXCEPT !.working = removers[p].working - 1]
  <2>0. /\ UNCHANGED <<up, lru, slot, pc, failed>> /\ leaked \subseteq leaked'
        /\ removers[p] \in [waiting : Nat, working : Nat]
        /\ removers' = [removers EXCEPT ![p] = r]
    BY <1>11, <1>0 DEF RemoveEnds, indexVars, callVars, RemoversOK
  <2>r. r.waiting = removers[p].waiting
    BY <2>0
  <2> HIDE DEF r
  <2>1. \/ disk' = [disk EXCEPT ![p] = NoDir]
        \/ disk[p].whole /\ UNCHANGED disk
        \/ p \in leaked' /\ UNCHANGED disk
    BY <1>11 DEF RemoveEnds
  <2> SUFFICES ASSUME up, NEW q \in Problems, disk'[q] # NoDir PROVE Accounted(q)'
    BY <2>0 DEF DirsAccounted
  <2>2. disk'[q] = disk[q] /\ Accounted(q)
    BY <2>1, <1>0 DEF StoreOK, DirsAccounted
  <2>3. CASE q # p
    <3>1. removers'[q] = removers[q]
      BY <2>0, <2>3, <1>0 DEF RemoversOK
    <3> QED
      BY <3>1, <2>0, <2>2, AccountedKept
  <2>4. CASE q = p
    <3>1. removers'[p].waiting = removers[p].waiting
      BY <2>0, <2>r, <1>0 DEF RemoversOK
    <3>2. disk[p].whole \/ p \in leaked'
      BY <2>1, <2>2, <2>4, <1>0 DEF StoreOK
    <3> QED
      BY <3>1, <3>2, <2>0, <2>2, <2>4 DEF Accounted
  <2> QED
    BY <2>3, <2>4
<1>12. ASSUME NEW p \in Problems, Upload(p) PROVE DirsAccounted'
  BY <1>12, <1>0 DEF Upload, storeVars, indexVars, callVars, history, DirsAccounted,
     Accounted
<1>13. ASSUME NEW p \in Problems, Expire(p) PROVE DirsAccounted'
  BY <1>13, <1>0 DEF Expire, storeVars, indexVars, callVars, history, DirsAccounted,
     Accounted
<1>14. CASE Crash
  <2>1. ~up'
    BY <1>14 DEF Crash
  <2> QED
    BY <2>1 DEF DirsAccounted
<1>15. CASE Prune
  <2>0. PICK found \in SUBSET OnDisk :
           /\ \E list \in SetToSeqs(found) : evictIfNeeded(list)
           /\ leaked' = OnDisk \ found
    BY <1>15 DEF Prune
  <2>1. PICK list \in SetToSeqs(found) : evictIfNeeded(list)
    BY <2>0
  <2>2. UNCHANGED disk /\ \A q \in Problems : disk[q] # NoDir => q \in found \/ q \in leaked'
    BY <2>0, <1>15 DEF Prune, storeVars, OnDisk
  <2>3. list \in Seq(Problems) /\ Range(list) = found
    BY FoundFacts DEF OnDisk
  <2>4. \A q \in Problems : q \in found => q \in Range(lru') \/ removers'[q].waiting > 0
    BY <2>1, <2>3, EvictFacts DEF SInv, TInv
  <2> QED
    BY <2>2, <2>4 DEF DirsAccounted, Accounted
<1>16. CASE UNCHANGED vars
  BY <1>16, <1>0 DEF vars, storeVars, indexVars, callVars, history, DirsAccounted,
     Accounted
<1> QED
  BY <1>1, <1>2, <1>3, <1>4, <1>5, <1>6, <1>7, <1>8, <1>9, <1>10, <1>11, <1>12, <1>13,
     <1>14, <1>15, <1>16 DEF Next, Refresh

\* The invariant holds at the start.
LEMMA DInvInit == Init => DInv
<1> SUFFICES ASSUME Init PROVE DInv
  OBVIOUS
<1>1. SInv
  BY SInvInit
<1>2. ListBounded /\ DirsAccounted
  BY CacheAssumption DEF Init, ListBounded, DirsAccounted
<1> QED
  BY <1>1, <1>2 DEF DInv

\* Every step keeps it.
LEMMA DInvStep == DInv /\ [Next]_vars => DInv'
BY SInvStep, ListBoundedStep, AccountsStep DEF DInv

\* The list never exceeds maxEntries and holds no problem twice; a directory that is
\* not on it is about to be removed, being refreshed, or was left behind by a failed
\* RemoveAll: the cache does not fill the disk, however refreshes, evictions and
\* crashes interleave.
THEOREM DiskIsBoundedHolds == Spec => []DiskIsBounded
<1>1. DInv => DiskIsBounded
  <2> SUFFICES ASSUME DInv PROVE DiskIsBounded
    OBVIOUS
  <2>0. TInv /\ ListBounded /\ DirsAccounted
    BY DEF DInv, SInv
  <2>1. Cardinality(Range(lru)) = Len(lru)
    <3> DEFINE n == Len(lru)
    <3>1. n \in Nat /\ DOMAIN lru = 1 .. n /\ lru \in [1 .. n -> Range(lru)]
      BY <2>0 DEF TInv, ListOK, Range
    <3>2. IsFiniteSet(1 .. n) /\ Cardinality(1 .. n) = n
      BY <3>1, FS_Interval
    <3> HIDE DEF n
    <3>3. lru \in Surjection(1 .. n, Range(lru))
      BY <3>1 DEF Surjection, Range
    <3>4. lru \in Injection(1 .. n, Range(lru))
      BY <3>1, <2>0 DEF Injection, IsInjective, ListBounded
    <3>5. Cardinality(Range(lru)) = n
      BY <3>2, <3>3, <3>4, FS_Surjection
    <3> QED
      BY <3>5 DEF n
  <2>2. ASSUME NEW p \in Problems, removers[p] = Idle(p)
        PROVE  ~(removers[p].waiting > 0) /\ ~(removers[p].working > 0)
    <3>1. removers[p] = [waiting |-> 0, working |-> 0]
      BY <2>2 DEF Idle
    <3> QED
      BY <3>1
  <2>3. ASSUME up, NEW p \in Problems, disk[p] # NoDir
        PROVE  p \in Range(lru) \/ removers[p] # Idle(p) \/ slot[p] # NoWorker \/ p \in leaked
    BY <2>0, <2>2, <2>3 DEF DirsAccounted, Accounted
  <2> QED
    BY <2>0, <2>1, <2>3 DEF DiskIsBounded, ListBounded
<1> QED
  BY DInvInit, DInvStep, <1>1, PTL DEF Spec

=============================================================================
