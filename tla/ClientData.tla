----------------------------- MODULE ClientData -----------------------------
(***************************************************************************)
(* The public data of the bridge clients and the data store they share,   *)
(* with the operator's private data.  A client keeps copies of the peg-out *)
(* graphs; a command reads the store (sync), changes the copies, and       *)
(* pushes a new file (flush).  Files are named by the writer's clock, a    *)
(* client remembers the newest file it has processed, and a fresh client   *)
(* reads the newest valid file and those up to Period older.               *)
(*                                                                         *)
(* A copy keeps apart what PegOutGraph::merge takes over (the verifiers'   *)
(* signatures) from what it does not: the chain event and the peg-out      *)
(* transaction stay what the first copy had.                               *)
(***************************************************************************)
EXTENDS Naturals, Sequences, FiniteSets, FiniteSetsExt, Functions

CONSTANTS
  Configured,   \* the data store drivers the clients may be configured with
  Operator,     \* the client with the operator context
  Verifiers,    \* the clients with a verifier context
  Graphs,       \* peg-out graphs of this operator, one per peg-in
  Period,       \* TEN_MINUTES, in ticks of the clock
  MaxClock,     \* bound on the clock
  MaxKeys,      \* bound on the sets of commitment secrets
  MaxFaults      \* bound on restarts, failed reads and uploads, and overlaps

ASSUME ClientDataAssumption ==
  /\ Operator \notin Verifiers
  /\ IsFiniteSet(Graphs)
  /\ {Period, MaxClock, MaxKeys, MaxFaults} \subseteq Nat /\ MaxClock # 0

Clients == {Operator} \cup Verifiers

VARIABLES
  driver,    \* what the configured data store driver promises
  clock,     \* SystemTime::now, in ticks
  store,     \* the files of the store: name -> [ok, data]
  pc,        \* per client: where it is in its command
  data,      \* per client: BitVMClient::data, its copy of each graph
  latest,    \* per client: latest_processed_file_name, 0 for None
  upload,    \* per client: the name of the file being uploaded, 0 for none
  secrets,   \* the operator's commitment_secrets: graph -> key, 0 for none
  keys,      \* number of sets of commitment secrets generated so far
  payments,  \* per graph: peg-out transactions on the Bitcoin chain
  faults,     \* number of restarts, failed reads and uploads, and overlaps so far
  restarted,  \* TRUE once a client has restarted
  unread,     \* per client: the valid files that its flush under way has missed
  overlooked, \* files that a later file may lack, or that came too late to be read
  blind,      \* TRUE while the operator's last sync has missed a file
  recreated   \* TRUE once it created a graph all the same

watchVars == <<unread, overlooked, blind, recreated>>
vars == <<driver, clock, store, pc, data, latest, upload, secrets, keys,
          payments, faults, restarted, watchVars>>

-----------------------------------------------------------------------------
(* The drivers.  "overwrites": an upload replaces a file of the same name;  *)
(* "short": one write call, whose short count is reported as success;       *)
(* "torn": a failing upload may leave a part of the file behind.            *)

LocalFile == [overwrites |-> TRUE, short |-> FALSE, torn |-> TRUE]

AwsS3 == [overwrites |-> TRUE, short |-> FALSE, torn |-> FALSE]

upload_file == [overwrites |-> TRUE, short |-> TRUE, torn |-> TRUE]

Ftp == upload_file

Ftps == upload_file

Sftp == [overwrites |-> FALSE, short |-> TRUE, torn |-> TRUE]

\* get_driver takes the first driver configured.  What can come of an upload
\* with any of them can come of one by FTP.
Drivers == {LocalFile, AwsS3, Ftp, Ftps, Sftp}

ASSUME DriverAssumption == Configured \subseteq Drivers

-----------------------------------------------------------------------------
NoCopy == [key |-> 0, sigs |-> {}, event |-> FALSE, tx |-> FALSE]

\* Mutant: secrets counted from one too many
NewCopyNext(k) == [NoCopy EXCEPT !.key = k + 1]

\* PegOutGraph::new with commitments to the k-th set of secrets
NewCopy(k) == [NoCopy EXCEPT !.key = k]

Copy == [key : 0..MaxKeys, sigs : SUBSET Verifiers, event : BOOLEAN, tx : BOOLEAN]

NoData == [g \in Graphs |-> NoCopy]

\* Mutant: the copy of the file wins
MergeTheirs(mine, theirs) ==
  IF theirs = NoCopy THEN mine
  ELSE [theirs EXCEPT !.sigs = @ \cup mine.sigs]

\* A graph that is known keeps everything but the signatures it lacks; one
\* that is not is cloned.
MergeGraph(mine, theirs) ==
  IF mine = NoCopy THEN theirs
  ELSE [mine EXCEPT !.sigs = @ \cup theirs.sigs]

merge_data(mine, theirs) == [g \in Graphs |-> MergeGraph(mine[g], theirs[g])]

\* The orders in which the names, the timestamps of the files, are gone through
OldestFirst == [i \in 1..MaxClock |-> i]
NewestFirst == [i \in 1..MaxClock |-> MaxClock + 1 - i]

\* The named files, those whose download succeeds, are merged one after the
\* other; one that is not whole is skipped.
process_files(mine, names, order) ==
  LET merged[i \in 0..MaxClock] ==
        IF i = 0 THEN mine
        ELSE IF order[i] \in names /\ store[order[i]].ok
             THEN merge_data(merged[i - 1], store[order[i]].data)
             ELSE merged[i - 1]
  IN  merged[MaxClock]

get_file_names == DOMAIN store

\* Mutant: the file right after the latest one is skipped
LatestSkippingOne(c) ==
  {n \in get_file_names : latest[c] \in get_file_names => n > latest[c] + 1}

get_latest_file_names(c) ==
  {n \in get_file_names : latest[c] \in get_file_names => n > latest[c]}

Valid(names) == {n \in names : store[n].ok}

get_past_max_file_name_by_timestamp(n) == IF n > Period THEN n - Period ELSE 0

\* The files before the newest valid one that are in the time window
filter_files_names_by_timestamp(names, newest) ==
  {n \in names : n < newest /\ n >= get_past_max_file_name_by_timestamp(newest)}

-----------------------------------------------------------------------------
Init ==
  /\ driver \in Configured
  /\ clock = 1
  /\ store = <<>>
  /\ pc = [c \in Clients |-> "idle"]
  /\ data = [c \in Clients |-> NoData]
  /\ latest = [c \in Clients |-> 0]
  /\ upload = [c \in Clients |-> 0]
  /\ secrets = [g \in Graphs |-> 0]
  /\ keys = 0
  /\ payments = [g \in Graphs |-> 0]
  /\ faults = 0
  /\ restarted = FALSE
  /\ unread = [c \in Clients |-> {}]
  /\ overlooked = {}
  /\ blind = FALSE
  /\ recreated = FALSE

Tick ==
  /\ clock < MaxClock
  /\ clock' = clock + 1
  /\ UNCHANGED <<driver, store, pc, data, latest, upload, secrets, keys,
                 payments, faults, restarted, watchVars>>

-----------------------------------------------------------------------------
(* A command: sync, at most one change, flush.                              *)

\* Mutant: the newest file is named, and not merged
ReadWithoutNewest(c, failed) ==
  LET names  == get_latest_file_names(c) \ failed
      newest == Max(Valid(names))
  IN IF Valid(names) = {} THEN UNCHANGED <<data, latest>>
     ELSE /\ latest' = [latest EXCEPT ![c] = newest]
          /\ data' = [data EXCEPT ![c] =
               process_files(@, filter_files_names_by_timestamp(names, newest),
                             OldestFirst)]

\* read_from_data_store: the newest valid file among the unread ones names
\* the files to process; it is merged last.  A file whose download fails, or
\* that cannot be validated because Esplora does not answer, passes for an
\* invalid one.
read_from_data_store(c, failed) ==
  LET names  == get_latest_file_names(c) \ failed
      newest == Max(Valid(names))
  IN IF Valid(names) = {} THEN UNCHANGED <<data, latest>>
     ELSE /\ latest' = [latest EXCEPT ![c] = newest]
          /\ data' = [data EXCEPT ![c] =
               process_files(@, filter_files_names_by_timestamp(names, newest) \cup {newest},
                             OldestFirst)]

Fault(happens) ==
  /\ happens => faults < MaxFaults
  /\ faults' = IF happens THEN faults + 1 ELSE faults

\* The valid files later than all that c reads when those in failed fail.
Missed(c, failed) ==
  LET names == get_latest_file_names(c)
  IN  {n \in Valid(names) : \A m \in Valid(names \ failed) : m < n}

\* A listing that fails, for want of the network or of the directory, is as if
\* every download failed: the command goes on with what the client has.
Sync(c, failed) ==
  /\ pc[c] = "idle"
  /\ failed \subseteq get_latest_file_names(c)
  /\ Fault(failed # {})
  /\ read_from_data_store(c, failed)
  /\ pc' = [pc EXCEPT ![c] = "synced"]
  /\ blind' = IF c = Operator THEN Missed(c, failed) # {} ELSE blind
  /\ UNCHANGED <<driver, clock, store, upload, secrets, keys, payments, restarted>>
  /\ UNCHANGED <<unread, overlooked, recreated>>

\* What the last sync missed matters until the operator's command goes on.
Sighted(c) == blind' = (c # Operator /\ blind)

\* A command that found nothing to change, or only reported a status
NothingToDo(c) ==
  /\ pc[c] = "synced"
  /\ pc' = [pc EXCEPT ![c] = "idle"]
  /\ Sighted(c)
  /\ UNCHANGED <<driver, clock, store, data, latest, upload, secrets, keys,
                 payments, faults, restarted, unread, overlooked, recreated>>

Change(c, g, copy) ==
  /\ pc[c] = "synced"
  /\ data' = [data EXCEPT ![c][g] = copy]
  /\ pc' = [pc EXCEPT ![c] = "changed"]
  /\ Sighted(c)
  /\ UNCHANGED <<driver, clock, store, latest, upload, faults, restarted>>
  /\ UNCHANGED <<unread, overlooked>>

\* The secrets of every other graph are dropped: the map is rebuilt from the
\* new graph alone, and saved.
StoredSecrets(g, k) == [h \in Graphs |-> IF h = g THEN k ELSE 0]

\* Mutant: a graph that exists is created again
CreateAgain(g) ==
  /\ keys < MaxKeys
  /\ keys' = keys + 1
  /\ secrets' = StoredSecrets(g, keys + 1)
  /\ Change(Operator, g, NewCopy(keys + 1))
  /\ recreated' = (recreated \/ blind)
  /\ UNCHANGED payments

create_peg_out_graph(g) ==
  /\ data[Operator][g] = NoCopy
  /\ keys < MaxKeys
  /\ keys' = keys + 1
  /\ secrets' = StoredSecrets(g, keys + 1)
  /\ Change(Operator, g, NewCopy(keys + 1))
  /\ recreated' = (recreated \/ blind)
  /\ UNCHANGED payments

push_verifier_signature(c, g) ==
  /\ c \in Verifiers
  /\ data[c][g] # NoCopy
  /\ Change(c, g, [data[c][g] EXCEPT !.sigs = @ \cup {c}])
  /\ UNCHANGED <<secrets, keys, payments, recreated>>

\* broadcast_peg_out: a copy with a transaction never makes another one
peg_out(g) ==
  LET mine == data[Operator][g] IN
  /\ mine.event
  /\ ~mine.tx
  /\ payments' = [payments EXCEPT ![g] = @ + 1]
  /\ Change(Operator, g, [mine EXCEPT !.tx = TRUE])
  /\ UNCHANGED <<secrets, keys, recreated>>

\* Mutant: the elements after the removed one are lost
Truncate(s, i) == SubSeq(s, 1, i - 1)

\* Vec::swap_remove: the last element takes the place of the removed one
swap_remove(s, i) ==
  [j \in 1..(Len(s) - 1) |-> IF j = i THEN s[Len(s)] ELSE s[j]]

\* The events of g are taken out one by one, each at the index it had in the
\* whole list s: once the list is too short for an index, swap_remove panics.
remove_matches(s, g) ==
  LET left[i \in 0..Len(s)] ==
        IF i = 0 THEN [events |-> s, panics |-> FALSE]
        ELSE IF s[i] # g \/ left[i - 1].panics THEN left[i - 1]
        ELSE IF i > Len(left[i - 1].events)
        THEN [left[i - 1] EXCEPT !.panics = TRUE]
        ELSE [left[i - 1] EXCEPT !.events = swap_remove(@, i)]
  IN  left[Len(s)]

EventsOf(s, g) == {i \in DOMAIN s : s[i] = g}

\* match_and_set_peg_out_event on what the graphs before this one left over: a
\* graph takes the only event that names it, and none when there are several.
match_event(acc, g) ==
  LET rest == remove_matches(acc.events, g)
  IN  [ events  |-> rest.events,
        panics  |-> rest.panics,
        matched |-> IF Cardinality(EventsOf(acc.events, g)) = 1
                    THEN acc.matched \cup {g} ELSE acc.matched ]

\* The graphs that wait for an event are matched one after the other.
read_from_l2(waiting, events, order) ==
  LET acc[i \in 0..Len(order)] ==
        IF i = 0 THEN [events |-> events, panics |-> FALSE, matched |-> {}]
        ELSE IF acc[i - 1].panics \/ order[i] \notin waiting THEN acc[i - 1]
        ELSE match_event(acc[i - 1], order[i])
  IN  acc[Len(order)]

\* The peg-outs initiated on the L2 chain, in any order and any of them more than
\* once (bound: one more event than there are graphs).  The event of a graph
\* that does not wait for one is like an event of another operator's.
EventLists == UNION {[1..n -> Graphs] : n \in 0..(Cardinality(Graphs) + 1)}

\* The orders the graphs of a client's data may be in
Orders == {o \in [1..Cardinality(Graphs) -> Graphs] : Range(o) = Graphs}

\* The graphs matched, for each set of graphs that wait for an event, and
\* whether a list of events makes matching panic.
Matchings ==
  [waiting \in SUBSET Graphs |->
    {m.matched : m \in {r \in {read_from_l2(waiting, events, order) :
                                events \in EventLists, order \in Orders} : ~r.panics}}]

Panics ==
  [waiting \in SUBSET Graphs |->
    \E events \in EventLists, order \in Orders :
      read_from_l2(waiting, events, order).panics]

Waiting(copies) == {g \in Graphs : copies[g] # NoCopy /\ ~copies[g].event}

\* sync_l2 of the operator, whatever the order of the graphs in its data
SyncL2 ==
  /\ pc[Operator] = "synced"
  /\ \E matched \in Matchings[Waiting(data[Operator])] :
       data' = [data EXCEPT ![Operator] =
                  [g \in Graphs |-> IF g \in matched
                                    THEN [@[g] EXCEPT !.event = TRUE] ELSE @[g]]]
  /\ pc' = [pc EXCEPT ![Operator] = "changed"]
  /\ Sighted(Operator)
  /\ UNCHANGED <<driver, clock, store, latest, upload, secrets, keys, payments,
                 faults, restarted, unread, overlooked, recreated>>

\* A client starts again: only the private data is read back.
Forget(c) ==
  /\ Fault(TRUE)
  /\ restarted' = TRUE
  /\ data' = [data EXCEPT ![c] = NoData]
  /\ latest' = [latest EXCEPT ![c] = 0]
  /\ upload' = [upload EXCEPT ![c] = 0]
  /\ unread' = [unread EXCEPT ![c] = {}]
  /\ pc' = [pc EXCEPT ![c] = "idle"]
  /\ Sighted(c)
  /\ UNCHANGED <<driver, clock, store, secrets, keys, payments>>
  /\ UNCHANGED <<overlooked, recreated>>

\* The panic of swap_remove ends the process.
SyncL2Panics ==
  /\ pc[Operator] = "synced"
  /\ Panics[Waiting(data[Operator])]
  /\ Forget(Operator)

\* start_time, kick_off_1, kick_off_2, assert_commit_*: a broadcast that signs
\* with the graph's secrets panics when they are not there.
CommitmentBroadcast(g) ==
  /\ pc[Operator] = "synced"
  /\ data[Operator][g] # NoCopy
  /\ secrets[g] = 0
  /\ Forget(Operator)

-----------------------------------------------------------------------------
(* save_to_data_store: merge what is new, newest file first, then push.     *)

Overlaps ==
  \/ \E d \in Clients : upload[d] # 0
  \/ \E n \in DOMAIN store : n >= clock

\* A flush that cannot list the store keeps the name of the latest file; one that
\* finds no valid file forgets it.
FlushMerge(c, listed, failed) ==
  LET names == get_latest_file_names(c) \ failed IN
  /\ pc[c] = "changed"
  /\ failed \subseteq get_latest_file_names(c)
  /\ ~listed => failed = get_latest_file_names(c)
  /\ Fault(~listed \/ failed # {} \/ Overlaps)
  /\ data' = [data EXCEPT ![c] = process_files(@, names, NewestFirst)]
  /\ latest' = IF ~listed THEN latest
               ELSE [latest EXCEPT ![c] =
                       IF Valid(names) = {} THEN 0 ELSE Max(Valid(names))]
  /\ upload' = [upload EXCEPT ![c] = clock]
  /\ unread' = [unread EXCEPT ![c] = Missed(c, failed)]
  /\ pc' = [pc EXCEPT ![c] = "pushing"]
  /\ UNCHANGED <<driver, clock, store, secrets, keys, payments, restarted>>
  /\ UNCHANGED <<overlooked, blind, recreated>>

Put(c, ok) == [n \in DOMAIN store \cup {upload[c]} |->
                 IF n = upload[c] THEN [ok |-> ok, data |-> IF ok THEN data[c] ELSE NoData]
                 ELSE store[n]]

Writable(c) == driver.overwrites \/ upload[c] \notin DOMAIN store

Pushed(c) ==
  /\ pc' = [pc EXCEPT ![c] = "idle"]
  /\ upload' = [upload EXCEPT ![c] = 0]
  /\ UNCHANGED <<driver, clock, data, secrets, keys, payments, restarted>>
  /\ UNCHANGED <<blind, recreated>>

\* A file that is not named after all the others.
Late(c) == {n \in {upload[c]} : \E m \in DOMAIN store : n <= m}

\* The upload is reported as done; after a short write the file is not whole.
\* Another flush under way does not have it.
FlushPush(c, whole) ==
  /\ pc[c] = "pushing"
  /\ Writable(c)
  /\ whole \/ driver.short
  /\ Fault(~whole)
  /\ store' = Put(c, whole)
  /\ latest' = [latest EXCEPT ![c] = upload[c]]
  /\ overlooked' = overlooked \cup unread[c] \cup Late(c)
  /\ unread' = [d \in Clients |->
                  IF d = c THEN {}
                  ELSE unread[d] \cup {n \in {upload[c]} : n <= upload[d]}]
  /\ Pushed(c)

\* The upload fails; some drivers leave a part of the file
FlushFail(c, rest) ==
  /\ pc[c] = "pushing"
  /\ rest => driver.torn /\ Writable(c)
  /\ Fault(TRUE)
  /\ store' = IF rest THEN Put(c, FALSE) ELSE store
  /\ overlooked' = IF rest THEN overlooked \cup Late(c) ELSE overlooked
  /\ unread' = [unread EXCEPT ![c] = {}]
  /\ UNCHANGED latest
  /\ Pushed(c)

\* BitVMClient::new
Restart(c) == Forget(c)

Step(c) ==
  \/ \E failed \in SUBSET get_latest_file_names(c) :
       \/ Sync(c, failed)
       \/ \E listed \in BOOLEAN : FlushMerge(c, listed, failed)
  \/ NothingToDo(c)
  \/ \E g \in Graphs : push_verifier_signature(c, g)
  \/ \E whole \in BOOLEAN : FlushPush(c, whole)
  \/ \E rest \in BOOLEAN : FlushFail(c, rest)
  \/ Restart(c)

Next ==
  \/ Tick
  \/ SyncL2 \/ SyncL2Panics
  \/ \E g \in Graphs : \/ create_peg_out_graph(g)
                       \/ peg_out(g)
                       \/ CommitmentBroadcast(g)
  \/ \E c \in Clients : Step(c)

Spec == Init /\ [][Next]_vars

-----------------------------------------------------------------------------
ClientTypeOK ==
  /\ driver \in Configured
  /\ clock \in 1..MaxClock
  /\ DOMAIN store \subseteq 1..MaxClock
  /\ \A n \in DOMAIN store : store[n] \in [ok : BOOLEAN, data : [Graphs -> Copy]]
  /\ pc \in [Clients -> {"idle", "synced", "changed", "pushing"}]
  /\ data \in [Clients -> [Graphs -> Copy]]
  /\ latest \in [Clients -> 0..MaxClock]
  /\ upload \in [Clients -> 0..MaxClock]
  /\ secrets \in [Graphs -> 0..MaxKeys]
  /\ keys \in 0..MaxKeys
  /\ payments \in [Graphs -> Nat]
  /\ faults \in 0..MaxFaults
  /\ restarted \in BOOLEAN
  /\ unread \in [Clients -> SUBSET (1..MaxClock)]
  /\ overlooked \subseteq 1..MaxClock
  /\ blind \in BOOLEAN /\ recreated \in BOOLEAN

\* d holds every graph of e, and its signatures
Includes(d, e) ==
  \A g \in Graphs : e[g] # NoCopy => d[g] # NoCopy /\ e[g].sigs \subseteq d[g].sigs

ValidFiles == {n \in DOMAIN store : store[n].ok}

(* What a client has pushed is in the newest valid file, through crashes,  *)
(* failed downloads, failed and short uploads: save_to_data_store merges    *)
(* every unread file before it writes, an older file that it cannot read is *)
(* repeated by the newest one that it can, and forgetting the latest file   *)
(* name only makes it read more.  The exceptions are the files a flush had  *)
(* no chance to read, or found nothing newer than: those it overlooked.     *)
NothingLost ==
  \A n \in ValidFiles \ overlooked :
    Includes(store[Max(ValidFiles)].data, store[n].data)

(* A sync in which nothing fails leaves the client with all that is in the  *)
(* store, and one in which downloads fail with all that is in the files up  *)
(* to the one it names as its latest: neither the window nor a file that it *)
(* skips hides anything, but for what was overlooked.                       *)
SyncComplete ==
  [][\A c \in Clients : pc[c] = "idle" /\ pc'[c] = "synced" =>
       \A n \in ValidFiles \ overlooked :
         faults' = faults \/ n <= latest'[c] => Includes(data'[c], store[n].data)]_vars

\* The sets of commitment secrets behind the copies of a graph, 0 for no copy
KeysUsed(g) ==
  {data[c][g].key : c \in Clients} \cup {store[n].data[g].key : n \in ValidFiles}

(* Every copy of a graph was made from the same set of commitment secrets, *)
(* and the secrets the operator holds are the ones the copy needs: an       *)
(* operator that crashes and creates its graph again does not leave two     *)
(* graphs of one id behind.  It can when its sync missed a file, or when a  *)
(* file was overlooked.                                                     *)
CopiesAgree ==
  overlooked = {} /\ ~recreated => \A g \in Graphs :
    LET used == KeysUsed(g) IN
    /\ Cardinality(used \ {0}) <= 1
    /\ secrets[g] # 0 => used \subseteq {0, secrets[g]}

(* An operator that has not restarted pays a withdrawer once: merging files *)
(* never takes the peg-out transaction out of its copy.  (After a restart   *)
(* the copy is cloned from the oldest file in the window, and may lack it.) *)
PaidTwiceOnlyAfterRestart ==
  ~restarted => \A g \in Graphs : payments[g] <= 1

\* The waiting graphs are matched as they should be, whatever the order of the
\* events and of the graphs.
MatchedRight ==
  [waiting \in SUBSET Graphs |->
    \A events \in EventLists, order \in Orders :
      LET m    == read_from_l2(waiting, events, order)
          N(g) == Cardinality(EventsOf(events, g))
      IN  IF m.panics THEN \E g \in waiting : N(g) > 1
          ELSE m.matched = {g \in waiting : N(g) = 1}]

(* sync_l2 gives every waiting graph its peg-out event when the list has     *)
(* exactly one, whatever the order of the events and of the graphs that took *)
(* theirs before, and whatever was taken out of the list for them; it panics *)
(* on no list that has at most one event per waiting graph.                  *)
EventsMatched ==
  pc[Operator] = "synced" => MatchedRight[Waiting(data[Operator])]

-----------------------------------------------------------------------------
(***************************************************************************)
(* Why they hold.  A file includes those before it, but for the ones that  *)
(* were overlooked.  A client therefore knows all that is in the files up  *)
(* to the latest one it has processed, whichever of them it could read,    *)
(* and right after a sync that missed nothing the operator knows of a      *)
(* graph if any file does: it does not make one that exists.               *)
(***************************************************************************)

InStore(g) == \E n \in ValidFiles : store[n].data[g] # NoCopy

\* Only a graph that does not exist is made from no secrets.
WellFormed(d) == \A g \in Graphs : d[g].key = 0 => d[g] = NoCopy

\* Names: a file is named after a moment that has passed, and what a client
\* remembers as its latest file is one.
NamesSound ==
  /\ \A n \in DOMAIN store : n <= clock
  /\ \A c \in Clients : /\ latest[c] \in DOMAIN store \cup {0}
                        /\ upload[c] <= clock
                        /\ upload[c] # 0 <=> pc[c] = "pushing"

\* The operator has paid at most once for a graph, and its copy has the
\* transaction.
PaymentsKnown ==
  \A g \in Graphs :
    payments[g] = 0 \/ (payments[g] = 1 /\ data[Operator][g].tx)

\* A file includes the ones before it, a client those it has processed, and one
\* that pushes those before its own.
FilesInclude ==
  LET valid == ValidFiles IN
  \A n \in valid \ overlooked :
    /\ \A m \in valid : n <= m => Includes(store[m].data, store[n].data)
    /\ \A c \in Clients :
         n <= latest[c] \/ (pc[c] = "pushing" /\ n <= upload[c] /\ n \notin unread[c])
           => Includes(data[c], store[n].data)

\* The operator alone has graphs that are not in the store; after a sync that
\* missed nothing it has all that are.
GraphsInStore ==
  \A g \in Graphs :
    /\ \A c \in Verifiers : data[c][g] # NoCopy => InStore(g)
    /\ pc[Operator] = "synced" /\ ~blind /\ InStore(g) => data[Operator][g] # NoCopy

KeysAgree ==
  \A g \in Graphs :
    LET used == KeysUsed(g) IN
    /\ \A j, k \in used : j # 0 /\ k # 0 => j = k
    /\ secrets[g] # 0 => used \subseteq {0, secrets[g]}

\* What every command, crash and failure leaves true of the copies, the files
\* and the secrets.
ClientInv ==
  /\ ClientTypeOK
  /\ NamesSound
  /\ \A c \in Clients : WellFormed(data[c])
  /\ \A n \in DOMAIN store : WellFormed(store[n].data)
  /\ ~restarted => PaymentsKnown
  /\ FilesInclude
  /\ overlooked = {} => GraphsInStore
  /\ overlooked = {} /\ ~recreated => KeysAgree

-----------------------------------------------------------------------------
(* The operator holds the secrets of every graph it has: commitment_secrets *)
(* is documented as the secrets for all the graphs.                         *)
SecretsForAllGraphs ==
  \A g \in Graphs : data[Operator][g] # NoCopy => secrets[g] # 0
=============================================================================
