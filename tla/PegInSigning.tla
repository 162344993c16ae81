----------------------------- MODULE PegInSigning -----------------------------
(***************************************************************************)
(* How the verifiers presign peg_in_confirm with MuSig2                    *)
(* (process_peg_in_as_verifier in bridge/src/client/client.rs, verifier_   *)
(* status in bridge/src/graphs/peg_in.rs).  Every verifier runs the        *)
(* automatic command: sync with the data store, do the one thing its       *)
(* status asks for, flush when its data changed.  There is no other        *)
(* channel: a flush lists and merges the files it has not seen, then       *)
(* pushes a new file, and another client can push in between.              *)
(*                                                                         *)
(* The deposit is confirmed and the operators' peg-out graphs exist; from  *)
(* here on verifier_status depends on the signing data alone.  A client    *)
(* may be restarted: its public data is read again from the data store,    *)
(* its secret nonces are in a local file.                                  *)
(***************************************************************************)
EXTENDS Naturals, Sequences, FiniteSets

CONSTANTS
  Verifiers,     \* the n-of-n signers
  Window,        \* how many files before the newest are not ten minutes older
  MaxRestarts    \* bound on the restarts of all clients together

ASSUME VerifiersAssumption == IsFiniteSet(Verifiers) /\ Verifiers # {}

ASSUME BoundsAssumption == Window \in Nat /\ MaxRestarts \in Nat

MaxNonce == MaxRestarts + 1

VARIABLES
  files,      \* the data store: what each file says of peg_in_confirm, by name
  copy,       \* copy[v]: what v's public data says of peg_in_confirm
  latest,     \* latest[v]: position of latest_processed_file_name, 0 for None
  pc,         \* pc[v]: where v is in handle_automatic_command
  secret,     \* secret[v]: v's saved secret nonce, 0 for none
  signed,     \* signed[v]: the <<secret nonce, public nonces>> v ever signed with
  confirmed,  \* peg_in_confirm is on the chain
  restarts

signVars == <<files, copy, latest, pc, secret, signed, confirmed, restarts>>

\* Public nonces, numbered in the order a verifier generates them; 0: none.
Nonces == [Verifiers -> 0..MaxNonce]

\* musig2_nonces and musig2_signatures map each verifier to at most one entry.
\* A partial signature is known by the nonces it was made with.  witness counts
\* how often the input was finalised: once makes it valid.
Copies ==
  [nonces : Nonces, signatures : [Verifiers -> SUBSET Nonces], witness : 0..2]

SigningTypeOK ==
  /\ files \in Seq(Copies)
  /\ copy \in [Verifiers -> Copies]
  /\ latest \in [Verifiers -> 0..Len(files)]
  /\ pc \in [Verifiers -> {"sync", "process", "flush", "push"}]
  /\ secret \in [Verifiers -> 0..MaxNonce]
  /\ signed \in [Verifiers -> SUBSET (Nat \X Nonces)]
  /\ confirmed \in BOOLEAN
  /\ restarts \in 0..MaxRestarts

Unsigned ==
  [ nonces     |-> [v \in Verifiers |-> 0],
    signatures |-> [v \in Verifiers |-> {}],
    witness    |-> 0 ]

\* The depositor pushed the new graph.
Init ==
  /\ files = <<Unsigned>>
  /\ copy = [v \in Verifiers |-> Unsigned]
  /\ latest = [v \in Verifiers |-> 0]
  /\ pc = [v \in Verifiers |-> "sync"]
  /\ secret = [v \in Verifiers |-> 0]
  /\ signed = [v \in Verifiers |-> {}]
  /\ confirmed = FALSE
  /\ restarts = 0

-----------------------------------------------------------------------------
(* Merging copies. *)

\* A merge that takes an inner map over only where there is none.
MergeIfAbsent(a, b) ==
  LET none(f, x) == \A v \in Verifiers : f[v] = x
  IN  [ nonces     |-> IF none(a.nonces, 0) THEN b.nonces ELSE a.nonces,
        signatures |-> IF none(a.signatures, {}) THEN b.signatures
                                                 ELSE a.signatures,
        witness    |-> IF a.witness < b.witness THEN b.witness ELSE a.witness ]

\* merge_hash_maps: the source's entries win; the longer witness is kept.
merge(a, b) ==
  [ nonces     |-> [v \in Verifiers |-> IF b.nonces[v] # 0 THEN b.nonces[v]
                                                           ELSE a.nonces[v]],
    signatures |-> [v \in Verifiers |-> IF b.signatures[v] # {}
                                        THEN b.signatures[v]
                                        ELSE a.signatures[v]],
    witness    |-> IF a.witness < b.witness THEN b.witness ELSE a.witness ]

\* The files are merged one after the other, in the order they are named.
process_files(c, names) ==
  LET merged[i \in 0..Len(names)] ==
        IF i = 0 THEN c ELSE merge(merged[i - 1], files[names[i]])
  IN  merged[Len(names)]

\* The files from the given one on.
OldestFirst(first) == [i \in 1..(Len(files) + 1 - first) |-> first + i - 1]
NewestFirst(first) == [i \in 1..(Len(files) + 1 - first) |-> Len(files) + 1 - i]

has_all_nonces(c)     == \A v \in Verifiers : c.nonces[v] # 0
has_all_signatures(c) == \A v \in Verifiers : c.signatures[v] # {}

\* A status that asks for signatures when only the own nonce is there.
StatusWithoutAwaitingNonces(v) ==
  IF confirmed THEN "Complete"
  ELSE IF copy[v].nonces[v] = 0 THEN "PendingOurNonces"
  ELSE IF copy[v].signatures[v] = {} THEN "PendingOurSignature"
  ELSE IF ~has_all_signatures(copy[v]) THEN "AwaitingSignatures"
  ELSE "ReadyToSubmit"

verifier_status(v) ==
  IF confirmed THEN "Complete"
  ELSE IF copy[v].nonces[v] = 0 THEN "PendingOurNonces"
  ELSE IF ~has_all_nonces(copy[v]) THEN "AwaitingNonces"
  ELSE IF copy[v].signatures[v] = {} THEN "PendingOurSignature"
  ELSE IF ~has_all_signatures(copy[v]) THEN "AwaitingSignatures"
  ELSE "ReadyToSubmit"

-----------------------------------------------------------------------------
(* The loop of one client. *)

Goto(v, label) == pc' = [pc EXCEPT ![v] = label]

\* Of the files not read yet, the first one that is at most ten minutes older
\* than the newest.  Those before it are never read.
FirstInWindow(v) ==
  IF Len(files) > latest[v] + 1 + Window THEN Len(files) - Window
                                         ELSE latest[v] + 1

\* The oldest file first.
Sync(v) ==
  /\ pc[v] = "sync"
  /\ Goto(v, "process")
  /\ copy' = [copy EXCEPT
       ![v] = process_files(@, OldestFirst(FirstInWindow(v)))]
  /\ latest' = [latest EXCEPT ![v] = Len(files)]
  /\ UNCHANGED <<files, secret, signed, confirmed, restarts>>

\* A fresh nonce; the secret one is saved before anything is published.
push_verifier_nonces(v) ==
  /\ pc[v] = "process"
  /\ verifier_status(v) = "PendingOurNonces"
  /\ secret' = [secret EXCEPT ![v] = @ + 1]
  /\ copy' = [copy EXCEPT ![v].nonces[v] = secret[v] + 1]
  /\ Goto(v, "flush")
  /\ UNCHANGED <<files, latest, signed, confirmed, restarts>>

\* A partial signature made with another nonce than the public one in the copy
\* fails its own verification, and an aggregate of signatures made with
\* different nonces fails too: both are unwrapped, so the client stops.
Panics(v, signatures) ==
  \/ copy[v].nonces[v] # secret[v]
  \/ /\ \A u \in Verifiers : signatures[u] # {}
     /\ \E u \in Verifiers : signatures[u] # {copy[v].nonces}

Die(v) ==
  /\ copy' = [copy EXCEPT ![v] = Unsigned]
  /\ latest' = [latest EXCEPT ![v] = 0]
  /\ Goto(v, "sync")

\* The input is finalised by the signer who finds every signature in its copy.
push_verifier_signature(v) ==
  /\ pc[v] = "process"
  /\ verifier_status(v) = "PendingOurSignature"
  /\ signed' = [signed EXCEPT ![v] = @ \cup {<<secret[v], copy[v].nonces>>}]
  /\ LET signatures == [copy[v].signatures EXCEPT ![v] = {copy[v].nonces}]
         complete   == \A u \in Verifiers : signatures[u] # {}
     IN  IF Panics(v, signatures) THEN Die(v)
         ELSE /\ copy' = [copy EXCEPT
                   ![v].signatures = signatures,
                   ![v].witness = IF complete /\ @ < 2 THEN @ + 1 ELSE @]
              /\ Goto(v, "flush")
              /\ UNCHANGED latest
  /\ UNCHANGED <<files, secret, confirmed, restarts>>

\* The node takes the transaction when its witness is valid.
broadcast_peg_in_confirm(v) ==
  /\ pc[v] = "process"
  /\ verifier_status(v) = "ReadyToSubmit"
  /\ confirmed' = (confirmed \/ copy[v].witness = 1)
  /\ Goto(v, "sync")
  /\ UNCHANGED <<files, copy, latest, secret, signed, restarts>>

Wait(v) ==
  /\ pc[v] = "process"
  /\ verifier_status(v) \in {"AwaitingNonces", "AwaitingSignatures", "Complete"}
  /\ Goto(v, "sync")
  /\ UNCHANGED <<files, copy, latest, secret, signed, confirmed, restarts>>

\* A merge that finalises the input whenever all the signatures are there.
FlushMergeFinalising(v) ==
  /\ pc[v] = "flush"
  /\ LET c == process_files(copy[v], NewestFirst(latest[v] + 1))
     IN  copy' = [copy EXCEPT ![v] =
           [c EXCEPT !.witness =
              IF has_all_signatures(c) /\ @ < 2 THEN @ + 1 ELSE @]]
  /\ Goto(v, "push")
  /\ UNCHANGED <<files, latest, secret, signed, confirmed, restarts>>

\* First half of a flush: the files that are new, the newest one first.
FlushMerge(v) ==
  /\ pc[v] = "flush"
  /\ copy' = [copy EXCEPT
       ![v] = process_files(@, NewestFirst(latest[v] + 1))]
  /\ Goto(v, "push")
  /\ UNCHANGED <<files, latest, secret, signed, confirmed, restarts>>

\* A push that remembers a file name past the one it wrote.
FlushPushSkipping(v) ==
  /\ pc[v] = "push"
  /\ files' = Append(files, copy[v])
  /\ latest' = [latest EXCEPT ![v] = Len(files) + 2]
  /\ Goto(v, "sync")
  /\ UNCHANGED <<copy, secret, signed, confirmed, restarts>>

\* Second half: a new file.  Files pushed since the first half are before it
\* and will not be read.
FlushPush(v) ==
  /\ pc[v] = "push"
  /\ files' = Append(files, copy[v])
  /\ latest' = [latest EXCEPT ![v] = Len(files) + 1]
  /\ Goto(v, "sync")
  /\ UNCHANGED <<copy, secret, signed, confirmed, restarts>>

Restart(v) ==
  /\ restarts < MaxRestarts
  /\ restarts' = restarts + 1
  /\ Die(v)
  /\ UNCHANGED <<files, secret, signed, confirmed>>

Step(v) ==
  \/ Sync(v) \/ push_verifier_nonces(v) \/ push_verifier_signature(v)
  \/ broadcast_peg_in_confirm(v) \/ Wait(v) \/ FlushMerge(v) \/ FlushPush(v)

Next == \E v \in Verifiers : Step(v) \/ Restart(v)

Spec == Init /\ [][Next]_signVars

\* Every client keeps looping.
FairSpec == Spec /\ \A v \in Verifiers : WF_signVars(Step(v))

-----------------------------------------------------------------------------
(* Properties. *)

\* The signatures that a client holds when it has all of them were made with
\* the same nonces, the ones in its copy: their aggregate is valid.
SignaturesAgree ==
  \A v \in Verifiers :
    has_all_signatures(copy[v]) =>
      \A u \in Verifiers : copy[v].signatures[u] = {copy[v].nonces}

\* A secret nonce signs with one set of public nonces, whatever files a client
\* reads, in whatever order, and however often it is restarted.
NonceUsedOnce ==
  \A v \in Verifiers : \A s, t \in signed[v] : s[1] = t[1] => s = t

\* The input is finalised once: a second signature and script in the witness
\* would make it invalid, and longer than the valid one it is merged with.
FinalisedOnce == \A v \in Verifiers : copy[v].witness <= 1

-----------------------------------------------------------------------------
(***************************************************************************)
(* Why they hold.  A verifier makes a nonce only when its own copy has     *)
(* none, and whatever it has pushed comes back to it with the next sync,   *)
(* even after a restart: so no file and no other copy has an older nonce   *)
(* of it.  From the first signature on all the nonces are in the store,    *)
(* and no secret nonce changes any more.                                   *)
(***************************************************************************)

\* Some file has a nonce of u.
Filed(u) == \E i \in 1..Len(files) : files[i].nonces[u] # 0

\* What a copy or a file may say: nonces whose secret is still there, and
\* signatures made with these secrets, once all of them are in the store.
Consistent(c) ==
  /\ \A u \in Verifiers : c.nonces[u] \in {0, secret[u]}
  /\ \A u \in Verifiers : c.signatures[u] \in {{}, {secret}}
  /\ (\E u \in Verifiers : c.signatures[u] # {}) =>
       has_all_nonces(c) /\ \A u \in Verifiers : Filed(u)
  /\ c.witness # 0 => has_all_signatures(c)
  /\ c.witness <= 1

\* What v knows of its own nonce: it comes back from the files it has read,
\* and is there from the moment it is made until v is restarted.
OwnNonceKept(v) ==
  /\ pc[v] \in {"flush", "push"} => copy[v].nonces[v] # 0
  /\ pc[v] = "process" /\ Filed(v) => copy[v].nonces[v] # 0
  /\ \A i \in 1..latest[v] : files[i].nonces[v] # 0 => copy[v].nonces[v] # 0
  /\ secret[v] <= restarts + 1
  /\ copy[v].nonces[v] = 0 => secret[v] <= restarts

\* A nonce in v's copy is in the store, except v's own before it is flushed.
NoncesFiled(v) ==
  \A u \in Verifiers :
    copy[v].nonces[u] # 0 /\ (u # v \/ pc[v] \in {"sync", "process"}) => Filed(u)

\* v has signed with the secret nonces of now, and with nothing else.
SignedOnce(v) ==
  /\ signed[v] \subseteq {<<secret[v], secret>>}
  /\ signed[v] # {} => \A u \in Verifiers : Filed(u)

\* The nonces, signatures and secrets of all copies and files agree, and
\* every verifier that is to make a nonce knows that it has none.
SigningInv ==
  /\ SigningTypeOK
  /\ \A i \in 1..Len(files) : Consistent(files[i])
  /\ \A v \in Verifiers :
       Consistent(copy[v]) /\ OwnNonceKept(v) /\ NoncesFiled(v) /\ SignedOnce(v)

\* No client about to sync has an unread file more than ten minutes older
\* than the newest: FirstInWindow leaves nothing out.
WithinWindow ==
  \A v \in Verifiers : pc[v] = "sync" => Len(files) <= latest[v] + 1 + Window

-----------------------------------------------------------------------------
\* Flushes race and files are overlooked, but some verifier ends up with the
\* signatures of all.
SomeoneCompletes == <>(\E v \in Verifiers : has_all_signatures(copy[v]))

\* A verifier whose status is ReadyToSubmit can submit peg_in_confirm.
ReadyCanSubmit ==
  \A v \in Verifiers :
    verifier_status(v) = "ReadyToSubmit" => copy[v].witness = 1
=============================================================================
