------------------------- MODULE DeliveryQueueProofs -------------------------
(***************************************************************************)
(* Proofs about DeliveryQueue, for any set of messages, any retry limit    *)
(* and any number of reconnects and crashes: type correctness, the         *)
(* write-ahead promise, the claims of the drains and, where no delivery is *)
(* under way while a drain runs, recovery stays within its budget and the  *)
(* transcript mirror does not fail, what is counted for each entry.        *)
(***************************************************************************)
EXTENDS DeliveryQueue, TLAPS

DrainWorkers == {Drain(d) : d \in Drains}
Resting == {"idle", "scan", "deferring", "done"}

\* State p is one that worker w can be in.
Suits(w, p) ==
    /\ w \in LiveWorkers => p \in LiveStates
    /\ w \in DeferWorkers => p \in DeferStates
    /\ w \in DrainWorkers => p \in DrainStates

(* The conjuncts of TypeOK, by what they are about.                        *)
AtOK ==
    /\ at \in [Workers -> LiveStates \cup DrainStates]
    /\ \A w \in Workers : Suits(w, at[w])

EntryOK ==
    /\ entry \in [Workers -> Entries \cup Drains]
    /\ \A e \in Entries : entry[Live(e)] = e /\ entry[Defer(e)] = e
    /\ \A w \in DrainWorkers : at[w] \notin Resting => entry[w] \in Entries

StartupOK ==
    /\ (\E w \in DeferWorkers : at[w] # "idle") => at[Drain("startup")] = "deferring"
    /\ ~recovered => at[Drain("startup")] = "idle"

DataOK ==
    /\ json \in [Entries -> Nat \cup {NoFile}]
    /\ markers \subseteq Entries
    /\ failed \subseteq Entries
    /\ count \in [Workers -> Nat]
    /\ todo \in [Drains -> SUBSET Entries]
    /\ inProgress \subseteq Entries
    /\ recovered \in BOOLEAN
    /\ reconnects \in Nat
    /\ crashes \in Nat
    /\ written \subseteq Entries
    /\ sent \in [Entries -> Nat]
    /\ attempts \in [Entries -> Nat]
    /\ acked \subseteq Entries
    /\ aborted \subseteq Entries

-----------------------------------------------------------------------------
\* The three kinds of workers are disjoint and make up Workers; a worker's second
\* component is what it is named for.
LEMMA Kinds ==
    /\ Workers = LiveWorkers \cup DeferWorkers \cup DrainWorkers
    /\ LiveWorkers \cap DeferWorkers = {}
    /\ LiveWorkers \cap DrainWorkers = {}
    /\ DeferWorkers \cap DrainWorkers = {}
    /\ \A e \in Entries : Live(e) \in LiveWorkers /\ Defer(e) \in DeferWorkers
    /\ \A d \in Drains : Drain(d) \in DrainWorkers
    /\ \A w \in LiveWorkers : w[2] \in Entries /\ w = Live(w[2])
    /\ \A w \in DeferWorkers : w[2] \in Entries /\ w = Defer(w[2])
    /\ \A w \in DrainWorkers : w[2] \in Drains /\ w = Drain(w[2])
    /\ \A e, f \in Entries : (Live(e) = Live(f) => e = f) /\ (Defer(e) = Defer(f) => e = f)
    /\ Drain("startup") # Drain("reconnect")
  <1>1. /\ LiveWorkers \cap DeferWorkers = {}
        /\ LiveWorkers \cap DrainWorkers = {}
        /\ DeferWorkers \cap DrainWorkers = {}
    BY DEF LiveWorkers, DeferWorkers, DrainWorkers, Live, Defer, Drain, Drains
  <1>2. Workers = LiveWorkers \cup DeferWorkers \cup DrainWorkers
    BY DEF Workers, LiveWorkers, DeferWorkers, DrainWorkers, Live, Defer, Drain, Drains
  <1>3. QED
    BY <1>1, <1>2 DEF LiveWorkers, DeferWorkers, DrainWorkers, Live, Defer, Drain, Drains

LEMMA TypeParts == TypeOK <=> AtOK /\ EntryOK /\ StartupOK /\ DataOK
  <1>1. AtOK <=> /\ at \in [Workers -> LiveStates \cup DrainStates]
                 /\ \A w \in LiveWorkers : at[w] \in LiveStates
                 /\ \A w \in DeferWorkers : at[w] \in DeferStates
                 /\ \A d \in Drains : at[Drain(d)] \in DrainStates
    BY Kinds DEF AtOK, Suits, DrainWorkers
  <1>2. AtOK => (EntryOK <=> /\ entry \in [Workers -> Entries \cup Drains]
                             /\ \A e \in Entries : entry[Live(e)] = e /\ entry[Defer(e)] = e
                             /\ \A d \in Drains :
                                   at[Drain(d)] \notin {"idle", "scan", "deferring"}
                                       => entry[Drain(d)] \in Entries)
    BY <1>1 DEF EntryOK, DrainWorkers, Resting, DrainStates, Filing
  <1>3. QED
    BY <1>1, <1>2 DEF TypeOK, DataOK, StartupOK

LEMMA TypePartsNext == TypeOK' <=> AtOK' /\ EntryOK' /\ StartupOK' /\ DataOK'
  BY TypeParts, PTL

\* A worker in the middle of its entry moves on.
LEMMA WorkerMoves ==
    ASSUME AtOK, EntryOK, StartupOK,
           NEW w \in Workers, NEW p, at[w] \notin Resting,
           Go(w, p), Suits(w, p), UNCHANGED <<entry, recovered>>
    PROVE  AtOK' /\ EntryOK' /\ StartupOK'
  <1>1. AtOK'
    <2>1. p \in LiveStates \cup DrainStates
      BY Kinds DEF Suits, DeferStates, DrainStates
    <2>2. QED
      BY <2>1, Kinds DEF AtOK, Suits, Go
  <1>2. EntryOK'
    BY Kinds DEF AtOK, EntryOK, Go
  <1>3. StartupOK'
    BY Kinds DEF AtOK, StartupOK, Go, Resting, Drains
  <1>4. QED  BY <1>1, <1>2, <1>3

LEMMA FinishMoves ==
    ASSUME NEW w \in Workers, Finish(w)
    PROVE  /\ \E p : Go(w, p) /\ Suits(w, p)
           /\ inProgress' = IF w \in DrainWorkers THEN inProgress \ {entry[w]} ELSE inProgress
  <1>1. CASE w \in LiveWorkers
    BY <1>1, Kinds DEF Finish, Suits, LiveStates
  <1>2. CASE w \in DeferWorkers
    BY <1>2, Kinds DEF Finish, Suits, DeferStates
  <1>3. CASE w \in DrainWorkers
    BY <1>3, Kinds DEF Finish, Suits, DrainStates
  <1>4. QED  BY <1>1, <1>2, <1>3, Kinds

-----------------------------------------------------------------------------
(* The step of each worker on its entry.                                   *)

LEMMA SendType ==
    ASSUME TypeOK, NEW w \in Workers,
           \/ SendSucceeds(w)
           \/ SendPartlyFails(w)
           \/ SendThrows(w)
           \/ w \in LiveWorkers /\ SendAborted(w[2])
    PROVE  TypeOK'
  <1>1. AtOK /\ EntryOK /\ StartupOK /\ DataOK
    BY TypeParts
  <1>2. at[w] = "sending" /\ UNCHANGED <<entry, recovered>>
    BY Kinds DEF SendSucceeds, SendPartlyFails, SendThrows, SendAborted, Sending, SendKept
  <1>3. w \notin DeferWorkers
    BY <1>1, <1>2, Kinds DEF AtOK, Suits, DeferStates, Filing
  <1>4. \E p : Go(w, p) /\ Suits(w, p)
    BY <1>3, Kinds DEF SendSucceeds, SendPartlyFails, SendThrows, SendAborted, Suits,
                      LiveStates, DrainStates, Filing
  <1>5. AtOK' /\ EntryOK' /\ StartupOK'
    BY <1>1, <1>2, <1>4, WorkerMoves DEF Resting
  <1>6. DataOK'
    BY <1>1, Kinds DEF DataOK, SendSucceeds, SendPartlyFails, SendThrows, SendAborted,
                      SendKept, disk
  <1>7. QED  BY <1>5, <1>6, TypePartsNext

LEMMA FileType ==
    ASSUME TypeOK, NEW w \in Workers,
           AckDelivery(w) \/ UnlinkMarker(w) \/ FailRead(w) \/ FailWrite(w)
               \/ MoveToFailed(w)
    PROVE  TypeOK'
  <1>1. AtOK /\ EntryOK /\ StartupOK /\ DataOK
    BY TypeParts
  <1>2. at[w] \in {"ack", "unlink", "failRead", "failWrite", "move"} /\ UNCHANGED <<entry, recovered>>
    BY DEF AckDelivery, UnlinkMarker, FailRead, FailWrite, MoveToFailed, FileKept
  <1>3. at[w] \in {"ack", "unlink", "move"} => w \notin DeferWorkers
    BY <1>1, Kinds DEF AtOK, Suits, DeferStates, Filing
  <1>4. entry[w] \in Entries
    BY <1>1, <1>2, Kinds DEF EntryOK, Resting
  <1>5. \/ Finish(w)
        \/ AckDelivery(w) /\ Go(w, "unlink") /\ UNCHANGED inProgress
        \/ FailRead(w) /\ Go(w, "failWrite") /\ UNCHANGED inProgress
    BY DEF AckDelivery, UnlinkMarker, FailRead, FailWrite, MoveToFailed
  <1>6. /\ \E p : Go(w, p) /\ Suits(w, p)
        /\ inProgress' \subseteq Entries
    <2>1. CASE Finish(w)
      BY <1>1, <2>1, FinishMoves DEF DataOK
    <2>2. CASE AckDelivery(w) /\ Go(w, "unlink") /\ UNCHANGED inProgress
      <3>1. at[w] = "ack"  BY <2>2 DEF AckDelivery
      <3>2. QED
        BY <1>1, <1>3, <2>2, <3>1 DEF Suits, LiveStates, DrainStates, DataOK
    <2>3. CASE FailRead(w) /\ Go(w, "failWrite") /\ UNCHANGED inProgress
      BY <1>1, <2>3 DEF Suits, LiveStates, DeferStates, DrainStates, Filing, DataOK
    <2>4. QED  BY <1>5, <2>1, <2>2, <2>3
  <1>7. AtOK' /\ EntryOK' /\ StartupOK'
    BY <1>1, <1>2, <1>6, WorkerMoves DEF Resting
  <1>8. DataOK'
    <2>1. CASE AckDelivery(w)
      BY <1>1, <1>4, <1>6, <2>1 DEF DataOK, AckDelivery, FileKept
    <2>2. CASE UnlinkMarker(w)
      BY <1>1, <1>6, <2>2 DEF DataOK, UnlinkMarker, FileKept
    <2>3. CASE FailRead(w)
      BY <1>1, <1>4, <1>6, <2>3 DEF DataOK, FailRead, disk, history
    <2>4. CASE FailWrite(w)
      BY <1>1, <1>4, <1>6, <2>4 DEF DataOK, FailWrite, FileKept
    <2>5. CASE MoveToFailed(w)
      BY <1>1, <1>4, <1>6, <2>5 DEF DataOK, MoveToFailed, FileKept
    <2>6. QED  BY <2>1, <2>2, <2>3, <2>4, <2>5
  <1>9. QED  BY <1>7, <1>8, TypePartsNext

LEMMA LoadType ==
    ASSUME TypeOK, NEW d \in Drains, LoadPendingDelivery(d)
    PROVE  TypeOK'
  <1> DEFINE w == Drain(d)
  <1>1. AtOK /\ EntryOK /\ StartupOK /\ DataOK
    BY TypeParts
  <1>2. w \in DrainWorkers /\ w \in Workers
    BY Kinds
  <1>3. at[w] = "claimed" /\ UNCHANGED <<entry, recovered>>
    BY DEF LoadPendingDelivery, DrainKept
  <1>4. entry[w] \in Entries
    BY <1>1, <1>2, <1>3 DEF EntryOK, Resting
  <1>5. /\ \E p : Go(w, p) /\ Suits(w, p)
        /\ inProgress' \subseteq Entries
        /\ attempts' \in [Entries -> Nat]
    <2>1. CASE Finish(w) /\ UNCHANGED attempts
      BY <1>1, <1>2, <2>1, FinishMoves DEF DataOK
    <2>2. CASE (Go(w, "move") \/ Go(w, "sending")) /\ UNCHANGED <<inProgress, attempts>>
      BY <1>1, <1>2, <2>2, Kinds DEF Suits, DrainStates, DataOK
    <2>3. CASE BeginSend(w, entry[w]) /\ UNCHANGED inProgress
      BY <1>1, <1>2, <1>4, <2>3, Kinds DEF Suits, DrainStates, DataOK, BeginSend
    <2>4. QED  BY <2>1, <2>2, <2>3 DEF LoadPendingDelivery
  <1>6. AtOK' /\ EntryOK' /\ StartupOK'
    BY <1>1, <1>2, <1>3, <1>5, WorkerMoves DEF Resting
  <1>7. DataOK'
    BY <1>1, <1>5 DEF DataOK, LoadPendingDelivery, DrainKept, disk
  <1>8. QED  BY <1>6, <1>7, TypePartsNext
-----------------------------------------------------------------------------
(* The other steps.                                                        *)

LEMMA DeliverType ==
    ASSUME TypeOK, NEW e \in Entries, DeliverOutboundPayloads(e)
    PROVE  TypeOK'
  <1>1. AtOK /\ EntryOK /\ StartupOK /\ DataOK
    BY TypeParts
  <1>2. Live(e) \in LiveWorkers /\ Live(e) \in Workers
    BY Kinds
  <1>3. AtOK' /\ EntryOK' /\ StartupOK'
    BY <1>1, <1>2, Kinds DEF AtOK, EntryOK, StartupOK, Suits, LiveStates, Drains,
                            DeliverOutboundPayloads, BeginSend, Go
  <1>4. DataOK'
    BY <1>1 DEF DataOK, DeliverOutboundPayloads, BeginSend
  <1>5. QED  BY <1>3, <1>4, TypePartsNext

\* A drain that starts was idle: the startup drain because it starts once.
LEMMA DrainStartType ==
    ASSUME TypeOK, RecoverPendingDeliveries \/ DrainPendingDeliveries
    PROVE  TypeOK'
  <1>1. AtOK /\ EntryOK /\ StartupOK /\ DataOK
    BY TypeParts
  <1>2. PICK d \in Drains, selected \in SUBSET Entries :
            /\ at[Drain(d)] = "idle"
            /\ LoadPendingDeliveries(d, selected)
            /\ recovered' = (recovered \/ d = "startup")
    BY <1>1 DEF RecoverPendingDeliveries, DrainPendingDeliveries, StartupOK, Drains, DataOK
  <1>3. Drain(d) \in DrainWorkers /\ Drain(d) \in Workers
    BY Kinds
  <1>4. at' = [at EXCEPT ![Drain(d)] = "scan"] /\ entry' = entry
    BY <1>2 DEF LoadPendingDeliveries, Go
  <1>5. AtOK' /\ EntryOK'
    BY <1>1, <1>3, <1>4, Kinds DEF AtOK, EntryOK, Suits, DrainStates, Resting
  <1>6. StartupOK'
    BY <1>1, <1>2, <1>3, <1>4, Kinds DEF AtOK, StartupOK, Drains
  <1>7. DataOK'
    BY <1>1, <1>2 DEF DataOK, LoadPendingDeliveries, RecoverPendingDeliveries,
                      DrainPendingDeliveries, history
  <1>8. QED  BY <1>5, <1>6, <1>7, TypePartsNext

LEMMA ClaimType ==
    ASSUME TypeOK, NEW d \in Drains, NEW e \in Entries, ClaimRecoveryEntry(d, e)
    PROVE  TypeOK'
  <1>1. AtOK /\ EntryOK /\ StartupOK /\ DataOK
    BY TypeParts
  <1>2. Drain(d) \in DrainWorkers /\ Drain(d) \in Workers
    BY Kinds
  <1>3. CASE e \in inProgress
    <2>1. UNCHANGED <<at, entry, recovered>>
      BY <1>3 DEF ClaimRecoveryEntry, DrainKept
    <2>2. AtOK' /\ EntryOK' /\ StartupOK'
      BY <1>1, <2>1 DEF AtOK, EntryOK, StartupOK
    <2>3. DataOK'
      BY <1>1, <1>3 DEF DataOK, ClaimRecoveryEntry, DrainKept, disk
    <2>4. QED  BY <2>2, <2>3, TypePartsNext
  <1>4. CASE e \notin inProgress
    <2>1. /\ at' = [at EXCEPT ![Drain(d)] = "claimed"]
          /\ entry' = [entry EXCEPT ![Drain(d)] = e]
          /\ at[Drain(d)] = "scan"
          /\ recovered' = recovered
      BY <1>4 DEF ClaimRecoveryEntry, Go, DrainKept
    <2>2. AtOK'
      BY <1>1, <1>2, <2>1, Kinds DEF AtOK, Suits, DrainStates
    <2>3. EntryOK'
      BY <1>1, <1>2, <2>1, Kinds DEF AtOK, EntryOK
    <2>4. StartupOK'
      BY <1>1, <1>2, <2>1, Kinds DEF AtOK, StartupOK
    <2>5. DataOK'
      BY <1>1, <1>4 DEF DataOK, ClaimRecoveryEntry, DrainKept, disk
    <2>6. QED  BY <2>2, <2>3, <2>4, <2>5, TypePartsNext
  <1>5. QED  BY <1>3, <1>4

LEMMA DeferType ==
    ASSUME TypeOK, DeferRemainingEntries
    PROVE  TypeOK'
  <1>1. AtOK /\ EntryOK /\ StartupOK /\ DataOK
    BY TypeParts
  <1>2. Drain("startup") \in DrainWorkers /\ Drain("startup") \in Workers
    BY Kinds DEF Drains
  <1>3. AtOK'
    BY <1>1, <1>2, Kinds DEF AtOK, DeferRemainingEntries, Suits, DrainStates,
                            DeferStates, Filing
  <1>4. EntryOK' /\ StartupOK'
    BY <1>1, <1>2, Kinds DEF AtOK, EntryOK, StartupOK, DeferRemainingEntries, DrainKept,
                            Resting
  <1>5. DataOK'
    BY <1>1 DEF DataOK, DeferRemainingEntries, DrainKept, disk
  <1>6. QED  BY <1>3, <1>4, <1>5, TypePartsNext

LEMMA EndType ==
    ASSUME TypeOK, NEW d \in Drains, DrainEnds(d)
    PROVE  TypeOK'
  <1>1. AtOK /\ EntryOK /\ StartupOK /\ DataOK
    BY TypeParts
  <1>2. Drain(d) \in DrainWorkers /\ Drain(d) \in Workers
    BY Kinds
  <1>3. /\ at' = [at EXCEPT ![Drain(d)] = "idle"]
        /\ UNCHANGED <<entry, recovered>>
        /\ at[Drain(d)] = "scan" \/ \A w \in DeferWorkers : at[w] = "idle"
    BY DEF DrainEnds, Go, DrainKept
  <1>4. AtOK' /\ EntryOK'
    BY <1>1, <1>2, <1>3, Kinds DEF AtOK, EntryOK, Suits, DrainStates, Resting
  <1>5. StartupOK'
    BY <1>1, <1>2, <1>3, Kinds DEF AtOK, StartupOK
  <1>6. DataOK'
    BY <1>1 DEF DataOK, DrainEnds, DrainKept, disk
  <1>7. QED  BY <1>4, <1>5, <1>6, TypePartsNext

LEMMA CrashType ==
    ASSUME TypeOK, Crash
    PROVE  TypeOK'
  <1>1. AtOK /\ EntryOK /\ StartupOK /\ DataOK
    BY TypeParts
  <1>2. AtOK'
    BY Kinds DEF AtOK, Crash, Suits, LiveStates, DeferStates, DrainStates
  <1>3. EntryOK' /\ StartupOK'
    BY <1>1, Kinds DEF EntryOK, StartupOK, Crash, Resting, Drains
  <1>4. DataOK'
    <2>1. todo' \in [Drains -> SUBSET Entries]
      BY DEF Crash
    <2>2. inProgress' \subseteq Entries /\ crashes' \in Nat
      BY <1>1 DEF Crash, DataOK
    <2>3. recovered' \in BOOLEAN
      BY Zenon DEF Crash
    <2>4. UNCHANGED <<json, markers, failed, count, reconnects, written, sent, attempts,
                      acked, aborted>>
      BY DEF Crash, disk, history
    <2>5. QED  BY <1>1, <2>1, <2>2, <2>3, <2>4 DEF DataOK
  <1>5. QED  BY <1>2, <1>3, <1>4, TypePartsNext
-----------------------------------------------------------------------------
(* The write-ahead promise.                                                *)

\* A worker that is about to acknowledge its entry has sent it, was aborted, or
\* was told to do its best only.
AckJustified ==
    \A w \in Workers : at[w] = "ack" =>
        sent[entry[w]] > 0 \/ entry[w] \in aborted \/ entry[w] \in BestEffort

IInv == TypeOK /\ AckJustified /\ WrittenNotLost

LEMMA InitIInv == Init => IInv
  <1> SUFFICES ASSUME Init PROVE IInv  OBVIOUS
  <1>1. AtOK
    BY Kinds DEF Init, AtOK, Suits, LiveStates, DeferStates, DrainStates
  <1>2. EntryOK
    <2>1. \A w \in Workers : w[2] \in Entries \cup Drains
      BY Kinds
    <2>2. \A e \in Entries : Live(e)[2] = e /\ Defer(e)[2] = e
      BY DEF Live, Defer
    <2>3. QED
      BY <2>1, <2>2, Kinds DEF Init, EntryOK, Resting
  <1>3. StartupOK
    BY Kinds DEF Init, StartupOK, Drains
  <1>4. recovered \in BOOLEAN
    BY Zenon DEF Init
  <1>5. DataOK
    BY <1>4 DEF Init, DataOK, NoFile
  <1>6. AckJustified /\ WrittenNotLost
    BY DEF Init, AckJustified, WrittenNotLost
  <1>7. QED  BY <1>1, <1>2, <1>3, <1>5, <1>6, TypeParts DEF IInv

LEMMA NextTypeOK == TypeOK /\ [Next]_vars => TypeOK'
  <1> SUFFICES ASSUME TypeOK, [Next]_vars PROVE TypeOK'  OBVIOUS
  <1>1. ASSUME NEW e \in Entries, DeliverOutboundPayloads(e) PROVE TypeOK'
    BY <1>1, DeliverType
  <1>2. ASSUME NEW e \in Entries, SendAborted(e) PROVE TypeOK'
    <2>1. Live(e) \in Workers /\ Live(e) \in LiveWorkers /\ Live(e)[2] = e
      BY Kinds DEF Live
    <2>2. QED  BY <1>2, <2>1, SendType
  <1>3. ASSUME NEW w \in Workers, WorkerStep(w) PROVE TypeOK'
    BY <1>3, SendType, FileType DEF WorkerStep
  <1>4. CASE RecoverPendingDeliveries \/ DrainPendingDeliveries
    BY <1>4, DrainStartType
  <1>5. ASSUME NEW d \in Drains, DrainStep(d) PROVE TypeOK'
    BY <1>5, ClaimType, LoadType, EndType DEF DrainStep
  <1>6. CASE DeferRemainingEntries
    BY <1>6, DeferType
  <1>7. CASE Crash
    BY <1>7, CrashType
  <1>8. CASE UNCHANGED vars
    BY <1>8 DEF vars, disk, workers, history, TypeOK
  <1>9. QED
    BY <1>1, <1>2, <1>3, <1>4, <1>5, <1>6, <1>7, <1>8 DEF Next
\* A step of a worker keeps the promise: only an acknowledgement removes an entry
\* without keeping it in failed/, and what is acknowledged was dealt with.
LEMMA WorkerPromise ==
    ASSUME IInv, TypeOK', NEW w \in Workers, WorkerStep(w)
    PROVE  AckJustified' /\ WrittenNotLost'
  <1>1. AtOK /\ EntryOK /\ DataOK /\ AckJustified /\ WrittenNotLost
    BY TypeParts DEF IInv
  <1>2. AtOK' /\ DataOK'
    BY TypePartsNext
  <1>3. at[w] \notin Resting => entry[w] \in Entries
    BY <1>1, Kinds DEF EntryOK
  <1>4. \A v \in Workers : v # w => at'[v] = at[v]
    BY <1>1 DEF AtOK, WorkerStep, SendSucceeds, SendPartlyFails, SendThrows, AckDelivery,
                UnlinkMarker, FailRead, FailWrite, MoveToFailed, Finish, Go
  <1>5. CASE SendSucceeds(w)
    <2>1. /\ entry[w] \in Entries
          /\ sent' = [sent EXCEPT ![entry[w]] = @ + 1]
          /\ UNCHANGED <<entry, json, failed, written, aborted>>
      BY <1>3, <1>5 DEF SendSucceeds, Sending, Resting, disk
    <2>2. /\ sent'[entry[w]] > 0
          /\ \A e \in Entries : sent[e] > 0 => sent'[e] > 0
      BY <1>1, <2>1 DEF DataOK
    <2>3. AckJustified'
      <3> SUFFICES ASSUME NEW v \in Workers, at'[v] = "ack"
                   PROVE  sent'[entry[v]] > 0 \/ entry[v] \in aborted \/ entry[v] \in BestEffort
        BY <2>1 DEF AckJustified
      <3>1. CASE v = w
        BY <2>2, <3>1
      <3>2. CASE v # w
        <4>1. at[v] = "ack"  BY <1>4, <3>2
        <4>2. entry[v] \in Entries  BY <1>1, <4>1, Kinds DEF EntryOK, Resting
        <4>3. QED  BY <1>1, <2>2, <4>1, <4>2 DEF AckJustified
      <3>3. QED  BY <3>1, <3>2
    <2>4. WrittenNotLost'
      BY <1>1, <2>1, <2>2 DEF WrittenNotLost, OnDisk, DataOK
    <2>5. QED  BY <2>3, <2>4
  <1>6. CASE SendPartlyFails(w) \/ SendThrows(w)
    <2>1. /\ UNCHANGED <<entry, json, failed, sent, written, aborted>>
          /\ at'[w] = "ack" => entry[w] \in BestEffort
      BY <1>1, <1>6 DEF SendPartlyFails, SendThrows, SendKept, disk, Go, AtOK
    <2>2. QED
      BY <1>1, <1>4, <2>1 DEF AckJustified, WrittenNotLost, OnDisk
  <1>7. CASE \/ AckDelivery(w) \/ UnlinkMarker(w) \/ FailRead(w) \/ FailWrite(w)
             \/ MoveToFailed(w)
    <2>1. /\ UNCHANGED <<entry, sent, written, aborted>>
          /\ at'[w] # "ack"
          /\ entry[w] \in Entries
      BY <1>1, <1>3, <1>7 DEF AckDelivery, UnlinkMarker, FailRead, FailWrite, MoveToFailed,
                        FileKept, history, Finish, Go, AtOK, Resting
    <2>2. AckJustified'
      BY <1>1, <1>4, <2>1 DEF AckJustified
    <2>3. CASE AckDelivery(w)
      BY <1>1, <2>1, <2>2, <2>3 DEF AckDelivery, AckJustified, WrittenNotLost, OnDisk, DataOK
    <2>4. CASE UnlinkMarker(w) \/ FailRead(w)
      <3>1. UNCHANGED <<json, failed>>
        BY <2>4 DEF UnlinkMarker, FailRead, disk
      <3>2. QED  BY <1>1, <2>1, <2>2, <3>1 DEF WrittenNotLost, OnDisk
    <2>5. CASE FailWrite(w)
      <3>1. json' = [json EXCEPT ![entry[w]] = count[w] + 1] /\ failed' = failed
        BY <2>5 DEF FailWrite
      <3>2. count[w] + 1 # NoFile
        BY <1>1 DEF DataOK, NoFile
      <3>3. QED
        BY <1>1, <2>1, <2>2, <3>1, <3>2 DEF WrittenNotLost, OnDisk, DataOK
    <2>6. CASE MoveToFailed(w)
      <3>1. /\ json' = [json EXCEPT ![entry[w]] = NoFile]
            /\ failed' = IF json[entry[w]] # NoFile THEN failed \cup {entry[w]} ELSE failed
        BY <2>6 DEF MoveToFailed
      <3>2. QED
        BY <1>1, <2>1, <2>2, <3>1 DEF WrittenNotLost, OnDisk, DataOK
    <2>7. QED  BY <1>7, <2>2, <2>3, <2>4, <2>5, <2>6
  <1>8. QED  BY <1>5, <1>6, <1>7 DEF WorkerStep

LEMMA NextIInv == IInv /\ [Next]_vars => IInv'
  <1> SUFFICES ASSUME IInv, [Next]_vars PROVE IInv'  OBVIOUS
  <1>1. TypeOK'
    BY NextTypeOK DEF IInv
  <1> SUFFICES AckJustified' /\ WrittenNotLost'
    BY <1>1 DEF IInv
  <1>2. AtOK /\ EntryOK /\ DataOK /\ AckJustified /\ WrittenNotLost
    BY TypeParts DEF IInv
  <1>3. ASSUME NEW e \in Entries, DeliverOutboundPayloads(e)
        PROVE  AckJustified' /\ WrittenNotLost'
    <2>1. /\ Live(e) \in Workers
          /\ at' = [at EXCEPT ![Live(e)] = "sending"]
          /\ json' = [json EXCEPT ![e] = 0]
          /\ written' = written \cup {e}
          /\ UNCHANGED <<failed, entry, sent, aborted>>
      BY <1>3, Kinds DEF DeliverOutboundPayloads, BeginSend, Go
    <2>2. AckJustified'
      BY <1>2, <2>1 DEF AckJustified, AtOK
    <2>3. WrittenNotLost'
      BY <1>2, <2>1 DEF WrittenNotLost, OnDisk, DataOK, NoFile
    <2>4. QED  BY <2>2, <2>3
  <1>4. ASSUME NEW e \in Entries, SendAborted(e)
        PROVE  AckJustified' /\ WrittenNotLost'
    <2>1. /\ Live(e) \in Workers
          /\ entry[Live(e)] = e
          /\ at' = [at EXCEPT ![Live(e)] = "ack"]
          /\ aborted' = aborted \cup {e}
          /\ UNCHANGED <<json, failed, entry, sent, written>>
      BY <1>2, <1>4, Kinds DEF SendAborted, SendKept, disk, Go, EntryOK
    <2>2. AckJustified'
      BY <1>2, <2>1 DEF AckJustified, AtOK
    <2>3. WrittenNotLost'
      BY <1>2, <2>1 DEF WrittenNotLost, OnDisk
    <2>4. QED  BY <2>2, <2>3
  <1>5. ASSUME NEW w \in Workers, WorkerStep(w)
        PROVE  AckJustified' /\ WrittenNotLost'
    BY <1>1, <1>5, WorkerPromise
  <1>6. ASSUME UNCHANGED <<json, failed, sent, written, aborted>>,
               \A w \in Workers : at'[w] = "ack" => at[w] = "ack" /\ entry'[w] = entry[w]
        PROVE  AckJustified' /\ WrittenNotLost'
    BY <1>2, <1>6 DEF AckJustified, WrittenNotLost, OnDisk
  <1>7. CASE RecoverPendingDeliveries \/ DrainPendingDeliveries
    <2>1. PICK d \in Drains, selected \in SUBSET Entries : LoadPendingDeliveries(d, selected)
      BY <1>7 DEF RecoverPendingDeliveries, DrainPendingDeliveries, Drains
    <2>2. QED
      BY <1>2, <1>6, <2>1, Kinds DEF LoadPendingDeliveries, Go, history, AtOK
  <1>8. ASSUME NEW d \in Drains, DrainStep(d)
        PROVE  AckJustified' /\ WrittenNotLost'
    <2>1. Drain(d) \in Workers
      BY Kinds
    <2>2. /\ UNCHANGED <<json, failed, sent, written, aborted>>
          /\ \A w \in Workers : at'[w] = "ack" => at[w] = "ack" /\ entry'[w] = entry[w]
      <3>1. CASE \E e \in Entries : ClaimRecoveryEntry(d, e)
        BY <1>2, <2>1, <3>1 DEF ClaimRecoveryEntry, DrainKept, disk, Go, AtOK, EntryOK
      <3>2. CASE LoadPendingDelivery(d)
        BY <1>2, <2>1, <3>2 DEF LoadPendingDelivery, DrainKept, disk, Go, AtOK, BeginSend,
                                Finish
      <3>3. CASE DrainEnds(d)
        BY <1>2, <2>1, <3>3 DEF DrainEnds, DrainKept, disk, Go, AtOK
      <3>4. QED  BY <1>8, <3>1, <3>2, <3>3 DEF DrainStep
    <2>3. QED  BY <1>6, <2>2
  <1>9. CASE DeferRemainingEntries
    BY <1>2, <1>6, <1>9 DEF DeferRemainingEntries, DrainKept, disk, AtOK
  <1>10. CASE Crash
    BY <1>2, <1>6, <1>10 DEF Crash, disk, history
  <1>11. CASE UNCHANGED vars
    BY <1>6, <1>11 DEF vars, disk, workers, history
  <1>12. QED
    BY <1>3, <1>4, <1>5, <1>7, <1>8, <1>9, <1>10, <1>11 DEF Next

\* Types of the queue's state: deferrals are awaited by the startup drain, which
\* runs once per process, whatever crashes.
THEOREM TypeCorrect == Spec => []TypeOK
  <1>1. Init => TypeOK
    BY InitIInv DEF IInv
  <1>2. QED
    BY <1>1, NextTypeOK, PTL DEF Spec

\* The write-ahead promise, for any messages, retry limit, reconnects and crashes,
\* with live deliveries during drains, deferrals and failing mirrors allowed: what
\* enqueueDelivery wrote is sent, aborted, pending or in failed/.
THEOREM NothingWrittenIsLost == Spec => []WrittenNotLost
  <1>1. IInv => WrittenNotLost
    BY DEF IInv
  <1>2. QED
    BY <1>1, InitIInv, NextIInv, PTL DEF Spec
-----------------------------------------------------------------------------
(* Claims of the drains.                                                   *)

\* ClaimsExact, drain by drain.
ClaimsOK ==
    /\ \A e : e \in inProgress <=> \E d \in Drains : HoldsEntry(d) /\ entry[Drain(d)] = e
    /\ \A c, d \in Drains :
           HoldsEntry(c) /\ HoldsEntry(d) /\ entry[Drain(c)] = entry[Drain(d)] => c = d

LEMMA ClaimsParts == ClaimsExact <=> ClaimsOK
  <1> DEFINE held == {entry[Drain(d)] : d \in {c \in Drains : HoldsEntry(c)}}
  <1>1. \A e : e \in held <=> \E d \in Drains : HoldsEntry(d) /\ entry[Drain(d)] = e
    OBVIOUS
  <1>2. inProgress = held <=> \A e : e \in inProgress <=> e \in held
    OBVIOUS
  <1>3. (HoldsEntry("startup") /\ HoldsEntry("reconnect")
            => entry[Drain("startup")] # entry[Drain("reconnect")])
        <=> \A c, d \in Drains :
              HoldsEntry(c) /\ HoldsEntry(d) /\ entry[Drain(c)] = entry[Drain(d)] => c = d
    BY DEF Drains
  <1>4. QED  BY <1>1, <1>2, <1>3 DEF ClaimsExact, ClaimsOK

LEMMA ClaimsPartsNext == ClaimsExact' <=> ClaimsOK'
  BY ClaimsParts, PTL

\* A step that moves no drain into or out of an entry.
LEMMA ClaimsKept ==
    ASSUME ClaimsOK, inProgress' = inProgress,
           \A d \in Drains : /\ HoldsEntry(d)' <=> HoldsEntry(d)
                             /\ HoldsEntry(d) => entry'[Drain(d)] = entry[Drain(d)]
    PROVE  ClaimsOK'
  BY DEF ClaimsOK

\* A drain releases its entry.
LEMMA ClaimReleased ==
    ASSUME AtOK, ClaimsOK, NEW d \in Drains, HoldsEntry(d), Finish(Drain(d)), entry' = entry
    PROVE  ClaimsOK'
  <1>1. /\ Drain(d) \in Workers
        /\ at' = [at EXCEPT ![Drain(d)] = "scan"]
        /\ inProgress' = inProgress \ {entry[Drain(d)]}
    BY Kinds DEF Finish, Go
  <1>2. \A c \in Drains : HoldsEntry(c)' <=> HoldsEntry(c) /\ c # d
    BY <1>1, Kinds DEF AtOK, HoldsEntry, Drains
  <1>3. QED  BY <1>1, <1>2 DEF ClaimsOK

LEMMA WorkerClaims ==
    ASSUME AtOK, ClaimsOK, NEW w \in Workers, at[w] \notin Resting, entry' = entry,
           \/ Finish(w)
           \/ inProgress' = inProgress /\ \E p : Go(w, p) /\ p \notin Resting
    PROVE  ClaimsOK'
  <1>1. CASE w \in DrainWorkers
    <2>1. PICK d \in Drains : w = Drain(d)
      BY <1>1 DEF DrainWorkers
    <2>2. HoldsEntry(d)
      BY <2>1 DEF HoldsEntry, Resting
    <2>3. CASE Finish(w)
      BY <2>1, <2>2, <2>3, ClaimReleased
    <2>4. CASE inProgress' = inProgress /\ \E p : Go(w, p) /\ p \notin Resting
      <3>1. \A c \in Drains : HoldsEntry(c)' <=> HoldsEntry(c)
        BY <2>1, <2>4, Kinds DEF AtOK, HoldsEntry, Go, Resting, Drains
      <3>2. QED  BY <2>4, <3>1, ClaimsKept
    <2>5. QED  BY <2>3, <2>4
  <1>2. CASE w \notin DrainWorkers
    <2>1. inProgress' = inProgress /\ \E p : Go(w, p)
      BY <1>2, FinishMoves
    <2>2. \A c \in Drains : HoldsEntry(c)' <=> HoldsEntry(c)
      BY <1>2, <2>1, Kinds DEF AtOK, HoldsEntry, Go
    <2>3. QED  BY <2>1, <2>2, ClaimsKept
  <1>3. QED  BY <1>1, <1>2

LEMMA NextClaims == TypeOK /\ ClaimsExact /\ [Next]_vars => ClaimsExact'
  <1> SUFFICES ASSUME TypeOK, ClaimsOK, [Next]_vars PROVE ClaimsOK'
    BY ClaimsParts, ClaimsPartsNext
  <1>1. AtOK /\ EntryOK /\ StartupOK /\ DataOK
    BY TypeParts
  <1>2. ASSUME NEW e \in Entries, DeliverOutboundPayloads(e) PROVE ClaimsOK'
    <2>1. /\ Live(e) \in LiveWorkers
          /\ at' = [at EXCEPT ![Live(e)] = "sending"]
          /\ UNCHANGED <<entry, inProgress>>
      BY <1>2, Kinds DEF DeliverOutboundPayloads, BeginSend, Go
    <2>2. \A c \in Drains : HoldsEntry(c)' <=> HoldsEntry(c)
      BY <1>1, <2>1, Kinds DEF AtOK, HoldsEntry
    <2>3. QED  BY <2>1, <2>2, ClaimsKept
  <1>3. ASSUME NEW e \in Entries, SendAborted(e) PROVE ClaimsOK'
    <2>1. /\ Live(e) \in Workers
          /\ at[Live(e)] = "sending"
          /\ Go(Live(e), "ack")
          /\ UNCHANGED <<entry, inProgress>>
      BY <1>3, Kinds DEF SendAborted, Sending, SendKept
    <2>2. QED  BY <1>1, <2>1, WorkerClaims DEF Resting
  <1>4. ASSUME NEW w \in Workers, WorkerStep(w) PROVE ClaimsOK'
    <2>1. at[w] \notin Resting /\ entry' = entry
      BY <1>4 DEF WorkerStep, SendSucceeds, SendPartlyFails, SendThrows, AckDelivery,
                  UnlinkMarker, FailRead, FailWrite, MoveToFailed, Sending, SendKept,
                  FileKept, Resting
    <2>2. \/ Finish(w)
          \/ /\ inProgress' = inProgress
             /\ Go(w, "ack") \/ Go(w, "failRead") \/ Go(w, "move") \/ Go(w, "unlink")
                    \/ Go(w, "failWrite")
      BY <1>4 DEF WorkerStep, SendSucceeds, SendPartlyFails, SendThrows, AckDelivery,
                  UnlinkMarker, FailRead, FailWrite, MoveToFailed, SendKept
    <2>3. QED  BY <1>1, <2>1, <2>2, WorkerClaims DEF Resting
  <1>5. CASE RecoverPendingDeliveries \/ DrainPendingDeliveries
    <2>1. PICK d \in Drains, selected \in SUBSET Entries :
              at[Drain(d)] = "idle" /\ LoadPendingDeliveries(d, selected)
      BY <1>1, <1>5 DEF RecoverPendingDeliveries, DrainPendingDeliveries, StartupOK, Drains
    <2>2. /\ Drain(d) \in Workers
          /\ at' = [at EXCEPT ![Drain(d)] = "scan"]
          /\ UNCHANGED <<entry, inProgress>>
      BY <2>1, Kinds DEF LoadPendingDeliveries, Go
    <2>3. \A c \in Drains : HoldsEntry(c)' <=> HoldsEntry(c)
      BY <1>1, <2>1, <2>2, Kinds DEF AtOK, HoldsEntry, Drains
    <2>4. QED  BY <2>2, <2>3, ClaimsKept
  <1>6. ASSUME NEW d \in Drains, NEW e \in Entries, ClaimRecoveryEntry(d, e) PROVE ClaimsOK'
    <2>1. Drain(d) \in Workers /\ at[Drain(d)] = "scan"
      BY <1>6, Kinds DEF ClaimRecoveryEntry
    <2>2. CASE e \in inProgress
      <3>1. UNCHANGED <<at, entry, inProgress>>
        BY <1>6, <2>2 DEF ClaimRecoveryEntry
      <3>2. QED  BY <3>1, ClaimsKept DEF HoldsEntry
    <2>3. CASE e \notin inProgress
      <3>1. /\ at' = [at EXCEPT ![Drain(d)] = "claimed"]
            /\ entry' = [entry EXCEPT ![Drain(d)] = e]
            /\ inProgress' = inProgress \cup {e}
        BY <1>6, <2>3 DEF ClaimRecoveryEntry, Go
      <3>2. /\ \A c \in Drains : HoldsEntry(c)' <=> HoldsEntry(c) \/ c = d
            /\ ~HoldsEntry(d)
        BY <1>1, <2>1, <3>1, Kinds DEF AtOK, HoldsEntry, Drains
      <3>3. /\ entry'[Drain(d)] = e
            /\ \A c \in Drains : c # d => entry'[Drain(c)] = entry[Drain(c)]
        BY <1>1, <2>1, <3>1, Kinds DEF EntryOK, Drains
      <3>4. QED  BY <2>3, <3>1, <3>2, <3>3 DEF ClaimsOK
    <2>4. QED  BY <2>2, <2>3
  <1>7. ASSUME NEW d \in Drains, LoadPendingDelivery(d) PROVE ClaimsOK'
    <2>1. Drain(d) \in Workers /\ at[Drain(d)] \notin Resting /\ entry' = entry
      BY <1>7, Kinds DEF LoadPendingDelivery, Resting
    <2>2. \/ Finish(Drain(d))
          \/ inProgress' = inProgress /\ (Go(Drain(d), "move") \/ Go(Drain(d), "sending"))
      BY <1>7 DEF LoadPendingDelivery, BeginSend
    <2>3. QED  BY <1>1, <2>1, <2>2, WorkerClaims DEF Resting
  <1>8. ASSUME NEW d \in Drains, DrainEnds(d) PROVE ClaimsOK'
    <2>1. /\ Drain(d) \in Workers
          /\ at[Drain(d)] \in {"scan", "deferring"}
          /\ at' = [at EXCEPT ![Drain(d)] = "idle"]
          /\ UNCHANGED <<entry, inProgress>>
      BY <1>8, Kinds DEF DrainEnds, Go
    <2>2. \A c \in Drains : HoldsEntry(c)' <=> HoldsEntry(c)
      BY <1>1, <2>1, Kinds DEF AtOK, HoldsEntry, Drains
    <2>3. QED  BY <2>1, <2>2, ClaimsKept
  <1>9. CASE DeferRemainingEntries
    <2>1. /\ UNCHANGED <<entry, inProgress>>
          /\ at[Drain("startup")] = "scan" /\ at'[Drain("startup")] = "deferring"
          /\ at'[Drain("reconnect")] = at[Drain("reconnect")]
      BY <1>9, Kinds DEF DeferRemainingEntries, Drains
    <2>2. \A c \in Drains : HoldsEntry(c)' <=> HoldsEntry(c)
      BY <2>1 DEF HoldsEntry, Drains
    <2>3. QED  BY <2>1, <2>2, ClaimsKept
  <1>10. CASE Crash
    <2>1. inProgress' = {} /\ \A d \in Drains : ~HoldsEntry(d)'
      BY <1>10, Kinds DEF Crash, HoldsEntry
    <2>2. QED  BY <2>1 DEF ClaimsOK
  <1>11. CASE UNCHANGED vars
    BY <1>11, ClaimsKept DEF vars, workers, HoldsEntry
  <1>12. QED
    BY <1>2, <1>3, <1>4, <1>5, <1>6, <1>7, <1>8, <1>9, <1>10, <1>11 DEF Next, DrainStep

\* The startup drain and a reconnect drain never work on the same entry, and
\* claimRecoveryEntry leaves no claim behind, deferrals and crashes included.
THEOREM DrainsKeepApart == Spec => []ClaimsExact
  <1>1. Init => TypeOK
    BY InitIInv DEF IInv
  <1>2. Init => ClaimsExact
    <2> SUFFICES ASSUME Init PROVE ClaimsOK  BY ClaimsParts
    <2>1. inProgress = {} /\ \A d \in Drains : ~HoldsEntry(d)
      BY Kinds DEF Init, HoldsEntry
    <2>2. QED  BY <2>1 DEF ClaimsOK
  <1>3. QED
    BY <1>1, <1>2, NextTypeOK, NextClaims, PTL DEF Spec

-----------------------------------------------------------------------------
(* What is counted for each entry.                                         *)

\* The entry was loaded and is neither renamed, rewritten nor moved yet.
InHand == {"sending", "ack", "failRead", "failWrite", "move"}

\* A worker in one of the states S works on entry e.
On(e, S) == \E w \in Workers : at[w] \in S /\ entry[w] = e

\* No deferrals, and no drain beside a live delivery.
Quiet ==
    /\ \A w \in DeferWorkers : at[w] = "idle"
    /\ \A d \in Drains : at[Drain(d)] # "deferring"
    /\ LiveActive => ~DrainActive

\* Nobody takes a file away from the worker that has loaded it.
FilesOK == \A w \in Workers :
    /\ at[w] \in InHand => json[entry[w]] # NoFile
    /\ at[w] = "failWrite" => count[w] = json[entry[w]]

\* The books of an entry: while its file is there, each complete send but the one
\* being acknowledged was cut off by a crash, and each attempt but the one under
\* way is counted in the file or was cut off.
LedgerOK(e) ==
    /\ e \notin written => /\ json[e] = NoFile
                           /\ sent[e] = 0 /\ attempts[e] = 0
                           /\ e \notin acked /\ e \notin failed
    /\ sent[e] <= 1 + crashes
    /\ attempts[e] <= MaxRetries + crashes
    /\ json[e] # NoFile =>
          /\ e \notin acked /\ e \notin failed
          /\ On(e, {"ack"}) \/ sent[e] <= crashes
          /\ attempts[e] <= json[e] + crashes + (IF On(e, InHand) THEN 1 ELSE 0)

RInv == TypeOK /\ ClaimsExact /\ Quiet /\ FilesOK /\ \A e \in Entries : LedgerOK(e)

-----------------------------------------------------------------------------
\* Two workers are never busy with one entry.
LEMMA Sole ==
    ASSUME TypeOK, ClaimsExact, Quiet, NEW v \in Workers, NEW w \in Workers,
           at[v] \notin Resting, at[w] \notin Resting, entry[v] = entry[w]
    PROVE  v = w
  <1>1. AtOK /\ EntryOK /\ ClaimsOK
    BY TypeParts, ClaimsParts
  <1>2. v \notin DeferWorkers /\ w \notin DeferWorkers
    BY DEF Quiet, Resting
  <1>3. CASE v \in LiveWorkers /\ w \in LiveWorkers
    BY <1>1, <1>3, Kinds DEF EntryOK
  <1>4. CASE v \in DrainWorkers /\ w \in DrainWorkers
    <2>1. PICK c \in Drains, d \in Drains : v = Drain(c) /\ w = Drain(d)
      BY <1>4 DEF DrainWorkers
    <2>2. HoldsEntry(c) /\ HoldsEntry(d)
      BY <2>1 DEF HoldsEntry, Resting
    <2>3. QED  BY <1>1, <2>1, <2>2 DEF ClaimsOK
  <1>5. ASSUME NEW l \in LiveWorkers, NEW d \in DrainWorkers,
               at[l] \notin Resting, at[d] \notin Resting
        PROVE  FALSE
    <2>1. LiveActive
      BY <1>5 DEF LiveActive, Resting
    <2>2. DrainActive
      BY <1>5 DEF DrainActive, DrainWorkers, Resting
    <2>3. QED  BY <2>1, <2>2 DEF Quiet
  <1>6. QED  BY <1>2, <1>3, <1>4, <1>5, Kinds

\* A worker moves on with its entry: who else is on which entry stays the same.
LEMMA MoveOn ==
    ASSUME TypeOK, ClaimsExact, Quiet, NEW w \in Workers, at[w] \notin Resting,
           NEW p, Go(w, p), entry' = entry, NEW S, S \cap Resting = {}
    PROVE  /\ On(entry[w], S) <=> at[w] \in S
           /\ On(entry[w], S)' <=> p \in S
           /\ \A e : e # entry[w] => (On(e, S)' <=> On(e, S))
  <1>1. at \in [Workers -> LiveStates \cup DrainStates]
    BY TypeParts DEF AtOK
  <1>2. at'[w] = p /\ \A v \in Workers : v # w => at'[v] = at[v]
    BY <1>1 DEF Go
  <1>3. \A v \in Workers : at[v] \in S /\ entry[v] = entry[w] => v = w
    BY Sole
  <1>4. QED  BY <1>2, <1>3 DEF On

LEMMA QuietMoves ==
    ASSUME TypeOK, Quiet, NEW w \in Workers, at[w] \notin Resting,
           NEW p, Go(w, p), p # "deferring"
    PROVE  Quiet'
  <1>1. at' = [at EXCEPT ![w] = p] /\ at \in [Workers -> LiveStates \cup DrainStates]
    BY TypeParts DEF AtOK, Go
  <1>2. w \notin DeferWorkers
    BY DEF Quiet, Resting
  <1>3. CASE w \in LiveWorkers
    <2>1. ~DrainActive
      BY <1>3 DEF Quiet, LiveActive, Resting
    <2>2. ~DrainActive'
      BY <1>1, <1>3, <2>1, Kinds DEF DrainActive
    <2>3. QED
      BY <1>1, <1>2, <1>3, <2>2, Kinds DEF Quiet, LiveActive, DrainActive
  <1>4. CASE w \in DrainWorkers
    <2>1. ~LiveActive
      BY <1>4 DEF Quiet, DrainActive, DrainWorkers, Resting
    <2>2. ~LiveActive'
      BY <1>1, <1>4, <2>1, Kinds DEF LiveActive
    <2>3. QED
      BY <1>1, <1>2, <1>4, <2>2, Kinds DEF Quiet, LiveActive, DrainActive
  <1>5. QED  BY <1>2, <1>3, <1>4, Kinds

LEMMA FinishRests ==
    ASSUME NEW w \in Workers, Finish(w)
    PROVE  \E p \in Resting \ {"deferring"} : Go(w, p)
  BY DEF Finish, Resting

\* Nothing of entry e has changed.
LEMMA LedgerKept ==
    ASSUME NEW e \in Entries, LedgerOK(e), crashes' = crashes,
           json'[e] = json[e], sent'[e] = sent[e], attempts'[e] = attempts[e],
           e \in acked' <=> e \in acked, e \in failed' <=> e \in failed,
           e \in written' <=> e \in written,
           json[e] # NoFile => /\ On(e, {"ack"})' <=> On(e, {"ack"})
                               /\ On(e, InHand)' <=> On(e, InHand)
    PROVE  LedgerOK(e)'
  BY DEF LedgerOK

\* A worker moves on; only the file of its entry may have changed.
LEMMA FilesKept ==
    ASSUME TypeOK, ClaimsExact, Quiet, FilesOK, NEW w \in Workers, at[w] \notin Resting,
           NEW p, Go(w, p), entry' = entry,
           \A e \in Entries : e # entry[w] => json'[e] = json[e],
           \A v \in Workers : v # w => count'[v] = count[v],
           p \in InHand => json'[entry[w]] # NoFile,
           p = "failWrite" => count'[w] = json'[entry[w]]
    PROVE  FilesOK'
  <1>1. at \in [Workers -> LiveStates \cup DrainStates] /\ EntryOK
    BY TypeParts DEF AtOK
  <1>2. at'[w] = p /\ \A v \in Workers : v # w => at'[v] = at[v]
    BY <1>1 DEF Go
  <1>3. ASSUME NEW v \in Workers, v # w, at[v] \in InHand
        PROVE  entry[v] \in Entries /\ entry[v] # entry[w]
    <2>1. at[v] \notin Resting
      BY <1>3 DEF InHand, Resting
    <2>2. entry[v] # entry[w]
      BY <1>3, <2>1, Sole
    <2>3. entry[v] \in Entries
      BY <1>1, <2>1, Kinds DEF EntryOK
    <2>4. QED  BY <2>2, <2>3
  <1>4. QED  BY <1>2, <1>3 DEF FilesOK, InHand

-----------------------------------------------------------------------------
(* The steps of a worker on its entry.                                     *)

\* The books of the other entries.
LEMMA OthersKept ==
    ASSUME RInv, NEW w \in Workers, at[w] \notin Resting,
           NEW p, Go(w, p), entry' = entry, crashes' = crashes,
           \A e \in Entries : e # entry[w] =>
               /\ json'[e] = json[e] /\ sent'[e] = sent[e] /\ attempts'[e] = attempts[e]
               /\ e \in acked' <=> e \in acked
               /\ e \in failed' <=> e \in failed
               /\ e \in written' <=> e \in written
    PROVE  \A e \in Entries : e # entry[w] => LedgerOK(e)'
  <1> SUFFICES ASSUME NEW e \in Entries, e # entry[w] PROVE LedgerOK(e)'  OBVIOUS
  <1>1. /\ On(e, {"ack"})' <=> On(e, {"ack"})
        /\ On(e, InHand)' <=> On(e, InHand)
    <2>1. {"ack"} \cap Resting = {} /\ InHand \cap Resting = {}
      BY DEF Resting, InHand
    <2>2. QED  BY <2>1, MoveOn DEF RInv
  <1>2. LedgerOK(e)
    BY DEF RInv
  <1>3. QED  BY <1>1, <1>2, LedgerKept

\* What a step of w has to show about its own entry.
LEMMA WorkerInv ==
    ASSUME RInv, TypeOK', ClaimsExact', NEW w \in Workers, at[w] \notin Resting,
           NEW p, p # "deferring", Go(w, p), entry' = entry, crashes' = crashes,
           \A e \in Entries : e # entry[w] =>
               /\ json'[e] = json[e] /\ sent'[e] = sent[e] /\ attempts'[e] = attempts[e]
               /\ e \in acked' <=> e \in acked
               /\ e \in failed' <=> e \in failed
               /\ e \in written' <=> e \in written,
           \A v \in Workers : v # w => count'[v] = count[v],
           p \in InHand => json'[entry[w]] # NoFile,
           p = "failWrite" => count'[w] = json'[entry[w]],
           /\ On(entry[w], {"ack"})' <=> p = "ack"
           /\ On(entry[w], InHand)' <=> p \in InHand
           => LedgerOK(entry[w])'
    PROVE  RInv'
  <1>1. Quiet'
    BY QuietMoves DEF RInv
  <1>2. FilesOK'
    BY FilesKept DEF RInv
  <1>3. \A e \in Entries : e # entry[w] => LedgerOK(e)'
    BY OthersKept
  <1>4. LedgerOK(entry[w])'
    <2>1. {"ack"} \cap Resting = {} /\ InHand \cap Resting = {}
      BY DEF Resting, InHand
    <2>2. QED  BY <2>1, MoveOn DEF RInv
  <1>5. QED  BY <1>1, <1>2, <1>3, <1>4 DEF RInv

\* What the invariant says of the entry a worker has in hand.
LEMMA InHandFacts ==
    ASSUME RInv, NEW w \in Workers, at[w] \in InHand
    PROVE  /\ entry[w] \in Entries
           /\ json[entry[w]] \in Nat
           /\ entry[w] \in written
           /\ entry[w] \notin acked /\ entry[w] \notin failed
           /\ sent[entry[w]] \in Nat /\ attempts[entry[w]] \in Nat /\ crashes \in Nat
           /\ at[w] = "ack" \/ sent[entry[w]] <= crashes
           /\ sent[entry[w]] <= 1 + crashes
           /\ attempts[entry[w]] <= MaxRetries + crashes
           /\ attempts[entry[w]] <= json[entry[w]] + crashes + 1
  <1> DEFINE e == entry[w]
  <1>1. at[w] \notin Resting
    BY DEF InHand, Resting
  <1>2. e \in Entries
    BY <1>1, TypeParts, Kinds DEF RInv, EntryOK
  <1>3. json[e] \in Nat /\ sent[e] \in Nat /\ attempts[e] \in Nat /\ crashes \in Nat /\ json[e] # NoFile
    BY <1>2, TypeParts DEF RInv, DataOK, FilesOK
  <1>4. On(e, {"ack"}) => at[w] = "ack"
    <2> SUFFICES ASSUME NEW v \in Workers, at[v] = "ack", entry[v] = e PROVE at[w] = "ack"
      BY DEF On
    <2>1. v = w
      BY <1>1, Sole DEF RInv, Resting
    <2>2. QED  BY <2>1
  <1>5. LedgerOK(e)
    BY <1>2 DEF RInv
  <1>6. QED
    BY <1>2, <1>3, <1>4, <1>5 DEF LedgerOK

LEMMA SendInv ==
    ASSUME RInv, TypeOK', ClaimsExact', ~MirrorMayFail, NEW w \in Workers,
           \/ SendSucceeds(w)
           \/ SendPartlyFails(w)
           \/ SendThrows(w)
           \/ w \in LiveWorkers /\ SendAborted(w[2])
    PROVE  RInv'
  <1> DEFINE e == entry[w]
  <1>1. at[w] = "sending" /\ at[w] \notin Resting /\ at[w] \in InHand
    BY Kinds DEF SendSucceeds, SendPartlyFails, SendThrows, SendAborted, Sending, Resting, InHand
  <1>2. PICK p \in {"ack", "failRead", "move"} : Go(w, p) /\ (SendSucceeds(w) => p = "ack")
    BY Kinds DEF SendSucceeds, SendPartlyFails, SendThrows, SendAborted
  <1>3. /\ UNCHANGED <<json, failed, entry, count, crashes, written, attempts, acked>>
        /\ \/ sent' = [sent EXCEPT ![e] = @ + 1] /\ p = "ack"
           \/ sent' = sent
    BY <1>2 DEF SendSucceeds, SendPartlyFails, SendThrows, SendAborted, SendKept, disk
  <1>4. /\ e \in Entries /\ json[e] \in Nat /\ e \in written
        /\ e \notin acked /\ e \notin failed
        /\ sent[e] \in Nat /\ crashes \in Nat /\ sent[e] <= crashes
        /\ attempts[e] <= MaxRetries + crashes
        /\ attempts[e] <= json[e] + crashes + 1
    BY <1>1, InHandFacts
  <1>5. sent \in [Entries -> Nat]
    BY TypeParts DEF RInv, DataOK
  <1>6. p \in InHand /\ p # "deferring" /\ p # "failWrite"
    BY <1>2 DEF InHand
  <1>7. ASSUME On(e, {"ack"})' <=> p = "ack", On(e, InHand)'
        PROVE  LedgerOK(e)'
    <2>1. sent'[e] <= 1 + crashes /\ (sent'[e] <= crashes \/ p = "ack")
      BY <1>3, <1>4, <1>5
    <2>2. QED
      BY <1>3, <1>4, <1>7, <2>1 DEF LedgerOK
  <1>8. json'[e] # NoFile
    BY <1>3, <1>4 DEF NoFile
  <1>9. QED
    BY <1>1, <1>2, <1>3, <1>5, <1>6, <1>7, <1>8, WorkerInv

\* ackDelivery: the file that was loaded is renamed, so it is gone for good.
LEMMA AckInv ==
    ASSUME RInv, TypeOK', ClaimsExact', NEW w \in Workers, AckDelivery(w)
    PROVE  RInv'
  <1> DEFINE e == entry[w]
  <1>1. at[w] = "ack" /\ at[w] \notin Resting /\ at[w] \in InHand
    BY DEF AckDelivery, Resting, InHand
  <1>2. /\ e \in Entries /\ json[e] \in Nat /\ e \in written
        /\ sent[e] <= 1 + crashes /\ attempts[e] <= MaxRetries + crashes
    BY <1>1, InHandFacts
  <1>3. json \in [Entries -> Nat \cup {NoFile}]
    BY TypeParts DEF RInv, DataOK
  <1>4. /\ Go(w, "unlink")
        /\ json' = [json EXCEPT ![e] = NoFile]
        /\ acked' \in {acked, acked \cup {e}}
        /\ UNCHANGED <<failed, entry, count, crashes, written, sent, attempts>>
    BY <1>2 DEF AckDelivery, FileKept, NoFile
  <1>5. json'[e] = NoFile /\ \A f \in Entries : f # e => json'[f] = json[f]
    BY <1>2, <1>3, <1>4
  <1>6. LedgerOK(e)'
    BY <1>2, <1>4, <1>5 DEF LedgerOK
  <1>7. QED
    BY <1>1, <1>4, <1>5, <1>6, WorkerInv DEF InHand

LEMMA UnlinkInv ==
    ASSUME RInv, TypeOK', ClaimsExact', NEW w \in Workers, UnlinkMarker(w)
    PROVE  RInv'
  <1>1. at[w] \notin Resting /\ entry[w] \in Entries /\ at[w] \notin InHand /\ at[w] # "ack"
    <2>1. at[w] = "unlink"
      BY DEF UnlinkMarker
    <2>2. QED  BY <2>1, TypeParts, Kinds DEF RInv, EntryOK, Resting, InHand
  <1>2. PICK p \in Resting \ {"deferring"} : Go(w, p)
    BY FinishRests DEF UnlinkMarker
  <1>3. UNCHANGED <<json, failed, acked, entry, count, crashes, written, sent, attempts>>
    BY DEF UnlinkMarker, FileKept
  <1>4. p \notin InHand /\ p # "ack"
    BY <1>2 DEF Resting, InHand
  <1>5. ASSUME On(entry[w], {"ack"})' <=> p = "ack", On(entry[w], InHand)' <=> p \in InHand
        PROVE  LedgerOK(entry[w])'
    <2>1. LedgerOK(entry[w]) /\ ~On(entry[w], {"ack"}) /\ ~On(entry[w], InHand)
      <3>1. {"ack"} \cap Resting = {} /\ InHand \cap Resting = {}
        BY DEF Resting, InHand
      <3>2. QED  BY <1>1, <1>2, <1>3, <3>1, MoveOn DEF RInv
    <2>2. QED  BY <1>1, <1>3, <1>4, <1>5, <2>1, LedgerKept
  <1>6. QED
    BY <1>1, <1>2, <1>3, <1>4, <1>5, WorkerInv DEF InHand

\* failDelivery: what is read is still there when it is written.
LEMMA FailReadInv ==
    ASSUME RInv, TypeOK', ClaimsExact', NEW w \in Workers, FailRead(w)
    PROVE  RInv'
  <1> DEFINE e == entry[w]
  <1>1. at[w] = "failRead" /\ at[w] \notin Resting /\ at[w] \in InHand
    BY DEF FailRead, Resting, InHand
  <1>2. /\ e \in Entries /\ json[e] \in Nat /\ e \in written
        /\ e \notin acked /\ e \notin failed
        /\ sent[e] <= crashes /\ sent[e] <= 1 + crashes
        /\ attempts[e] <= MaxRetries + crashes
        /\ attempts[e] <= json[e] + crashes + 1
    BY <1>1, InHandFacts
  <1>3. json[e] # NoFile
    BY <1>2 DEF NoFile
  <1>4. count \in [Workers -> Nat]
    BY TypeParts DEF RInv, DataOK
  <1>5. /\ Go(w, "failWrite")
        /\ count' = [count EXCEPT ![w] = json[e]]
        /\ UNCHANGED <<json, failed, acked, entry, crashes, written, sent, attempts>>
    BY <1>3 DEF FailRead, disk, history
  <1>6. "failWrite" \in InHand
    BY DEF InHand
  <1>7. ASSUME On(e, InHand)'
        PROVE  LedgerOK(e)'
    BY <1>2, <1>5, <1>7 DEF LedgerOK
  <1>8. QED
    BY <1>1, <1>3, <1>4, <1>5, <1>6, <1>7, WorkerInv

LEMMA FailWriteInv ==
    ASSUME RInv, TypeOK', ClaimsExact', NEW w \in Workers, FailWrite(w)
    PROVE  RInv'
  <1> DEFINE e == entry[w]
  <1>1. at[w] = "failWrite" /\ at[w] \notin Resting /\ at[w] \in InHand
    BY DEF FailWrite, Resting, InHand
  <1>2. /\ e \in Entries /\ json[e] \in Nat /\ e \in written
        /\ e \notin acked /\ e \notin failed
        /\ sent[e] <= crashes /\ sent[e] <= 1 + crashes
        /\ attempts[e] <= MaxRetries + crashes
        /\ attempts[e] <= json[e] + crashes + 1
        /\ attempts[e] \in Nat /\ crashes \in Nat
    BY <1>1, InHandFacts
  <1>3. json \in [Entries -> Nat \cup {NoFile}] /\ count[w] = json[e]
    BY <1>1, TypeParts DEF RInv, DataOK, FilesOK
  <1>4. PICK p \in Resting \ {"deferring"} : Go(w, p)
    BY FinishRests DEF FailWrite
  <1>5. /\ json' = [json EXCEPT ![e] = json[e] + 1]
        /\ UNCHANGED <<failed, acked, entry, count, crashes, written, sent, attempts>>
    BY <1>3 DEF FailWrite, FileKept
  <1>6. json'[e] = json[e] + 1 /\ \A f \in Entries : f # e => json'[f] = json[f]
    BY <1>2, <1>3, <1>5
  <1>7. p \notin InHand /\ p # "ack"
    BY <1>4 DEF Resting, InHand
  <1>8. ASSUME ~On(e, InHand)'
        PROVE  LedgerOK(e)'
    <2>1. attempts'[e] <= json'[e] + crashes' + 0
      BY <1>2, <1>5, <1>6
    <2>2. QED
      BY <1>2, <1>5, <1>8, <2>1 DEF LedgerOK
  <1>9. p # "failWrite"
    BY <1>7 DEF InHand
  <1>10. QED
    BY <1>1, <1>4, <1>5, <1>6, <1>7, <1>8, <1>9, WorkerInv

\* moveToFailed: the entry leaves the queue.
LEMMA MoveInv ==
    ASSUME RInv, TypeOK', ClaimsExact', NEW w \in Workers, MoveToFailed(w)
    PROVE  RInv'
  <1> DEFINE e == entry[w]
  <1>1. at[w] = "move" /\ at[w] \notin Resting /\ at[w] \in InHand
    BY DEF MoveToFailed, Resting, InHand
  <1>2. /\ e \in Entries /\ json[e] \in Nat /\ e \in written
        /\ sent[e] <= 1 + crashes /\ attempts[e] <= MaxRetries + crashes
    BY <1>1, InHandFacts
  <1>3. json \in [Entries -> Nat \cup {NoFile}]
    BY TypeParts DEF RInv, DataOK
  <1>4. PICK p \in Resting \ {"deferring"} : Go(w, p)
    BY FinishRests DEF MoveToFailed
  <1>5. /\ json' = [json EXCEPT ![e] = NoFile]
        /\ failed' \in {failed, failed \cup {e}}
        /\ UNCHANGED <<acked, entry, count, crashes, written, sent, attempts>>
    BY DEF MoveToFailed, FileKept
  <1>6. json'[e] = NoFile /\ \A f \in Entries : f # e => json'[f] = json[f]
    BY <1>2, <1>3, <1>5
  <1>7. LedgerOK(e)'
    BY <1>2, <1>5, <1>6 DEF LedgerOK
  <1>8. p \notin InHand /\ p # "failWrite"
    BY <1>4 DEF Resting, InHand
  <1>9. QED
    BY <1>1, <1>4, <1>5, <1>6, <1>7, <1>8, WorkerInv

\* loadPendingDelivery: an attempt is begun only while the file counts fewer.
LEMMA LoadInv ==
    ASSUME RInv, TypeOK', ClaimsExact', NEW d \in Drains, LoadPendingDelivery(d)
    PROVE  RInv'
  <1> DEFINE w == Drain(d)
             e == entry[w]
  <1>1. w \in Workers /\ at[w] = "claimed" /\ at[w] \notin Resting
    BY Kinds DEF LoadPendingDelivery, Resting
  <1>2. e \in Entries /\ json \in [Entries -> Nat \cup {NoFile}] /\ MaxRetries \in Nat
        /\ attempts \in [Entries -> Nat] /\ crashes \in Nat /\ sent \in [Entries -> Nat]
    BY <1>1, TypeParts, Kinds, DeliveryAssumption DEF RInv, EntryOK, DataOK
  <1>3. UNCHANGED <<json, failed, acked, entry, count, crashes, written, sent>>
    BY DEF LoadPendingDelivery, DrainKept, disk
  <1>4. LedgerOK(e) /\ ~On(e, {"ack"}) /\ ~On(e, InHand)
    <2>1. ASSUME NEW S, S \cap Resting = {}, "claimed" \notin S
          PROVE  ~On(e, S)
      <3> SUFFICES ASSUME NEW v \in Workers, at[v] \in S, entry[v] = e PROVE FALSE
        BY DEF On
      <3>1. v = w
        BY <1>1, <2>1, Sole DEF RInv
      <3>2. QED  BY <1>1, <2>1, <3>1
    <2>2. {"ack"} \cap Resting = {} /\ InHand \cap Resting = {} /\ "claimed" \notin InHand
      BY DEF Resting, InHand
    <2>3. QED  BY <1>2, <2>1, <2>2 DEF RInv
  <1>5. CASE Finish(w) /\ UNCHANGED attempts
    <2>1. PICK p \in Resting \ {"deferring"} : Go(w, p)
      BY <1>1, <1>5, FinishRests
    <2>2. p \notin InHand /\ p # "ack" /\ p # "failWrite"
      BY <2>1 DEF Resting, InHand
    <2>3. ASSUME On(e, {"ack"})' <=> p = "ack", On(e, InHand)' <=> p \in InHand
          PROVE  LedgerOK(e)'
      BY <1>2, <1>3, <1>4, <1>5, <2>2, <2>3, LedgerKept
    <2>4. QED
      BY <1>1, <1>3, <1>5, <2>1, <2>2, <2>3, WorkerInv
  <1>6. CASE json[e] >= MaxRetries /\ Go(w, "move") /\ UNCHANGED attempts
    <2>1. json[e] # NoFile
      BY <1>2, <1>6 DEF NoFile
    <2>2. ASSUME On(e, InHand)'
          PROVE  LedgerOK(e)'
      <3>1. attempts'[e] <= json'[e] + crashes' + 1
        BY <1>2, <1>3, <1>4, <1>6, <2>1 DEF LedgerOK
      <3>2. QED
        BY <1>2, <1>3, <1>4, <1>6, <2>1, <2>2, <3>1 DEF LedgerOK
    <2>3. "move" \in InHand
      BY DEF InHand
    <2>4. QED
      BY <1>1, <1>3, <1>6, <2>1, <2>2, <2>3, WorkerInv
  <1>7. CASE json[e] # NoFile /\ json[e] < MaxRetries /\ BeginSend(w, e)
    <2>1. /\ Go(w, "sending")
          /\ attempts'[e] = attempts[e] + 1
          /\ \A f \in Entries : f # e => attempts'[f] = attempts[f]
      BY <1>2, <1>7 DEF BeginSend
    <2>2. /\ json[e] \in Nat /\ attempts[e] \in Nat /\ sent[e] \in Nat
          /\ attempts[e] <= json[e] + crashes
      BY <1>2, <1>4, <1>7 DEF LedgerOK
    <2>3. attempts'[e] <= MaxRetries + crashes /\ attempts'[e] <= json[e] + crashes + 1
      BY <1>2, <1>7, <2>1, <2>2
    <2>4. ASSUME On(e, InHand)'
          PROVE  LedgerOK(e)'
      BY <1>2, <1>3, <1>4, <1>7, <2>3, <2>4 DEF LedgerOK
    <2>5. "sending" \in InHand
      BY DEF InHand
    <2>6. QED
      BY <1>1, <1>3, <1>7, <2>1, <2>4, <2>5, WorkerInv
  <1>8. QED
    BY <1>5, <1>6, <1>7 DEF LoadPendingDelivery

-----------------------------------------------------------------------------
(* The other steps.                                                        *)

\* A worker that has no entry in hand, before or after, changes no books.
LEMMA EmptyHanded ==
    ASSUME RInv, NEW w \in Workers, at[w] \notin InHand, at'[w] \notin InHand,
           \A v \in Workers : v # w => at'[v] = at[v] /\ entry'[v] = entry[v],
           UNCHANGED <<json, failed, acked, count, crashes, written, sent, attempts>>
    PROVE  FilesOK' /\ \A e \in Entries : LedgerOK(e)'
  <1>1. FilesOK'
    BY DEF RInv, FilesOK, InHand
  <1>2. ASSUME NEW e \in Entries
        PROVE  LedgerOK(e)'
    <2>1. LedgerOK(e)
      BY DEF RInv
    <2>2. /\ On(e, {"ack"})' <=> On(e, {"ack"})
          /\ On(e, InHand)' <=> On(e, InHand)
      BY DEF On, InHand
    <2>3. QED  BY <2>1, <2>2, LedgerKept
  <1>3. QED  BY <1>1, <1>2

LEMMA DeliverInv ==
    ASSUME RInv, TypeOK', ClaimsExact', ~LiveDuringRecovery, MaxRetries > 0,
           NEW e \in Entries, DeliverOutboundPayloads(e)
    PROVE  RInv'
  <1> DEFINE w == Live(e)
  <1>1. /\ w \in Workers /\ w \in LiveWorkers
        /\ at[w] = "idle" /\ e \notin written /\ ~DrainActive
        /\ json' = [json EXCEPT ![e] = 0]
        /\ written' = written \cup {e}
        /\ at' = [at EXCEPT ![w] = "sending"]
        /\ attempts' = [attempts EXCEPT ![e] = @ + 1]
        /\ UNCHANGED <<failed, entry, count, crashes, sent, acked>>
    BY Kinds DEF DeliverOutboundPayloads, BeginSend, Go
  <1>2. /\ AtOK /\ EntryOK /\ DataOK /\ MaxRetries \in Nat /\ entry[w] = e
    BY TypeParts, DeliveryAssumption DEF RInv, EntryOK
  <1>3. LedgerOK(e)
    BY DEF RInv
  <1>4. at'[w] = "sending" /\ \A v \in Workers : v # w => at'[v] = at[v]
    BY <1>1, <1>2 DEF AtOK
  <1>5. json'[e] = 0 /\ \A f \in Entries : f # e => json'[f] = json[f]
    BY <1>1, <1>2 DEF DataOK
  <1>6. ASSUME NEW v \in Workers, at[v] \in InHand
        PROVE  v # w /\ entry[v] \in Entries /\ entry[v] # e
    <2>1. entry[v] \in Entries /\ json[entry[v]] # NoFile
      BY <1>2, <1>6, Kinds DEF RInv, FilesOK, EntryOK, InHand, Resting
    <2>2. QED
      BY <1>1, <1>3, <1>6, <2>1 DEF LedgerOK, InHand
  <1>7. Quiet'
    <2>1. ~DrainActive'
      BY <1>1, <1>4, Kinds DEF DrainActive
    <2>2. QED
      BY <1>1, <1>4, <2>1, Kinds DEF RInv, Quiet, DrainActive
  <1>8. FilesOK'
    <2> SUFFICES ASSUME NEW v \in Workers
                 PROVE  /\ at'[v] \in InHand => json'[entry'[v]] # NoFile
                        /\ at'[v] = "failWrite" => count'[v] = json'[entry'[v]]
      BY DEF FilesOK
    <2>1. CASE v = w
      BY <1>1, <1>2, <1>4, <1>5, <2>1 DEF NoFile
    <2>2. CASE v # w
      BY <1>1, <1>4, <1>5, <1>6, <2>2 DEF RInv, FilesOK, InHand
    <2>3. QED  BY <2>1, <2>2
  <1>9. LedgerOK(e)'
    <2>1. /\ json'[e] = 0 /\ attempts'[e] = 1 /\ sent'[e] = 0
          /\ e \notin acked' /\ e \notin failed' /\ e \in written'
      BY <1>1, <1>2, <1>3, <1>5 DEF LedgerOK, DataOK
    <2>2. crashes' \in Nat
      BY <1>1, <1>2 DEF DataOK
    <2>3. On(e, InHand)'
      BY <1>1, <1>2, <1>4 DEF On, InHand
    <2>4. QED
      BY <1>2, <2>1, <2>2, <2>3 DEF LedgerOK
  <1>10. ASSUME NEW f \in Entries, f # e
         PROVE  LedgerOK(f)'
    <2>1. LedgerOK(f)
      BY DEF RInv
    <2>2. ASSUME NEW S, "idle" \notin S
          PROVE  On(f, S)' <=> On(f, S)
      BY <1>1, <1>2, <1>4, <1>10, <2>2 DEF On
    <2>3. "idle" \notin InHand /\ "idle" \notin {"ack"}
      BY DEF InHand
    <2>4. attempts'[f] = attempts[f] /\ (f \in written' <=> f \in written)
      BY <1>1, <1>2, <1>10 DEF DataOK
    <2>5. QED
      BY <1>1, <1>5, <1>10, <2>1, <2>2, <2>3, <2>4, LedgerKept
  <1>11. QED  BY <1>7, <1>8, <1>9, <1>10 DEF RInv

\* A drain starts only while no live delivery is under way.
LEMMA DrainStartInv ==
    ASSUME RInv, TypeOK', ClaimsExact', ~LiveDuringRecovery,
           RecoverPendingDeliveries \/ DrainPendingDeliveries
    PROVE  RInv'
  <1>1. PICK d \in Drains, selected \in SUBSET Entries :
            /\ at[Drain(d)] = "idle"
            /\ LoadPendingDeliveries(d, selected)
    BY TypeParts DEF RecoverPendingDeliveries, DrainPendingDeliveries, RInv, StartupOK, Drains
  <1>2. ~LiveActive
    BY DEF RecoverPendingDeliveries, DrainPendingDeliveries
  <1>3. /\ Drain(d) \in Workers /\ Drain(d) \in DrainWorkers
        /\ at' = [at EXCEPT ![Drain(d)] = "scan"]
        /\ UNCHANGED <<json, failed, acked, entry, count, crashes, written, sent, attempts>>
    BY <1>1, Kinds DEF LoadPendingDeliveries, Go, history
  <1>4. at'[Drain(d)] = "scan" /\ \A v \in Workers : v # Drain(d) => at'[v] = at[v]
    BY <1>3, TypeParts DEF RInv, AtOK
  <1>5. Quiet'
    BY <1>2, <1>3, <1>4, Kinds DEF RInv, Quiet, LiveActive
  <1>6. FilesOK' /\ \A e \in Entries : LedgerOK(e)'
    BY <1>1, <1>3, <1>4, EmptyHanded DEF InHand
  <1>7. QED  BY <1>5, <1>6 DEF RInv

LEMMA ScanInv ==
    ASSUME RInv, TypeOK', ClaimsExact', NEW d \in Drains,
           DrainEnds(d) \/ \E e \in Entries : ClaimRecoveryEntry(d, e)
    PROVE  RInv'
  <1>1. Drain(d) \in Workers /\ Drain(d) \in DrainWorkers
    BY Kinds
  <1>2. /\ at[Drain(d)] = "scan"
        /\ at' \in {at, [at EXCEPT ![Drain(d)] = "claimed"], [at EXCEPT ![Drain(d)] = "idle"]}
        /\ \A v \in Workers : v # Drain(d) => entry'[v] = entry[v]
        /\ UNCHANGED <<json, failed, acked, count, crashes, written, sent, attempts>>
    BY <1>1, TypeParts, Kinds DEF RInv, Quiet, DrainEnds, ClaimRecoveryEntry, DrainKept, disk,
                                  Go, EntryOK
  <1>3. /\ at'[Drain(d)] \in {"scan", "claimed", "idle"}
        /\ \A v \in Workers : v # Drain(d) => at'[v] = at[v]
    BY <1>1, <1>2, TypeParts DEF RInv, AtOK
  <1>4. Quiet'
    <2>1. ~LiveActive
      BY <1>2 DEF RInv, Quiet, DrainActive
    <2>2. QED
      BY <1>1, <1>3, <2>1, Kinds DEF RInv, Quiet, LiveActive
  <1>5. FilesOK' /\ \A e \in Entries : LedgerOK(e)'
    BY <1>1, <1>2, <1>3, EmptyHanded DEF InHand
  <1>6. QED  BY <1>4, <1>5 DEF RInv

\* A crash takes every entry out of every hand, and is counted.
LEMMA CrashInv ==
    ASSUME RInv, TypeOK', ClaimsExact', Crash
    PROVE  RInv'
  <1>1. \A w \in Workers : at'[w] \in {"done", "idle"} /\ (w \notin LiveWorkers => at'[w] = "idle")
    BY DEF Crash
  <1>2. /\ crashes' = crashes + 1 /\ crashes \in Nat
        /\ UNCHANGED <<json, failed, acked, written, sent, attempts>>
    BY TypeParts DEF Crash, disk, history, RInv, DataOK
  <1>3. Quiet'
    BY <1>1, Kinds DEF Quiet, LiveActive, DrainActive
  <1>4. FilesOK'
    BY <1>1 DEF FilesOK, InHand
  <1>5. ASSUME NEW e \in Entries
        PROVE  LedgerOK(e)'
    <2>1. /\ LedgerOK(e) /\ MaxRetries \in Nat
          /\ json[e] \in Nat \cup {NoFile} /\ sent[e] \in Nat /\ attempts[e] \in Nat
      BY TypeParts, DeliveryAssumption DEF RInv, DataOK
    <2>2. json[e] # NoFile => attempts[e] <= json[e] + crashes + 1
      BY <1>2, <2>1 DEF LedgerOK
    <2>3. ~On(e, InHand)'
      BY <1>1 DEF On, InHand
    <2>4. json'[e] # NoFile => /\ sent'[e] <= crashes'
                              /\ attempts'[e] <= json'[e] + crashes' + 0
      BY <1>2, <2>1, <2>2 DEF LedgerOK
    <2>5. sent'[e] <= 1 + crashes' /\ attempts'[e] <= MaxRetries + crashes'
      BY <1>2, <2>1 DEF LedgerOK
    <2>6. QED
      BY <1>2, <2>1, <2>3, <2>4, <2>5 DEF LedgerOK
  <1>6. QED  BY <1>3, <1>4, <1>5 DEF RInv

-----------------------------------------------------------------------------
LEMMA InitRInv == Init => RInv
  <1> SUFFICES ASSUME Init PROVE RInv  OBVIOUS
  <1>1. TypeOK
    BY InitIInv DEF IInv
  <1>2. ClaimsExact
    <2>1. inProgress = {} /\ \A d \in Drains : ~HoldsEntry(d)
      BY Kinds DEF Init, HoldsEntry
    <2>2. ClaimsOK  BY <2>1 DEF ClaimsOK
    <2>3. QED  BY <2>2, ClaimsParts
  <1>3. Quiet /\ FilesOK
    BY Kinds DEF Init, Quiet, LiveActive, FilesOK, InHand
  <1>4. ASSUME NEW e \in Entries PROVE LedgerOK(e)
    BY DeliveryAssumption DEF Init, LedgerOK
  <1>5. QED  BY <1>1, <1>2, <1>3, <1>4 DEF RInv

LEMMA NextRInv ==
    ASSUME ~LiveDuringRecovery, ~BudgetMayExpire, ~MirrorMayFail, MaxRetries > 0,
           RInv, [Next]_vars
    PROVE  RInv'
  <1>1. TypeOK' /\ ClaimsExact'
    BY NextTypeOK, NextClaims DEF RInv
  <1>2. ASSUME NEW e \in Entries, DeliverOutboundPayloads(e) PROVE RInv'
    BY <1>1, <1>2, DeliverInv
  <1>3. ASSUME NEW e \in Entries, SendAborted(e) PROVE RInv'
    <2>1. Live(e) \in Workers /\ Live(e) \in LiveWorkers /\ Live(e)[2] = e
      BY Kinds DEF Live
    <2>2. QED  BY <1>1, <1>3, <2>1, SendInv
  <1>4. ASSUME NEW w \in Workers, WorkerStep(w) PROVE RInv'
    BY <1>1, <1>4, SendInv, AckInv, UnlinkInv, FailReadInv, FailWriteInv, MoveInv DEF WorkerStep
  <1>5. CASE RecoverPendingDeliveries \/ DrainPendingDeliveries
    BY <1>1, <1>5, DrainStartInv
  <1>6. ASSUME NEW d \in Drains, DrainStep(d) PROVE RInv'
    BY <1>1, <1>6, ScanInv, LoadInv DEF DrainStep
  <1>7. CASE DeferRemainingEntries
    BY <1>7 DEF DeferRemainingEntries
  <1>8. CASE Crash
    BY <1>1, <1>8, CrashInv
  <1>9. CASE UNCHANGED vars
    <2>1. Quiet' /\ FilesOK'
      BY <1>9 DEF vars, disk, workers, RInv, Quiet, LiveActive, DrainActive, FilesOK
    <2>2. ASSUME NEW e \in Entries PROVE LedgerOK(e)'
      BY <1>9 DEF vars, disk, workers, history, RInv, LedgerOK, On
    <2>3. QED  BY <1>1, <2>1, <2>2 DEF RInv
  <1>10. QED
    BY <1>2, <1>3, <1>4, <1>5, <1>6, <1>7, <1>8, <1>9 DEF Next

\* The books of every entry are right in every state.
THEOREM LedgersBalance ==
    ASSUME ~LiveDuringRecovery, ~BudgetMayExpire, ~MirrorMayFail, MaxRetries > 0
    PROVE  Spec => []RInv
  <1>1. RInv /\ [Next]_vars => RInv'
    BY NextRInv
  <1>2. QED  BY <1>1, InitRInv, PTL DEF Spec

\* The write-ahead entry and its two-phase acknowledgement let a message be sent
\* completely once more for each crash, and never without one.
THEOREM DuplicatesOnlyThroughCrashes ==
    ASSUME ~LiveDuringRecovery, ~BudgetMayExpire, ~MirrorMayFail, MaxRetries > 0
    PROVE  Spec => []DuplicatesOnlyByCrash
  <1>1. RInv => DuplicatesOnlyByCrash
    BY DEF RInv, LedgerOK, DuplicatesOnlyByCrash
  <1>2. QED  BY <1>1, LedgersBalance, PTL

\* failDelivery counts each attempt that a crash did not cut off, and recovery
\* gives up at MAX_RETRIES.
THEOREM AttemptsBounded ==
    ASSUME ~LiveDuringRecovery, ~BudgetMayExpire, ~MirrorMayFail, MaxRetries > 0
    PROVE  Spec => []RetriesBounded
  <1>1. RInv => RetriesBounded
    BY DEF RInv, LedgerOK, RetriesBounded
  <1>2. QED  BY <1>1, LedgersBalance, PTL

\* What moveToFailed put aside is not pending and is not being sent.
THEOREM GivenUpForGood ==
    ASSUME ~LiveDuringRecovery, ~BudgetMayExpire, ~MirrorMayFail, MaxRetries > 0
    PROVE  Spec => []FailedIsFinal
  <1>1. RInv => FailedIsFinal
    <2> SUFFICES ASSUME RInv, NEW e \in failed
                 PROVE  json[e] = NoFile /\ \A w \in Workers : Sending(w) => entry[w] # e
      BY DEF FailedIsFinal
    <2>1. e \in Entries
      BY DEF RInv, TypeOK
    <2>2. json[e] = NoFile
      BY <2>1 DEF RInv, LedgerOK
    <2>3. QED  BY <2>2 DEF RInv, FilesOK, Sending, InHand
  <1>2. QED  BY <1>1, LedgersBalance, PTL

\* No drain begins to send what ackDelivery has renamed.
THEOREM AcknowledgedForGood ==
    ASSUME ~LiveDuringRecovery, ~BudgetMayExpire, ~MirrorMayFail, MaxRetries > 0
    PROVE  Spec => NoReplayAfterAck
  <1> DEFINE NoReplay == \A w \in Workers : Sending(w)' /\ ~Sending(w) => entry[w] \notin acked
  <1>1. RInv /\ [Next]_vars => NoReplay \/ UNCHANGED vars
    <2> SUFFICES ASSUME RInv, Next, NEW w \in Workers, at'[w] = "sending", at[w] # "sending"
                 PROVE  entry[w] \notin acked
      BY DEF Sending
    <2>1. AtOK /\ EntryOK
      BY TypeParts DEF RInv
    <2>2. ASSUME NEW v \in Workers, NEW p, Go(v, p), p # "sending" PROVE FALSE
      BY <2>1, <2>2 DEF Go, AtOK
    <2>3. ASSUME NEW e \in Entries, DeliverOutboundPayloads(e) PROVE entry[w] \notin acked
      <3>1. w = Live(e) /\ e \notin written
        BY <2>1, <2>3, Kinds DEF DeliverOutboundPayloads, BeginSend, Go, AtOK
      <3>2. QED  BY <2>1, <3>1 DEF RInv, LedgerOK, EntryOK
    <2>4. ASSUME NEW d \in Drains, LoadPendingDelivery(d) PROVE entry[w] \notin acked
      <3>1. Drain(d) \in Workers /\ at[Drain(d)] = "claimed"
        BY <2>4, Kinds DEF LoadPendingDelivery
      <3>2. CASE json[entry[Drain(d)]] # NoFile /\ BeginSend(Drain(d), entry[Drain(d)])
        <4>1. w = Drain(d)
          BY <2>1, <3>1, <3>2 DEF BeginSend, Go, AtOK
        <4>2. entry[w] \in Entries
          BY <2>1, <3>1, <4>1, Kinds DEF EntryOK, Resting
        <4>3. QED  BY <3>2, <4>1, <4>2 DEF RInv, LedgerOK
      <3>3. CASE Finish(Drain(d)) \/ Go(Drain(d), "move")
        BY <2>2, <3>1, <3>3, FinishRests DEF Resting
      <3>4. QED  BY <2>4, <3>2, <3>3 DEF LoadPendingDelivery
    <2>5. ASSUME NEW v \in Workers, WorkerStep(v) PROVE FALSE
      <3>1. \E p : Go(v, p) /\ p # "sending"
        BY <2>5, FinishRests DEF WorkerStep, SendSucceeds, SendPartlyFails, SendThrows,
               AckDelivery, UnlinkMarker, FailRead, FailWrite, MoveToFailed, Resting
      <3>2. QED  BY <2>2, <3>1
    <2>6. ASSUME NEW e \in Entries, SendAborted(e) PROVE FALSE
      BY <2>2, <2>6, Kinds DEF SendAborted
    <2>7. ASSUME NEW d \in Drains, DrainEnds(d) \/ \E e \in Entries : ClaimRecoveryEntry(d, e)
          PROVE  FALSE
      BY <2>2, <2>7, Kinds DEF DrainEnds, ClaimRecoveryEntry
    <2>8. CASE RecoverPendingDeliveries \/ DrainPendingDeliveries
      BY <2>2, <2>8, Kinds DEF RecoverPendingDeliveries, DrainPendingDeliveries,
                               LoadPendingDeliveries, Drains
    <2>9. CASE DeferRemainingEntries \/ Crash
      BY <2>9 DEF DeferRemainingEntries, Crash
    <2>10. QED
      BY <2>3, <2>4, <2>5, <2>6, <2>7, <2>8, <2>9 DEF Next, DrainStep
  <1>2. QED
    BY <1>1, LedgersBalance, PTL DEF Spec, NoReplayAfterAck
=============================================================================
