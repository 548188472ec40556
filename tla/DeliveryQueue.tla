---------------------------- MODULE DeliveryQueue ----------------------------
(***************************************************************************)
(* The write-ahead queue of outbound messages: deliverOutboundPayloads of  *)
(* src/infra/outbound/deliver.ts writes an entry to disk, sends, and then  *)
(* acknowledges or fails the entry; delivery-queue-recovery.ts re-sends    *)
(* what is on disk at startup and when a channel reconnects.               *)
(*                                                                         *)
(* Live deliveries, drains and the deferrals of a drain that ran out of    *)
(* time are workers that take turns at every await, file operations        *)
(* included; a crash ends them all and leaves the disk.                    *)
(***************************************************************************)
EXTENDS Integers, FiniteSets

CONSTANTS
    Entries,            \* messages, by entry id
    BestEffort,         \* those sent with bestEffort
    MaxRetries,         \* MAX_RETRIES
    LiveDuringRecovery, \* deliveries may be under way while a drain runs
    BudgetMayExpire,    \* the startup drain may exceed maxRecoveryMs
    MirrorMayFail,      \* writing a sent message to the transcript may fail
    MaxReconnects,      \* bound: drains on reconnect
    MaxCrashes          \* bound: crashes

ASSUME DeliveryAssumption ==
    /\ BestEffort \subseteq Entries
    /\ MaxRetries \in Nat
    /\ LiveDuringRecovery \in BOOLEAN
    /\ BudgetMayExpire \in BOOLEAN
    /\ MirrorMayFail \in BOOLEAN

Drains == {"startup", "reconnect"}
Live(e) == <<"live", e>>
Defer(e) == <<"defer", e>>
LiveWorkers == {Live(e) : e \in Entries}
DeferWorkers == {Defer(e) : e \in Entries}
Workers == LiveWorkers \cup DeferWorkers \cup {<<d, d>> : d \in Drains}
Drain(d) == <<d, d>>

NoFile == -1

VARIABLES
    json,       \* retryCount in an entry's file, or NoFile
    markers,    \* entries with a .delivered marker
    failed,     \* entries in failed/
    at,         \* what each worker is about to do
    entry,      \* the entry a drain works on
    count,      \* the retryCount a worker has read
    todo,       \* the entries of a drain's snapshot still to be handled
    inProgress, \* entriesInProgress
    recovered,  \* the startup drain of this process has been started
    reconnects,
    crashes,
    written,    \* history: entries that were persisted
    sent,       \* history: number of complete sends
    attempts,   \* history: number of sends begun
    acked,      \* history: entries acknowledged after a complete send
    aborted     \* history: entries whose live delivery was aborted

disk == <<json, markers, failed>>
workers == <<at, entry, count, todo, inProgress>>
history == <<written, sent, attempts, acked, aborted>>
vars == <<disk, workers, recovered, reconnects, crashes, history>>

Init ==
    /\ json = [e \in Entries |-> NoFile]
    /\ markers = {}
    /\ failed = {}
    /\ at = [w \in Workers |-> "idle"]
    /\ entry = [w \in Workers |-> w[2]]
    /\ count = [w \in Workers |-> 0]
    /\ todo = [d \in Drains |-> {}]
    /\ inProgress = {}
    /\ recovered = FALSE
    /\ reconnects = 0
    /\ crashes = 0
    /\ written = {}
    /\ sent = [e \in Entries |-> 0]
    /\ attempts = [e \in Entries |-> 0]
    /\ acked = {}
    /\ aborted = {}

-----------------------------------------------------------------------------
DrainActive == \E d \in Drains : at[Drain(d)] # "idle"
LiveActive == \E w \in LiveWorkers : at[w] \notin {"idle", "done"}

\* Worker w goes on to p.
Go(w, p) == at' = [at EXCEPT ![w] = p]

\* Worker w is done with its entry; a drain releases it and goes on.
Finish(w) ==
    IF w \in LiveWorkers
    THEN Go(w, "done") /\ UNCHANGED inProgress
    ELSE IF w \in DeferWorkers
    THEN Go(w, "idle") /\ UNCHANGED inProgress
    ELSE Go(w, "scan") /\ inProgress' = inProgress \ {entry[w]}

BeginSend(w, e) ==
    /\ Go(w, "sending")
    /\ attempts' = [attempts EXCEPT ![e] = @ + 1]

-----------------------------------------------------------------------------
(* Live deliveries.                                                        *)

\* enqueueDelivery, then the send begins.
DeliverOutboundPayloads(e) ==
    /\ at[Live(e)] = "idle"
    /\ e \notin written
    /\ DrainActive => LiveDuringRecovery
    /\ json' = [json EXCEPT ![e] = 0]
    /\ written' = written \cup {e}
    /\ BeginSend(Live(e), e)
    /\ UNCHANGED <<markers, failed, entry, count, todo, inProgress, recovered,
                   reconnects, crashes, sent, acked, aborted>>

Sending(w) == at[w] = "sending"

\* All payloads are sent; then the text is mirrored to the session's transcript,
\* and an error there fails the delivery as a whole.
SendSucceeds(w) ==
    /\ Sending(w)
    /\ sent' = [sent EXCEPT ![entry[w]] = @ + 1]
    /\ \/ Go(w, "ack")
       \/ MirrorMayFail /\ Go(w, "failRead")
    /\ UNCHANGED <<disk, entry, count, todo, inProgress, recovered, reconnects,
                   crashes, written, attempts, acked, aborted>>

SendKept == <<disk, entry, count, todo, inProgress, recovered, reconnects, crashes,
              written, sent, attempts, acked>>

\* With bestEffort the errors of single payloads are swallowed: a live delivery
\* notices them if its caller gave an onError, a drain does not.
SendPartlyFails(w) ==
    /\ Sending(w)
    /\ entry[w] \in BestEffort
    /\ \/ Go(w, "ack")
       \/ w \in LiveWorkers /\ Go(w, "failRead")
    /\ UNCHANGED <<SendKept, aborted>>

\* A payload's error without bestEffort, or an error before the first payload.
SendThrows(w) ==
    /\ Sending(w)
    /\ \/ Go(w, "failRead")
       \/ w \notin LiveWorkers /\ Go(w, "move")     \* a permanent error
    /\ UNCHANGED <<SendKept, aborted>>

\* The caller's abort, which bestEffort swallows like any error of a payload.
SendAborted(e) ==
    /\ Sending(Live(e))
    /\ e \notin BestEffort
    /\ aborted' = aborted \cup {e}
    /\ Go(Live(e), "ack")
    /\ UNCHANGED SendKept

-----------------------------------------------------------------------------
(* File operations on a worker's entry.                                    *)

FileKept == <<entry, count, todo, recovered, reconnects, crashes, written, sent,
              attempts, aborted>>

\* Mutant: the marker is written beside the entry, which is removed later.
AckKeepsEntry(w) ==
    LET e == entry[w]
    IN  /\ at[w] = "ack"
        /\ markers' = markers \cup {e}
        /\ Go(w, "unlink")
        /\ acked' = IF sent[e] > 0 THEN acked \cup {e} ELSE acked
        /\ UNCHANGED <<FileKept, json, failed, inProgress>>

\* Mutant: the entry is left where it is.
AckWithoutRename(w) ==
    /\ at[w] = "ack"
    /\ markers' = markers \ {entry[w]}
    /\ Finish(w)
    /\ UNCHANGED <<FileKept, json, failed, acked>>

\* ackDelivery, phase 1: rename the entry to its marker; if it is gone, remove a
\* marker that may have been left.
AckDelivery(w) ==
    LET e == entry[w]
    IN  /\ at[w] = "ack"
        /\ IF json[e] # NoFile
           THEN /\ json' = [json EXCEPT ![e] = NoFile]
                /\ markers' = markers \cup {e}
                /\ Go(w, "unlink")
                /\ UNCHANGED inProgress
           ELSE /\ markers' = markers \ {e}
                /\ Finish(w)
                /\ UNCHANGED json
        /\ acked' = IF sent[e] > 0 THEN acked \cup {e} ELSE acked
        /\ UNCHANGED <<FileKept, failed>>

\* Phase 2: remove the marker.
UnlinkMarker(w) ==
    /\ at[w] = "unlink"
    /\ markers' = markers \ {entry[w]}
    /\ Finish(w)
    /\ UNCHANGED <<FileKept, json, failed, acked>>

\* failDelivery reads the entry ...
FailRead(w) ==
    /\ at[w] = "failRead"
    /\ IF json[entry[w]] # NoFile
       THEN /\ count' = [count EXCEPT ![w] = json[entry[w]]]
            /\ Go(w, "failWrite")
            /\ UNCHANGED inProgress
       ELSE Finish(w) /\ UNCHANGED count
    /\ UNCHANGED <<disk, entry, todo, recovered, reconnects, crashes, history>>

\* ... and replaces it by the one with a higher count.
FailWrite(w) ==
    /\ at[w] = "failWrite"
    /\ json' = [json EXCEPT ![entry[w]] = count[w] + 1]
    /\ Finish(w)
    /\ UNCHANGED <<FileKept, markers, failed, acked>>

\* Mutant: the entry is removed instead of kept in failed/.
MoveDeletes(w) ==
    /\ at[w] = "move"
    /\ json' = [json EXCEPT ![entry[w]] = NoFile]
    /\ Finish(w)
    /\ UNCHANGED <<FileKept, markers, failed, acked>>

\* moveToFailed; an entry that is gone is passed over.
MoveToFailed(w) ==
    LET e == entry[w]
    IN  /\ at[w] = "move"
        /\ json' = [json EXCEPT ![e] = NoFile]
        /\ failed' = IF json[e] # NoFile THEN failed \cup {e} ELSE failed
        /\ Finish(w)
        /\ UNCHANGED <<FileKept, markers, acked>>

-----------------------------------------------------------------------------
(* Drains.                                                                 *)

\* loadPendingDeliveries: leftover markers go, the selected entries on disk are
\* listed.
LoadPendingDeliveries(d, selected) ==
    /\ todo' = [todo EXCEPT ![d] = {e \in selected : json[e] # NoFile}]
    /\ markers' = {}
    /\ Go(Drain(d), "scan")
    /\ UNCHANGED <<json, failed, entry, count, inProgress, crashes, history>>

\* recoverPendingDeliveries, once per process.
RecoverPendingDeliveries ==
    /\ ~recovered
    /\ LiveActive => LiveDuringRecovery
    /\ recovered' = TRUE
    /\ LoadPendingDeliveries("startup", Entries)
    /\ UNCHANGED reconnects

\* drainPendingDeliveries, guarded by drainInProgress.
DrainPendingDeliveries ==
    /\ at[Drain("reconnect")] = "idle"
    /\ LiveActive => LiveDuringRecovery
    /\ reconnects < MaxReconnects
    /\ reconnects' = reconnects + 1
    /\ \E selected \in SUBSET Entries : LoadPendingDeliveries("reconnect", selected)
    /\ UNCHANGED recovered

DrainKept == <<disk, count, recovered, reconnects, crashes, written, sent, acked,
               aborted>>

\* Mutant: the claim is not looked at.
ClaimAlways(d, e) ==
    /\ at[Drain(d)] = "scan"
    /\ e \in todo[d]
    /\ todo' = [todo EXCEPT ![d] = @ \ {e}]
    /\ inProgress' = inProgress \cup {e}
    /\ entry' = [entry EXCEPT ![Drain(d)] = e]
    /\ Go(Drain(d), "claimed")
    /\ UNCHANGED <<DrainKept, attempts>>

\* claimRecoveryEntry; an entry another drain holds is passed over.
ClaimRecoveryEntry(d, e) ==
    /\ at[Drain(d)] = "scan"
    /\ e \in todo[d]
    /\ todo' = [todo EXCEPT ![d] = @ \ {e}]
    /\ IF e \in inProgress
       THEN UNCHANGED <<at, entry, inProgress>>
       ELSE /\ inProgress' = inProgress \cup {e}
            /\ entry' = [entry EXCEPT ![Drain(d)] = e]
            /\ Go(Drain(d), "claimed")
    /\ UNCHANGED <<DrainKept, attempts>>

\* Mutant: one attempt more than MaxRetries.
LoadPendingDeliveryOneMore(d) ==
    LET w == Drain(d)
        e == entry[w]
    IN  /\ at[w] = "claimed"
        /\ \/ json[e] = NoFile /\ Finish(w) /\ UNCHANGED attempts
           \/ json[e] > MaxRetries /\ Go(w, "move") /\ UNCHANGED <<inProgress, attempts>>
           \/ /\ json[e] # NoFile /\ json[e] <= MaxRetries
              /\ \/ BeginSend(w, e) /\ UNCHANGED inProgress
                 \/ json[e] > 0 /\ Finish(w) /\ UNCHANGED attempts
        /\ UNCHANGED <<DrainKept, entry, todo>>

\* loadPendingDelivery reads the claimed entry again: gone, out of retries, not
\* yet due (only when it was tried before), or to be sent.
LoadPendingDelivery(d) ==
    LET w == Drain(d)
        e == entry[w]
    IN  /\ at[w] = "claimed"
        /\ \/ json[e] = NoFile /\ Finish(w) /\ UNCHANGED attempts
           \/ json[e] >= MaxRetries /\ Go(w, "move") /\ UNCHANGED <<inProgress, attempts>>
           \/ /\ json[e] # NoFile /\ json[e] < MaxRetries
              /\ \/ BeginSend(w, e) /\ UNCHANGED inProgress
                 \/ json[e] > 0 /\ Finish(w) /\ UNCHANGED attempts
        /\ UNCHANGED <<DrainKept, entry, todo>>

\* deferRemainingEntriesForBudget: the rest of the snapshot is failed, claimed or
\* not, all at once.
DeferRemainingEntries ==
    /\ BudgetMayExpire
    /\ at[Drain("startup")] = "scan"
    /\ todo["startup"] # {}
    /\ at' = [w \in Workers |->
                 IF w = Drain("startup") THEN "deferring"
                 ELSE IF w \in DeferWorkers /\ w[2] \in todo["startup"] THEN "failRead"
                 ELSE at[w]]
    /\ todo' = [todo EXCEPT !["startup"] = {}]
    /\ UNCHANGED <<DrainKept, entry, inProgress, attempts>>

\* The drain has handled its snapshot, or all its deferrals have settled.
DrainEnds(d) ==
    /\ \/ at[Drain(d)] = "scan" /\ todo[d] = {}
       \/ at[Drain(d)] = "deferring" /\ \A w \in DeferWorkers : at[w] = "idle"
    /\ Go(Drain(d), "idle")
    /\ UNCHANGED <<DrainKept, entry, todo, inProgress, attempts>>

\* The process dies at any point and is started again.
Crash ==
    /\ crashes < MaxCrashes
    /\ crashes' = crashes + 1
    /\ at' = [w \in Workers |-> IF w \in LiveWorkers /\ at[w] # "idle" THEN "done"
                                                                     ELSE "idle"]
    /\ todo' = [d \in Drains |-> {}]
    /\ inProgress' = {}
    /\ recovered' = FALSE
    /\ UNCHANGED <<disk, entry, count, reconnects, history>>

-----------------------------------------------------------------------------
WorkerStep(w) ==
    \/ SendSucceeds(w)
    \/ SendPartlyFails(w)
    \/ SendThrows(w)
    \/ AckDelivery(w)
    \/ UnlinkMarker(w)
    \/ FailRead(w)
    \/ FailWrite(w)
    \/ MoveToFailed(w)

DrainStep(d) ==
    \/ \E e \in Entries : ClaimRecoveryEntry(d, e)
    \/ LoadPendingDelivery(d)
    \/ DrainEnds(d)

Next ==
    \/ \E e \in Entries : DeliverOutboundPayloads(e) \/ SendAborted(e)
    \/ \E w \in Workers : WorkerStep(w)
    \/ RecoverPendingDeliveries
    \/ DrainPendingDeliveries
    \/ \E d \in Drains : DrainStep(d)
    \/ DeferRemainingEntries
    \/ Crash

Spec == Init /\ [][Next]_vars

-----------------------------------------------------------------------------
Filing == {"failRead", "failWrite"}
LiveStates == Filing \cup {"idle", "sending", "ack", "unlink", "done"}
DeferStates == Filing \cup {"idle"}
DrainStates == Filing \cup {"idle", "scan", "claimed", "sending", "ack", "unlink",
                           "move", "deferring"}

\* Types. A live delivery and a deferral work on their own entry for ever, a drain
\* on an entry of the queue once it has claimed one, and deferrals are under way
\* only while the startup drain, begun once per process, awaits them.
TypeOK ==
    /\ json \in [Entries -> Nat \cup {NoFile}]
    /\ markers \subseteq Entries
    /\ failed \subseteq Entries
    /\ at \in [Workers -> LiveStates \cup DrainStates]
    /\ \A w \in LiveWorkers : at[w] \in LiveStates
    /\ \A w \in DeferWorkers : at[w] \in DeferStates
    /\ \A d \in Drains : at[Drain(d)] \in DrainStates
    /\ entry \in [Workers -> Entries \cup Drains]
    /\ \A e \in Entries : entry[Live(e)] = e /\ entry[Defer(e)] = e
    /\ \A d \in Drains :
           at[Drain(d)] \notin {"idle", "scan", "deferring"} => entry[Drain(d)] \in Entries
    /\ count \in [Workers -> Nat]
    /\ todo \in [Drains -> SUBSET Entries]
    /\ inProgress \subseteq Entries
    /\ recovered \in BOOLEAN
    /\ reconnects \in Nat
    /\ crashes \in Nat
    /\ written \subseteq Entries
    /\ sent \in [Entries -> Nat]
    /\ attempts \in [Entries -> Nat]
    /\ acked \subseteq Entries
    /\ aborted \subseteq Entries
    /\ (\E w \in DeferWorkers : at[w] # "idle") => at[Drain("startup")] = "deferring"
    /\ ~recovered => at[Drain("startup")] = "idle"

OnDisk(e) == json[e] # NoFile \/ e \in failed
HoldsEntry(d) == at[Drain(d)] \notin {"idle", "scan", "deferring"}

\* The write-ahead promise: a persisted message that was not sent with bestEffort
\* is sent completely, aborted by its caller, or still on disk, pending or in
\* failed/, whatever fails, races or crashes.
WrittenNotLost ==
    \A e \in written \ BestEffort : sent[e] > 0 \/ e \in aborted \/ OnDisk(e)

\* entriesInProgress holds exactly the entries drains work on, each one drain's.
ClaimsExact ==
    /\ inProgress = {entry[Drain(d)] : d \in {c \in Drains : HoldsEntry(c)}}
    /\ HoldsEntry("startup") /\ HoldsEntry("reconnect")
           => entry[Drain("startup")] # entry[Drain("reconnect")]

\* A message is sent completely a second time only if the process died between a
\* send and its acknowledgement.
DuplicatesOnlyByCrash == \A e \in Entries : sent[e] <= 1 + crashes

\* Attempts are bounded by MAX_RETRIES, save those a crash kept from being counted.
RetriesBounded == \A e \in Entries : attempts[e] <= MaxRetries + crashes

\* An entry in failed/ is out of the queue and is not sent any more.
FailedIsFinal ==
    \A e \in failed : json[e] = NoFile /\ \A w \in Workers : Sending(w) => entry[w] # e

\* No send begins for a message that was acknowledged, a crash between the two
\* phases of the acknowledgement included.
NoReplayAfterAck ==
    [][\A w \in Workers : Sending(w)' /\ ~Sending(w) => entry[w] \notin acked]_vars
=============================================================================
