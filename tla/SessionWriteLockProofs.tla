------------------------ MODULE SessionWriteLockProofs ------------------------
(***************************************************************************)
(* Proofs about SessionWriteLock, for any processes and callers, any       *)
(* limits and any number of signals, crashes and failed writes: the types, *)
(* the count of each hold and, as long as no file of a live process was    *)
(* taken from it, that the file on the disk is the one of whoever holds    *)
(* the lock or is about to.                                                *)
(***************************************************************************)
EXTENDS SessionWriteLock, FiniteSetTheorems, TLAPS

Phases == {"idle", "trying", "writing", "reclaiming", "unwinding", "holding", "removing", "done"}
Leaving == {"unwinding", "removing"}

(* What holds in every state.                                              *)

\* Numbers are given out in order.
NumbersOK ==
    /\ file.n <= created
    /\ \A c \in Callers : mine[c] <= created /\ aim[c].n <= created
    /\ \A p \in Procs : held[p].n <= created /\ dog[p].n <= created /\ sweep[p].n <= created
    /\ file.life <= life[file.by]

\* What is to be removed, and why.
AimsOK ==
    /\ \A c \in Callers :
          /\ at[c] \in Leaving => aim[c].why = "own" /\ aim[c].n = mine[c]
          /\ at[c] = "reclaiming" => aim[c].why \in {"dead", "orphan", "aged"}
          /\ at[c] \in {"writing", "holding"} \cup Leaving => mine[c] # 0
    /\ \A p \in Procs :
          /\ sweep[p].why \in {"none", "listed", "dead", "aged", "swept"}
          /\ dog[p].why \in {"none", "own"}

\* The number of a file that is being written is nobody else's.
FreshOK ==
    \A c \in Callers : at[c] = "writing" =>
        /\ \A d \in Callers : d # c => mine[d] # mine[c]
        /\ \A p \in Procs : held[p].n # mine[c]

Sharers(p, n) == {c \in CallersOf(p) : at[c] = "holding" /\ mine[c] = n}
CountsOK ==
    \A p \in Procs : held[p] # NoHold => held[p].count = Cardinality(Sharers(p, held[p].n))

Base == TypeOK /\ NumbersOK /\ AimsOK /\ FreshOK /\ CountsOK

(* What holds as long as no file of a live process was taken.              *)

HoldsOK ==
    \A p \in Procs : held[p] # NoHold =>
        /\ file.n = held[p].n /\ file.written
        /\ file.by = p /\ file.life = life[p]

WritesOK ==
    \A c \in Callers : at[c] = "writing" =>
        /\ file.n = mine[c] /\ ~file.written
        /\ file.by = ProcOf[c] /\ file.life = life[ProcOf[c]]

NoOwner == (\A p \in Procs : held[p] = NoHold) /\ (\A c \in Callers : at[c] # "writing")

\* A file is removed by its own process only after it was let go.
OwnOK ==
    Exists =>
        /\ \A c \in Callers : at[c] \in Leaving /\ aim[c].n = file.n => NoOwner
        /\ \A p \in Procs : dog[p] # NoAim /\ dog[p].n = file.n => NoOwner

\* A file that was judged to be a dead process's is one.
DeadOK ==
    Exists /\ Alive(file) =>
        /\ \A c \in Callers : at[c] = "reclaiming" /\ aim[c].why = "dead" => aim[c].n # file.n
        /\ \A p \in Procs : sweep[p].why = "dead" => sweep[p].n # file.n

NotAbandoned ==
    Exists /\ Alive(file) =>
        \/ held[file.by].n = file.n
        \/ dog[file.by].n = file.n
        \/ \E c \in CallersOf(file.by) : at[c] \in {"writing", "unwinding", "removing"} /\ mine[c] = file.n

Core == HoldsOK /\ WritesOK /\ OwnOK /\ DeadOK /\ NotAbandoned

\* As long as, besides, no lock was taken from callers that go on.
SharedOK == \A c \in Callers : at[c] = "holding" => held[ProcOf[c]].n = mine[c]

IInv ==
    /\ Base
    /\ foul = {} => Core
    /\ foul = {} /\ ~forced => SharedOK

-----------------------------------------------------------------------------
LEMMA HoldTypes ==
    ASSUME TypeOK, NEW p \in Procs
    PROVE  /\ held[p] \in Holds \/ held[p] = NoHold
           /\ held[p] = NoHold <=> held[p].n = 0
           /\ held[p].n \in Nat
           /\ held[p] # NoHold => held[p].count \in Nat \ {0} /\ held[p].age \in 0..(MaxHold + 1)
  BY DEF TypeOK, Holds, NoHold

LEMMA AimTypes ==
    ASSUME TypeOK
    PROVE  /\ \A c \in Callers : aim[c].n \in Nat /\ mine[c] \in Nat /\ at[c] \in Phases /\ ProcOf[c] \in Procs
           /\ \A p \in Procs : dog[p].n \in Nat /\ sweep[p].n \in Nat /\ life[p] \in Nat
           /\ file.n \in Nat /\ file.by \in Procs /\ file.life \in Nat /\ created \in Nat
           /\ NoAim \in Aims /\ NoAim.n = 0 /\ NoAim.why = "none"
  BY LockAssumption DEF TypeOK, Aims, Phases, NoAim, Reasons

LEMMA NoFileFacts ==
    /\ NoFile \in [n : Nat, by : Procs, life : Nat, written : BOOLEAN, age : 0..(StaleAfter + 1)]
    /\ NoFile.n = 0 /\ NoFile.life = 0
  BY LockAssumption DEF NoFile

LEMMA AimMade ==
    ASSUME NEW n \in Nat, NEW w \in Reasons
    PROVE  LET a == [n |-> n, why |-> w] IN a \in Aims /\ a.n = n /\ a.why = w
  BY DEF Aims

LEMMA SharersFinite ==
    ASSUME NEW p, NEW n
    PROVE  IsFiniteSet(Sharers(p, n)) /\ Cardinality(Sharers(p, n)) \in Nat
  <1>1. Sharers(p, n) \subseteq Callers
    BY DEF Sharers, CallersOf
  <1>2. QED
    BY <1>1, LockAssumption, FS_Subset, FS_CardinalityType

\* The counts stay right where the callers that share a hold stay the same.
LEMMA CountsKept ==
    ASSUME CountsOK,
           \A p \in Procs : held'[p] # NoHold =>
               /\ held[p] # NoHold /\ held'[p].n = held[p].n /\ held'[p].count = held[p].count
               /\ \A d \in CallersOf(p) :
                     at'[d] = "holding" /\ mine'[d] = held[p].n <=> at[d] = "holding" /\ mine[d] = held[p].n
    PROVE  CountsOK'
  <1> SUFFICES ASSUME NEW p \in Procs, held'[p] # NoHold
               PROVE  held'[p].count = Cardinality(Sharers(p, held[p].n)')
    BY DEF CountsOK, Sharers
  <1>1. Sharers(p, held[p].n)' = {c \in CallersOf(p) : at'[c] = "holding" /\ mine'[c] = held'[p].n}
    BY DEF Sharers, CallersOf
  <1>2. QED
    BY <1>1 DEF CountsOK, Sharers
-----------------------------------------------------------------------------
(* The steps of callers: what holds in every state.                        *)

LEMMA JoinBase ==
    ASSUME Base, NEW c \in Callers, Join(c)
    PROVE  Base'
  <1> DEFINE p == ProcOf[c]
             h == [held[p] EXCEPT !.count = held[p].count + 1]
  <1>1. /\ TypeOK /\ NumbersOK /\ AimsOK /\ FreshOK /\ CountsOK
        /\ p \in Procs /\ c \in CallersOf(p)
    BY LockAssumption DEF Base, CallersOf
  <1>2. /\ at[c] = "idle" /\ up[p] /\ at' = [at EXCEPT ![c] = "holding"]
        /\ watched' = [watched EXCEPT ![p] = TRUE]
        /\ held[p] # NoHold /\ held' = [held EXCEPT ![p] = h]
        /\ mine' = [mine EXCEPT ![c] = held[p].n]
        /\ UNCHANGED <<procVars, fileVars, created, aim, sweep, dog, forced, failures>>
    BY DEF Join, Starts, Watch
  <1>3. /\ h \in Holds /\ h.n = held[p].n /\ h.count = held[p].count + 1
        /\ held[p].n \in Nat \ {0} /\ h # NoHold
    <2>1. held[p] \in Holds
      BY <1>1, <1>2 DEF TypeOK
    <2> HIDE DEF p
    <2>2. QED  BY <2>1 DEF Holds, NoHold
  <1> HIDE DEF h
  <1>4. TypeOK'
    BY <1>1, <1>2, <1>3 DEF TypeOK, procVars, fileVars, CallersOf
  <1>5. NumbersOK'
    BY <1>1, <1>2, <1>3, AimTypes DEF NumbersOK, TypeOK, procVars, fileVars
  <1>6. AimsOK'
    BY <1>1, <1>2, <1>3 DEF AimsOK, Leaving, TypeOK
  <1>7. FreshOK'
    BY <1>1, <1>2, <1>3 DEF FreshOK, TypeOK
  <1>8. CountsOK'
    <2>1. ASSUME NEW q \in Procs, held'[q] # NoHold
          PROVE  held'[q].count = Cardinality(Sharers(q, held[q].n)')
      <3>1. CASE q # p
        <4>1. held'[q] = held[q]
          BY <1>1, <1>2, <3>1 DEF TypeOK
        <4>2. Sharers(q, held[q].n)' = Sharers(q, held[q].n)
          BY <1>1, <1>2, <3>1, <4>1 DEF Sharers, CallersOf, TypeOK
        <4>3. QED  BY <1>1, <2>1, <4>1, <4>2 DEF CountsOK
      <3>2. CASE q = p
        <4>1. held'[q] = h
          BY <1>1, <1>2, <3>2 DEF TypeOK
        <4>2. Sharers(p, held[p].n)' = Sharers(p, held[p].n) \cup {c}
          BY <1>1, <1>2, <1>3, <3>2, <4>1 DEF Sharers, CallersOf, TypeOK
        <4>3. c \notin Sharers(p, held[p].n)
          BY <1>2 DEF Sharers
        <4>4. Cardinality(Sharers(p, held[p].n) \cup {c}) = Cardinality(Sharers(p, held[p].n)) + 1
          BY <4>3, SharersFinite, FS_AddElement
        <4>5. QED  BY <1>1, <1>2, <1>3, <3>2, <4>1, <4>2, <4>4 DEF CountsOK
      <3>3. QED  BY <3>1, <3>2
    <2>2. QED  BY <2>1 DEF CountsOK, Sharers
  <1>9. QED
    BY <1>4, <1>5, <1>6, <1>7, <1>8 DEF Base

LEMMA AcquireBase ==
    ASSUME Base, NEW c \in Callers, Acquire(c) \/ TimeOut(c)
    PROVE  Base'
  <1>1. TypeOK /\ NumbersOK /\ AimsOK /\ FreshOK /\ CountsOK /\ ProcOf[c] \in Procs
    BY LockAssumption DEF Base
  <1>2. /\ \/ at[c] = "idle" /\ up[ProcOf[c]] /\ at' = [at EXCEPT ![c] = "trying"]
           \/ at[c] = "trying" /\ at' = [at EXCEPT ![c] = "done"]
        /\ watched' = watched \/ watched' = [watched EXCEPT ![ProcOf[c]] = TRUE]
        /\ UNCHANGED <<procVars, fileVars, created, held, mine, aim, sweep, dog, forced, failures>>
    BY DEF Acquire, TimeOut, Starts, Goes, Watch
  <1>3. TypeOK'
    <2>1. watched' \in [Procs -> BOOLEAN]
      BY <1>1, <1>2 DEF TypeOK
    <2>2. QED  BY <1>1, <1>2, <2>1 DEF TypeOK, procVars, fileVars, CallersOf
  <1>4. NumbersOK' /\ AimsOK' /\ FreshOK'
    BY <1>1, <1>2 DEF NumbersOK, AimsOK, FreshOK, Leaving, TypeOK, procVars, fileVars
  <1>5. CountsOK'
    <2>1. \A d \in Callers : at'[d] = "holding" <=> at[d] = "holding"
      BY <1>1, <1>2 DEF TypeOK
    <2>2. QED  BY <1>1, <1>2, <2>1, CountsKept DEF CallersOf
  <1>6. QED  BY <1>3, <1>4, <1>5 DEF Base

LEMMA CreateBase ==
    ASSUME Base, NEW c \in Callers, Create(c)
    PROVE  Base'
  <1> DEFINE n == created + 1
             f == [n |-> n, by |-> ProcOf[c], life |-> life[ProcOf[c]], written |-> FALSE, age |-> 0]
  <1>1. TypeOK /\ NumbersOK /\ AimsOK /\ FreshOK /\ CountsOK /\ ProcOf[c] \in Procs
    BY LockAssumption DEF Base
  <1>2. /\ at[c] = "trying" /\ at' = [at EXCEPT ![c] = "writing"]
        /\ created' = n /\ file' = f /\ mine' = [mine EXCEPT ![c] = n]
        /\ UNCHANGED <<procVars, foul, held, watched, aim, sweep, dog, forced, failures>>
    BY DEF Create, Goes
  <1>3. /\ f \in [n : Nat, by : Procs, life : Nat, written : BOOLEAN, age : 0..(StaleAfter + 1)]
        /\ f.n = n /\ f.by = ProcOf[c] /\ f.life = life[ProcOf[c]] /\ n \in Nat /\ n > created
    BY <1>1, LockAssumption DEF TypeOK
  <1> HIDE DEF f
  <1>4. TypeOK'
    BY <1>1, <1>2, <1>3 DEF TypeOK, procVars, CallersOf
  <1>5. NumbersOK'
    BY <1>1, <1>2, <1>3, AimTypes, HoldTypes DEF NumbersOK, TypeOK, procVars
  <1>6. AimsOK'
    BY <1>1, <1>2, <1>3 DEF AimsOK, Leaving, TypeOK
  <1>7. FreshOK'
    BY <1>1, <1>2, <1>3, AimTypes, HoldTypes DEF FreshOK, NumbersOK, TypeOK
  <1>8. CountsOK'
    BY <1>1, <1>2, <1>3, AimTypes, HoldTypes, CountsKept DEF TypeOK, NumbersOK
  <1>9. QED  BY <1>4, <1>5, <1>6, <1>7, <1>8 DEF Base

LEMMA WriteBase ==
    ASSUME Base, NEW c \in Callers, WriteSucceeds(c)
    PROVE  Base'
  <1> DEFINE p == ProcOf[c]
             h == [n |-> mine[c], count |-> 1, age |-> 0]
             f == [file EXCEPT !.written = TRUE]
  <1>1. /\ TypeOK /\ NumbersOK /\ AimsOK /\ FreshOK /\ CountsOK
        /\ p \in Procs /\ c \in CallersOf(p)
    BY LockAssumption DEF Base, CallersOf
  <1>2. /\ at[c] = "writing" /\ at' = [at EXCEPT ![c] = "holding"]
        /\ file' = f \/ file' = file
        /\ held' = [held EXCEPT ![p] = h]
        /\ UNCHANGED <<procVars, foul, created, watched, mine, aim, sweep, dog, forced, failures>>
    BY DEF WriteSucceeds, Goes
  <1>3. h \in Holds /\ h.n = mine[c] /\ h.count = 1 /\ h # NoHold /\ mine[c] # 0
    <2>1. mine[c] \in Nat \ {0}
      BY <1>1, <1>2, AimTypes DEF AimsOK
    <2>2. QED  BY <2>1, LockAssumption DEF Holds, NoHold
  <1>4. /\ file' \in [n : Nat, by : Procs, life : Nat, written : BOOLEAN, age : 0..(StaleAfter + 1)]
        /\ file'.n = file.n /\ file'.by = file.by /\ file'.life = file.life
    <2>1. file \in [n : Nat, by : Procs, life : Nat, written : BOOLEAN, age : 0..(StaleAfter + 1)]
      BY <1>1 DEF TypeOK
    <2>2. QED  BY <1>2, <2>1
  <1> HIDE DEF h, f
  <1>5. TypeOK'
    BY <1>1, <1>2, <1>3, <1>4 DEF TypeOK, procVars, CallersOf
  <1>6. NumbersOK'
    BY <1>1, <1>2, <1>3, <1>4 DEF NumbersOK, TypeOK, procVars
  <1>7. AimsOK' /\ FreshOK'
    BY <1>1, <1>2, <1>3 DEF AimsOK, FreshOK, Leaving, TypeOK
  <1>8. CountsOK'
    <2>1. ASSUME NEW q \in Procs, held'[q] # NoHold
          PROVE  held'[q].count = Cardinality(Sharers(q, held[q].n)')
      <3>1. CASE q # p
        <4>1. held'[q] = held[q]
          BY <1>1, <1>2, <3>1 DEF TypeOK
        <4>2. Sharers(q, held[q].n)' = Sharers(q, held[q].n)
          BY <1>1, <1>2, <3>1, <4>1 DEF Sharers, CallersOf, TypeOK
        <4>3. QED  BY <1>1, <2>1, <4>1, <4>2 DEF CountsOK
      <3>2. CASE q = p
        <4>1. held'[q] = h
          BY <1>1, <1>2, <3>2 DEF TypeOK
        <4>2. Sharers(p, held[p].n)' = {c}
          BY <1>1, <1>2, <1>3, <3>2, <4>1 DEF Sharers, CallersOf, TypeOK, FreshOK
        <4>3. QED  BY <1>3, <3>2, <4>1, <4>2, FS_Singleton
      <3>3. QED  BY <3>1, <3>2
    <2>2. QED  BY <2>1 DEF CountsOK, Sharers
  <1>9. QED
    BY <1>5, <1>6, <1>7, <1>8 DEF Base

\* A caller that was writing, or that found a file to be removed, has an aim.
LEMMA AimBase ==
    ASSUME Base, NEW c \in Callers, WriteFails(c) \/ JudgeStale(c)
    PROVE  Base'
  <1>1. TypeOK /\ NumbersOK /\ AimsOK /\ FreshOK /\ CountsOK /\ ProcOf[c] \in Procs
    BY LockAssumption DEF Base
  <1>2. PICK n \in Nat, w \in Reasons :
          /\ aim' = [aim EXCEPT ![c] = [n |-> n, why |-> w]]
          /\ n <= created
          /\ \/ at[c] = "writing" /\ at' = [at EXCEPT ![c] = "unwinding"] /\ w = "own" /\ n = mine[c]
             \/ at[c] = "trying" /\ at' = [at EXCEPT ![c] = "reclaiming"] /\ w \in {"dead", "orphan", "aged"}
          /\ failures' \in 0..MaxFailures
          /\ UNCHANGED <<procVars, fileVars, created, held, watched, mine, sweep, dog, forced>>
    <2>1. CASE WriteFails(c)
      <3>1. mine[c] \in Nat /\ mine[c] <= created
        BY <1>1, AimTypes DEF NumbersOK
      <3>2. failures' \in 0..MaxFailures
        BY <1>1, <2>1, LockAssumption DEF TypeOK, WriteFails
      <3>3. QED  BY <2>1, <3>1, <3>2 DEF WriteFails, Goes, Own, Reasons
    <2>2. CASE JudgeStale(c)
      <3>1. file.n \in Nat /\ file.n <= created
        BY <1>1, AimTypes DEF NumbersOK
      <3>2. ReclaimReason(ProcOf[c]) \in {"dead", "orphan", "aged"}
        BY <2>2 DEF JudgeStale, ReclaimReason
      <3>3. QED  BY <1>1, <2>2, <3>1, <3>2 DEF JudgeStale, Goes, Reasons, TypeOK
    <2>3. QED  BY <2>1, <2>2
  <1> DEFINE a == [n |-> n, why |-> w]
  <1>3. a \in Aims /\ a.n = n /\ a.why = w
    BY AimMade
  <1> HIDE DEF a
  <1>4. aim' = [aim EXCEPT ![c] = a]
    BY <1>2 DEF a
  <1>5. TypeOK'
    BY <1>1, <1>2, <1>3, <1>4 DEF TypeOK, procVars, fileVars, CallersOf
  <1>6. NumbersOK' /\ FreshOK'
    BY <1>1, <1>2, <1>3, <1>4 DEF NumbersOK, FreshOK, TypeOK, procVars, fileVars
  <1>7. AimsOK'
    BY <1>1, <1>2, <1>3, <1>4 DEF AimsOK, Leaving, TypeOK
  <1>8. CountsOK'
    <2>1. \A d \in Callers : at'[d] = "holding" <=> at[d] = "holding"
      BY <1>1, <1>2 DEF TypeOK
    <2>2. QED  BY <1>1, <1>2, <2>1, CountsKept DEF CallersOf
  <1>9. QED  BY <1>5, <1>6, <1>7, <1>8 DEF Base

LEMMA RemoveFacts ==
    ASSUME TypeOK, NumbersOK, NEW a, Remove(a)
    PROVE  /\ file' = NoFile
           /\ file' \in [n : Nat, by : Procs, life : Nat, written : BOOLEAN, age : 0..(StaleAfter + 1)]
           /\ file'.n = 0 /\ file'.life = 0
           /\ foul \subseteq foul' /\ foul' \subseteq {"raced", "aged", "swept", "orphan"}
           /\ foul' = {} => \/ ~Exists \/ ~Alive(file)
                            \/ file.n = a.n /\ a.why \notin {"aged", "swept", "orphan"}
  BY NoFileFacts DEF Remove, TypeOK

\* The file is removed, for whatever reason.
LEMMA RemovalBase ==
    ASSUME Base, NEW c \in Callers, Unwind(c) \/ Reclaim(c) \/ RemoveOwn(c)
    PROVE  Base'
  <1>1. TypeOK /\ NumbersOK /\ AimsOK /\ FreshOK /\ CountsOK /\ ProcOf[c] \in Procs
    BY LockAssumption DEF Base
  <1>2. /\ \/ at[c] \in {"unwinding", "removing"} /\ at' = [at EXCEPT ![c] = "done"]
           \/ at[c] = "reclaiming" /\ at' = [at EXCEPT ![c] = "trying"]
        /\ Remove(aim[c]) /\ aim' = [aim EXCEPT ![c] = NoAim]
        /\ watched' = watched \/ watched' = [watched EXCEPT ![ProcOf[c]] = FALSE]
        /\ UNCHANGED <<procVars, created, held, mine, sweep, dog, forced, failures>>
    BY DEF Unwind, Reclaim, RemoveOwn, Goes, Unwatch
  <1>3. /\ file' \in [n : Nat, by : Procs, life : Nat, written : BOOLEAN, age : 0..(StaleAfter + 1)]
        /\ file'.n = 0 /\ file'.life = 0 /\ foul' \subseteq {"raced", "aged", "swept", "orphan"}
    BY <1>1, <1>2, RemoveFacts
  <1>4. TypeOK'
    <2>1. watched' \in [Procs -> BOOLEAN]
      BY <1>1, <1>2 DEF TypeOK
    <2>2. at' \in [Callers -> Phases] /\ aim' \in [Callers -> Aims]
      BY <1>1, <1>2, AimTypes DEF TypeOK, Phases
    <2>3. \A d \in Callers : at[d] \in {"idle", "done"} => at'[d] \in {"idle", "done"}
      BY <1>1, <1>2 DEF TypeOK
    <2>4. QED  BY <1>1, <1>2, <1>3, <2>1, <2>2, <2>3 DEF TypeOK, procVars, CallersOf, Phases
  <1>5. NumbersOK'
    BY <1>1, <1>2, <1>3, AimTypes DEF NumbersOK, TypeOK, procVars
  <1>6. AimsOK' /\ FreshOK'
    BY <1>1, <1>2, AimTypes DEF AimsOK, FreshOK, Leaving, TypeOK
  <1>7. CountsOK'
    <2>1. \A d \in Callers : at'[d] = "holding" <=> at[d] = "holding"
      BY <1>1, <1>2 DEF TypeOK
    <2>2. QED  BY <1>1, <1>2, <2>1, CountsKept DEF CallersOf
  <1>8. QED  BY <1>4, <1>5, <1>6, <1>7 DEF Base

LEMMA ReleaseBase ==
    ASSUME Base, NEW c \in Callers, Release(c)
    PROVE  Base'
  <1> DEFINE p == ProcOf[c]
             h == [held[p] EXCEPT !.count = held[p].count - 1]
             a == Own(mine[c])
  <1>1. /\ TypeOK /\ NumbersOK /\ AimsOK /\ FreshOK /\ CountsOK
        /\ p \in Procs /\ c \in CallersOf(p)
    BY LockAssumption DEF Base, CallersOf
  <1>2. /\ at[c] = "holding" /\ mine[c] \in Nat \ {0} /\ mine[c] <= created
        /\ UNCHANGED <<procVars, fileVars, created, watched, mine, sweep, dog, forced, failures>>
    <2>1. at[c] = "holding"
      BY DEF Release, Goes
    <2>2. mine[c] \in Nat \ {0} /\ mine[c] <= created
      BY <1>1, <2>1, AimTypes DEF AimsOK, NumbersOK
    <2>3. QED  BY <2>1, <2>2 DEF Release
  <1>3. a \in Aims /\ a.n = mine[c] /\ a.why = "own"
    BY <1>2, AimMade DEF Own, Reasons
  <1>4. CASE held[p].n = mine[c] /\ held[p].count = 1
    <2>1. /\ at' = [at EXCEPT ![c] = "removing"] /\ held' = [held EXCEPT ![p] = NoHold]
          /\ aim' = [aim EXCEPT ![c] = a]
      BY <1>4 DEF Release, Goes
    <2> HIDE DEF a
    <2>2. TypeOK'
      BY <1>1, <1>2, <1>3, <2>1 DEF TypeOK, procVars, fileVars, CallersOf
    <2>3. NumbersOK'
      BY <1>1, <1>2, <1>3, <2>1 DEF NumbersOK, TypeOK, procVars, fileVars, NoHold
    <2>4. AimsOK'
      BY <1>1, <1>2, <1>3, <2>1 DEF AimsOK, Leaving, TypeOK
    <2>5. FreshOK'
      BY <1>1, <1>2, <2>1, AimTypes DEF FreshOK, AimsOK, TypeOK, NoHold
    <2>6. CountsOK'
      <3>1. ASSUME NEW q \in Procs, held'[q] # NoHold
            PROVE  q # p /\ held'[q] = held[q]
        BY <1>1, <2>1, <3>1 DEF TypeOK
      <3>2. ASSUME NEW q \in Procs, q # p, NEW d \in CallersOf(q)
            PROVE  at'[d] = at[d]
        BY <1>1, <2>1, <3>2 DEF TypeOK, CallersOf
      <3>3. QED  BY <1>1, <1>2, <3>1, <3>2, CountsKept
    <2>7. QED  BY <2>2, <2>3, <2>4, <2>5, <2>6 DEF Base
  <1>5. CASE ~(held[p].n = mine[c] /\ held[p].count = 1)
    <2>1. at' = [at EXCEPT ![c] = "done"] /\ UNCHANGED aim
      BY <1>5 DEF Release, Goes
    <2>2. AimsOK'
      BY <1>1, <1>2, <2>1 DEF AimsOK, Leaving, TypeOK
    <2>3. CASE held[p].n # mine[c]
      <3>1. held' = held
        BY <2>3 DEF Release
      <3>2. TypeOK'
        BY <1>1, <1>2, <2>1, <3>1 DEF TypeOK, procVars, fileVars, CallersOf
      <3>3. NumbersOK' /\ FreshOK'
        BY <1>1, <1>2, <2>1, <3>1 DEF NumbersOK, FreshOK, TypeOK, procVars, fileVars
      <3>4. CountsOK'
        <4>1. ASSUME NEW q \in Procs, NEW d \in CallersOf(q)
              PROVE  at'[d] = "holding" /\ mine[d] = held[q].n <=> at[d] = "holding" /\ mine[d] = held[q].n
          BY <1>1, <1>2, <2>1, <2>3, <4>1 DEF TypeOK, CallersOf
        <4>2. QED  BY <1>1, <1>2, <3>1, <4>1, CountsKept
      <3>5. QED  BY <2>2, <3>2, <3>3, <3>4 DEF Base
    <2>4. CASE held[p].n = mine[c]
      <3>1. held' = [held EXCEPT ![p] = h]
        BY <1>5, <2>4 DEF Release
      <3>2. /\ held[p] # NoHold /\ held[p].n = mine[c] /\ held[p] \in Holds
            /\ held[p].count \in Nat \ {0, 1}
        BY <1>1, <1>2, <1>5, <2>4, HoldTypes
      <3>3. h \in Holds /\ h.n = held[p].n /\ h.count = held[p].count - 1 /\ h # NoHold
        <4> HIDE DEF p
        <4> QED  BY <1>2, <3>2 DEF Holds, NoHold
      <3> HIDE DEF h
      <3>4. TypeOK'
        BY <1>1, <1>2, <2>1, <3>1, <3>2, <3>3 DEF TypeOK, procVars, fileVars, CallersOf
      <3>5. NumbersOK' /\ FreshOK'
        BY <1>1, <1>2, <2>1, <3>1, <3>3 DEF NumbersOK, FreshOK, TypeOK, procVars, fileVars
      <3>6. CountsOK'
        <4>1. ASSUME NEW q \in Procs, held'[q] # NoHold
              PROVE  held'[q].count = Cardinality(Sharers(q, held[q].n)')
          <5>1. CASE q # p
            <6>1. held'[q] = held[q]
              BY <1>1, <3>1, <5>1 DEF TypeOK
            <6>2. Sharers(q, held[q].n)' = Sharers(q, held[q].n)
              BY <1>1, <1>2, <2>1, <5>1, <6>1 DEF Sharers, CallersOf, TypeOK
            <6>3. QED  BY <1>1, <4>1, <6>1, <6>2 DEF CountsOK
          <5>2. CASE q = p
            <6>1. held'[q] = h
              BY <1>1, <3>1, <5>2 DEF TypeOK
            <6>2. Sharers(p, held[p].n)' = Sharers(p, held[p].n) \ {c}
              BY <1>1, <1>2, <2>1, <3>3, <5>2, <6>1 DEF Sharers, CallersOf, TypeOK
            <6>3. c \in Sharers(p, held[p].n)
              BY <1>1, <1>2, <3>2 DEF Sharers
            <6>4. Cardinality(Sharers(p, held[p].n) \ {c}) = Cardinality(Sharers(p, held[p].n)) - 1
              <7>1. IsFiniteSet(Sharers(p, held[p].n))
                BY SharersFinite
              <7>2. QED  BY <6>3, <7>1, FS_RemoveElement
            <6>5. QED  BY <1>1, <3>2, <3>3, <5>2, <6>1, <6>2, <6>4 DEF CountsOK
          <5>3. QED  BY <5>1, <5>2
        <4>2. QED  BY <4>1 DEF CountsOK, Sharers
      <3>7. QED  BY <2>2, <3>4, <3>5, <3>6 DEF Base
    <2>5. QED  BY <2>3, <2>4
  <1>6. QED  BY <1>4, <1>5

-----------------------------------------------------------------------------
(* The steps of processes: what holds in every state.                      *)

LEMMA WatchdogBase ==
    ASSUME Base, NEW p \in Procs, Watchdog(p)
    PROVE  Base'
  <1> DEFINE a == Own(held[p].n)
  <1>1. TypeOK /\ NumbersOK /\ AimsOK /\ FreshOK /\ CountsOK
    BY DEF Base
  <1>2. /\ held[p] # NoHold /\ held' = [held EXCEPT ![p] = NoHold]
        /\ dog' = [dog EXCEPT ![p] = a] /\ forced' = TRUE
        /\ UNCHANGED <<procVars, fileVars, created, watched, at, mine, aim, sweep, failures>>
    BY DEF Watchdog
  <1>3. a \in Aims /\ a.n = held[p].n /\ a.why = "own" /\ a.n <= created
    BY <1>1, HoldTypes, AimMade DEF Own, Reasons, NumbersOK
  <1> HIDE DEF a
  <1>4. TypeOK'
    <2>1. up[p]
      BY <1>1, <1>2 DEF TypeOK
    <2>2. QED  BY <1>1, <1>2, <1>3, <2>1 DEF TypeOK, procVars, fileVars, CallersOf
  <1>5. NumbersOK'
    BY <1>1, <1>2, <1>3 DEF NumbersOK, TypeOK, procVars, fileVars, NoHold
  <1>6. AimsOK'
    BY <1>1, <1>2, <1>3 DEF AimsOK, Leaving, TypeOK
  <1>7. FreshOK'
    BY <1>1, <1>2, AimTypes DEF FreshOK, AimsOK, TypeOK, NoHold
  <1>8. CountsOK'
    <2>1. \A q \in Procs : held'[q] # NoHold => held'[q] = held[q]
      BY <1>1, <1>2 DEF TypeOK
    <2>2. QED  BY <1>1, <1>2, <2>1, CountsKept
  <1>9. QED  BY <1>4, <1>5, <1>6, <1>7, <1>8 DEF Base

LEMMA WatchdogRemovesBase ==
    ASSUME Base, NEW p \in Procs, WatchdogRemoves(p)
    PROVE  Base'
  <1>1. TypeOK /\ NumbersOK /\ AimsOK /\ FreshOK /\ CountsOK
    BY DEF Base
  <1>2. /\ Remove(dog[p]) /\ dog' = [dog EXCEPT ![p] = NoAim]
        /\ watched' = watched \/ watched' = [watched EXCEPT ![p] = FALSE]
        /\ UNCHANGED <<procVars, created, held, at, mine, aim, sweep, forced, failures>>
    BY DEF WatchdogRemoves, Unwatch
  <1>3. /\ file' \in [n : Nat, by : Procs, life : Nat, written : BOOLEAN, age : 0..(StaleAfter + 1)]
        /\ file'.n = 0 /\ file'.life = 0 /\ foul' \subseteq {"raced", "aged", "swept", "orphan"}
    BY <1>1, <1>2, RemoveFacts
  <1>4. TypeOK'
    <2>1. watched' \in [Procs -> BOOLEAN]
      BY <1>1, <1>2 DEF TypeOK
    <2>2. dog' \in [Procs -> Aims] /\ \A q \in Procs : dog[q] = NoAim => dog'[q] = NoAim
      BY <1>1, <1>2, AimTypes DEF TypeOK
    <2>3. QED  BY <1>1, <1>2, <1>3, <2>1, <2>2 DEF TypeOK, procVars, CallersOf
  <1>5. NumbersOK'
    BY <1>1, <1>2, <1>3, AimTypes DEF NumbersOK, TypeOK, procVars
  <1>6. AimsOK' /\ FreshOK'
    BY <1>1, <1>2, AimTypes DEF AimsOK, FreshOK, Leaving, TypeOK
  <1>7. CountsOK'
    BY <1>1, <1>2, CountsKept
  <1>8. QED  BY <1>4, <1>5, <1>6, <1>7 DEF Base

\* What GoesDown leaves of the types.
LEMMA DownTypes ==
    ASSUME TypeOK, NEW p \in Procs, GoesDown(p)
    PROVE  /\ up' \in [Procs -> BOOLEAN]
           /\ at' \in [Callers -> Phases]
           /\ aim' \in [Callers -> Aims] /\ sweep' \in [Procs -> Aims] /\ dog' \in [Procs -> Aims]
           /\ \A q \in Procs : q # p => up'[q] = up[q] /\ dog'[q] = dog[q]
           /\ \A q \in Procs : /\ sweep'[q] = sweep[q] \/ sweep'[q] = NoAim
                               /\ dog'[q] = dog[q] \/ dog'[q] = NoAim
           /\ sweep'[p] = NoAim /\ dog'[p] = NoAim /\ ~up'[p]
           /\ \A c \in Callers : /\ at'[c] = at[c] \/ at'[c] = "done"
                                 /\ aim'[c] = aim[c] \/ (aim'[c] = NoAim /\ at'[c] \in {"idle", "done"})
                                 /\ ProcOf[c] # p => at'[c] = at[c] /\ aim'[c] = aim[c]
                                 /\ ProcOf[c] = p => at'[c] \in {"idle", "done"}
  <1>1. at' \in [Callers -> Phases]
    BY DEF TypeOK, GoesDown, Phases
  <1>2. aim' \in [Callers -> Aims]
    BY AimTypes DEF TypeOK, GoesDown
  <1>3. /\ up' \in [Procs -> BOOLEAN]
        /\ sweep' \in [Procs -> Aims] /\ dog' \in [Procs -> Aims]
        /\ \A q \in Procs : q # p => up'[q] = up[q] /\ dog'[q] = dog[q]
        /\ \A q \in Procs : /\ sweep'[q] = sweep[q] \/ sweep'[q] = NoAim
                            /\ dog'[q] = dog[q] \/ dog'[q] = NoAim
        /\ sweep'[p] = NoAim /\ dog'[p] = NoAim /\ ~up'[p]
    BY AimTypes DEF TypeOK, GoesDown
  <1>4. \A c \in Callers : /\ at'[c] = at[c] \/ at'[c] = "done"
                           /\ ProcOf[c] # p => at'[c] = at[c] /\ aim'[c] = aim[c]
                           /\ ProcOf[c] = p => at'[c] \in {"idle", "done"}
                           /\ ProcOf[c] = p => aim'[c] = NoAim
    BY DEF GoesDown
  <1>5. QED  BY <1>1, <1>2, <1>3, <1>4

\* A process goes down, or lets its locks go and goes on.
LEMMA LeaveBase ==
    ASSUME Base, NEW p \in Procs, Signal(p) \/ Crash(p)
    PROVE  Base'
  <1>1. TypeOK /\ NumbersOK /\ AimsOK /\ FreshOK /\ CountsOK
    BY DEF Base
  <1>2. /\ failures' \in 0..MaxFailures
        /\ held' = [held EXCEPT ![p] = NoHold]
        /\ watched' = [watched EXCEPT ![p] = FALSE]
        /\ fileVars' = fileVars \/ \E a : Remove(a)
        /\ \/ GoesDown(p) /\ forced' = forced
           \/ forced' \in BOOLEAN /\ UNCHANGED <<up, at, aim, sweep, dog>>
        /\ UNCHANGED <<startTimes, life, created, mine>>
    <2>1. failures' \in 0..MaxFailures
      BY <1>1, LockAssumption DEF TypeOK, Signal, Crash
    <2>2. CASE Signal(p)
      <3>1. forced \in BOOLEAN
        BY <1>1 DEF TypeOK
      <3>2. fileVars' = fileVars \/ \E a : Remove(a)
        BY <2>2 DEF Signal
      <3>3. \/ GoesDown(p) /\ forced' = forced
            \/ forced' \in BOOLEAN /\ UNCHANGED <<up, at, aim, sweep, dog>>
        BY <2>2, <3>1 DEF Signal
      <3>4. QED  BY <2>1, <2>2, <3>2, <3>3 DEF Signal
    <2>3. CASE Crash(p)
      BY <2>1, <2>3 DEF Crash
    <2>4. QED  BY <2>2, <2>3
  <1>3. /\ file' \in [n : Nat, by : Procs, life : Nat, written : BOOLEAN, age : 0..(StaleAfter + 1)]
        /\ file' = file \/ (file'.n = 0 /\ file'.life = 0)
        /\ foul' \subseteq {"raced", "aged", "swept", "orphan"}
    <2>1. CASE fileVars' = fileVars
      BY <1>1, <2>1 DEF TypeOK, fileVars
    <2>2. CASE \E a : Remove(a)
      BY <1>1, <2>2, RemoveFacts
    <2>3. QED  BY <1>2, <2>1, <2>2
  <1>4. /\ up' \in [Procs -> BOOLEAN]
        /\ at' \in [Callers -> Phases]
        /\ aim' \in [Callers -> Aims] /\ sweep' \in [Procs -> Aims] /\ dog' \in [Procs -> Aims]
        /\ forced' \in BOOLEAN
        /\ \A q \in Procs : /\ sweep'[q] = sweep[q] \/ sweep'[q] = NoAim
                            /\ dog'[q] = dog[q] \/ dog'[q] = NoAim
        /\ \A c \in Callers : /\ at'[c] = at[c] \/ at'[c] = "done"
                              /\ aim'[c] = aim[c] \/ (aim'[c] = NoAim /\ at'[c] \in {"idle", "done"})
                              /\ ProcOf[c] # p => at'[c] = at[c]
        /\ ~up'[p] => /\ sweep'[p] = NoAim /\ dog'[p] = NoAim
                      /\ \A c \in CallersOf(p) : at'[c] \in {"idle", "done"}
        /\ \A q \in Procs : q # p => up'[q] = up[q]
    <2>1. CASE GoesDown(p) /\ forced' = forced
      <3>1. forced' \in BOOLEAN
        BY <1>1, <2>1 DEF TypeOK
      <3>2. QED  BY <1>1, <2>1, <3>1, DownTypes DEF CallersOf
    <2>2. CASE forced' \in BOOLEAN /\ UNCHANGED <<up, at, aim, sweep, dog>>
      BY <1>1, <2>2 DEF TypeOK, Phases
    <2>3. QED  BY <1>2, <2>1, <2>2
  <1>5. /\ held' \in [Procs -> Holds \cup {NoHold}] /\ watched' \in [Procs -> BOOLEAN]
        /\ held'[p] = NoHold /\ \A q \in Procs : q # p => held'[q] = held[q]
    BY <1>1, <1>2 DEF TypeOK
  <1>6. TypeOK'
    <2>1. ASSUME NEW q \in Procs, ~up'[q]
          PROVE  /\ held'[q] = NoHold /\ sweep'[q] = NoAim /\ dog'[q] = NoAim
                 /\ \A c \in CallersOf(q) : at'[c] \in {"idle", "done"}
      <3>1. CASE q = p
        BY <1>4, <1>5, <2>1, <3>1
      <3>2. CASE q # p
        BY <1>1, <1>4, <1>5, <2>1, <3>2 DEF TypeOK, CallersOf
      <3>3. QED  BY <3>1, <3>2
    <2>2. QED  BY <1>1, <1>2, <1>3, <1>4, <1>5, <2>1 DEF TypeOK, Phases, CallersOf
  <1>7. NumbersOK'
    <2>1. \A q \in Procs : held'[q].n <= created
      BY <1>1, <1>5, AimTypes DEF NumbersOK, NoHold
    <2>2. file'.n <= created /\ file'.life <= life[file'.by]
      BY <1>1, <1>3, AimTypes DEF NumbersOK, TypeOK
    <2>3. QED  BY <1>1, <1>2, <1>4, <2>1, <2>2, AimTypes DEF NumbersOK
  <1>8. AimsOK'
    BY <1>1, <1>2, <1>4, AimTypes DEF AimsOK, Leaving
  <1>9. FreshOK'
    <2>1. ASSUME NEW c \in Callers, at'[c] = "writing", NEW q \in Procs
          PROVE  held'[q].n # mine[c]
      BY <1>1, <1>4, <1>5, <2>1, AimTypes DEF FreshOK, AimsOK, NoHold
    <2>2. QED  BY <1>1, <1>2, <1>4, <2>1 DEF FreshOK
  <1>10. CountsOK'
    <2>1. ASSUME NEW q \in Procs, held'[q] # NoHold
          PROVE  q # p /\ held'[q] = held[q] /\ \A d \in CallersOf(q) : at'[d] = at[d]
      BY <1>4, <1>5, <2>1 DEF CallersOf
    <2>2. QED  BY <1>1, <1>2, <2>1, CountsKept
  <1>11. QED  BY <1>6, <1>7, <1>8, <1>9, <1>10 DEF Base

LEMMA StartBase ==
    ASSUME Base, NEW p \in Procs, Start(p)
    PROVE  Base'
  <1> DEFINE a == IF Exists THEN [n |-> file.n, why |-> "listed"] ELSE NoAim
  <1>1. TypeOK /\ NumbersOK /\ AimsOK /\ FreshOK /\ CountsOK
    BY DEF Base
  <1>2. /\ up' = [up EXCEPT ![p] = TRUE] /\ life' = [life EXCEPT ![p] = life[p] + 1]
        /\ sweep' = [sweep EXCEPT ![p] = a]
        /\ UNCHANGED <<startTimes, fileVars, created, held, watched, at, mine, aim, dog, forced, failures>>
    BY DEF Start
  <1>3. a \in Aims /\ a.n <= created /\ a.why \in {"none", "listed"}
    <2>1. NoAim \in Aims /\ NoAim.n <= created /\ NoAim.why = "none" /\ file.n \in Nat /\ file.n <= created
      BY <1>1, AimTypes DEF NumbersOK
    <2>2. "listed" \in Reasons
      BY DEF Reasons
    <2>3. QED  BY <2>1, <2>2, AimMade
  <1> HIDE DEF a
  <1>4. TypeOK'
    BY <1>1, <1>2, <1>3 DEF TypeOK, fileVars, CallersOf
  <1>5. NumbersOK'
    BY <1>1, <1>2, <1>3, AimTypes DEF NumbersOK, TypeOK, fileVars
  <1>6. AimsOK' /\ FreshOK'
    BY <1>1, <1>2, <1>3 DEF AimsOK, FreshOK, Leaving, TypeOK
  <1>7. CountsOK'
    BY <1>1, <1>2, CountsKept
  <1>8. QED  BY <1>4, <1>5, <1>6, <1>7 DEF Base

LEMMA SweepJudgesBase ==
    ASSUME Base, NEW p \in Procs, SweepJudges(p)
    PROVE  Base'
  <1> DEFINE a == IF SweepReason = "none" THEN NoAim ELSE [n |-> file.n, why |-> SweepReason]
  <1>1. TypeOK /\ NumbersOK /\ AimsOK /\ FreshOK /\ CountsOK
    BY DEF Base
  <1>2. /\ sweep' = [sweep EXCEPT ![p] = a] /\ sweep[p].why = "listed"
        /\ UNCHANGED <<procVars, fileVars, created, held, watched, at, mine, aim, dog, forced, failures>>
    BY DEF SweepJudges
  <1>3. a \in Aims /\ a.n <= created /\ a.why \in {"none", "dead", "aged", "swept"}
    <2>1. SweepReason \in {"none", "dead", "aged", "swept"}
      BY DEF SweepReason
    <2>2. NoAim \in Aims /\ NoAim.n <= created /\ NoAim.why = "none" /\ file.n \in Nat /\ file.n <= created
      BY <1>1, AimTypes DEF NumbersOK
    <2>3. SweepReason \in Reasons
      BY <2>1 DEF Reasons
    <2>4. QED  BY <2>1, <2>2, <2>3, AimMade
  <1> HIDE DEF a
  <1>4. TypeOK'
    <2>1. up[p]
      BY <1>1, <1>2, AimTypes DEF TypeOK
    <2>2. QED  BY <1>1, <1>2, <1>3, <2>1 DEF TypeOK, procVars, fileVars, CallersOf
  <1>5. NumbersOK'
    BY <1>1, <1>2, <1>3, AimTypes DEF NumbersOK, TypeOK, procVars, fileVars
  <1>6. AimsOK' /\ FreshOK'
    BY <1>1, <1>2, <1>3 DEF AimsOK, FreshOK, Leaving, TypeOK
  <1>7. CountsOK'
    BY <1>1, <1>2, CountsKept
  <1>8. QED  BY <1>4, <1>5, <1>6, <1>7 DEF Base

LEMMA SweepRemovesBase ==
    ASSUME Base, NEW p \in Procs, SweepRemoves(p)
    PROVE  Base'
  <1>1. TypeOK /\ NumbersOK /\ AimsOK /\ FreshOK /\ CountsOK
    BY DEF Base
  <1>2. /\ Remove(sweep[p]) /\ sweep' = [sweep EXCEPT ![p] = NoAim]
        /\ UNCHANGED <<procVars, created, held, watched, at, mine, aim, dog, forced, failures>>
    BY DEF SweepRemoves
  <1>3. /\ file' \in [n : Nat, by : Procs, life : Nat, written : BOOLEAN, age : 0..(StaleAfter + 1)]
        /\ file'.n = 0 /\ file'.life = 0 /\ foul' \subseteq {"raced", "aged", "swept", "orphan"}
    BY <1>1, <1>2, RemoveFacts
  <1>4. TypeOK'
    BY <1>1, <1>2, <1>3, AimTypes DEF TypeOK, procVars, CallersOf
  <1>5. NumbersOK'
    BY <1>1, <1>2, <1>3, AimTypes DEF NumbersOK, TypeOK, procVars
  <1>6. AimsOK' /\ FreshOK'
    BY <1>1, <1>2, AimTypes DEF AimsOK, FreshOK, Leaving, TypeOK
  <1>7. CountsOK'
    BY <1>1, <1>2, CountsKept
  <1>8. QED  BY <1>4, <1>5, <1>6, <1>7 DEF Base

\* A tick makes the file and the holds older.
LEMMA TickFacts ==
    ASSUME TypeOK, Tick
    PROVE  /\ file' \in [n : Nat, by : Procs, life : Nat, written : BOOLEAN, age : 0..(StaleAfter + 1)]
           /\ file'.n = file.n /\ file'.by = file.by /\ file'.life = file.life /\ file'.written = file.written
           /\ held' \in [Procs -> Holds \cup {NoHold}]
           /\ \A p \in Procs : /\ held'[p].n = held[p].n /\ held'[p].count = held[p].count
                               /\ held'[p] = NoHold <=> held[p] = NoHold
           /\ UNCHANGED <<procVars, foul, created, watched, at, mine, aim, sweep, dog, forced, failures>>
  <1>1. /\ file' = IF Exists THEN [file EXCEPT !.age = Older(file.age, StaleAfter)] ELSE file
        /\ held' = [p \in Procs |-> IF held[p] = NoHold THEN NoHold
                                    ELSE [held[p] EXCEPT !.age = Older(held[p].age, MaxHold)]]
        /\ UNCHANGED <<procVars, foul, created, watched, at, mine, aim, sweep, dog, forced, failures>>
    BY DEF Tick
  <1>2. file \in [n : Nat, by : Procs, life : Nat, written : BOOLEAN, age : 0..(StaleAfter + 1)]
    BY DEF TypeOK
  <1>3. Older(file.age, StaleAfter) \in 0..(StaleAfter + 1)
    BY <1>2, LockAssumption DEF Older
  <1>4. ASSUME NEW p \in Procs, held[p] # NoHold
        PROVE  LET h == [held[p] EXCEPT !.age = Older(held[p].age, MaxHold)]
               IN h \in Holds /\ h # NoHold /\ h.n = held[p].n /\ h.count = held[p].count
    <2>1. held[p] \in Holds
      BY <1>4 DEF TypeOK
    <2>2. Older(held[p].age, MaxHold) \in 0..(MaxHold + 1)
      BY <2>1, LockAssumption DEF Older, Holds
    <2>3. QED  BY <2>1, <2>2 DEF Holds, NoHold
  <1>5. ASSUME NEW p \in Procs
        PROVE  /\ held'[p] \in Holds \cup {NoHold}
               /\ held'[p].n = held[p].n /\ held'[p].count = held[p].count
               /\ held'[p] = NoHold <=> held[p] = NoHold
    BY <1>1, <1>4
  <1>6. held' \in [Procs -> Holds \cup {NoHold}]
    BY <1>1, <1>5
  <1>7. /\ file' \in [n : Nat, by : Procs, life : Nat, written : BOOLEAN, age : 0..(StaleAfter + 1)]
        /\ file'.n = file.n /\ file'.by = file.by /\ file'.life = file.life /\ file'.written = file.written
    BY <1>1, <1>2, <1>3
  <1>8. QED  BY <1>1, <1>5, <1>6, <1>7

LEMMA TickBase ==
    ASSUME Base, Tick
    PROVE  Base'
  <1>1. TypeOK /\ NumbersOK /\ AimsOK /\ FreshOK /\ CountsOK
    BY DEF Base
  <1>2. TypeOK'
    <2>1. UNCHANGED <<startTimes, up, life, foul, created, watched, at, mine, aim, sweep, dog, forced, failures>>
      BY <1>1, TickFacts DEF procVars
    <2>2. QED  BY <1>1, <2>1, TickFacts DEF TypeOK, CallersOf
  <1>3. NumbersOK' /\ AimsOK' /\ FreshOK'
    BY <1>1, TickFacts DEF NumbersOK, AimsOK, FreshOK, Leaving, procVars
  <1>4. CountsOK'
    BY <1>1, TickFacts, CountsKept
  <1>5. QED  BY <1>1, <1>2, <1>3, <1>4 DEF Base

LEMMA BaseStep ==
    ASSUME Base, [Next]_vars
    PROVE  Base'
  <1>1. CASE \E c \in Callers : Join(c) \/ Acquire(c) \/ CallerStep(c) \/ WriteFails(c) \/ TimeOut(c)
    BY <1>1, JoinBase, AcquireBase, CreateBase, WriteBase, AimBase, RemovalBase, ReleaseBase DEF CallerStep
  <1>2. CASE \E p \in Procs : ProcStep(p) \/ Watchdog(p) \/ Signal(p) \/ Crash(p) \/ Start(p)
    BY <1>2, WatchdogBase, WatchdogRemovesBase, LeaveBase, StartBase, SweepJudgesBase, SweepRemovesBase
    DEF ProcStep
  <1>3. CASE Tick
    BY <1>3, TickBase
  <1>4. CASE UNCHANGED vars
    <2>1. UNCHANGED <<startTimes, up, life, file, foul, created, held, watched, at, mine, aim, sweep, dog,
                      forced, failures>>
      BY <1>4 DEF vars, procVars, fileVars
    <2>2. QED
      BY <2>1 DEF Base, TypeOK, NumbersOK, AimsOK, FreshOK, CountsOK, Sharers, CallersOf, Leaving
  <1>5. QED  BY <1>1, <1>2, <1>3, <1>4 DEF Next

-----------------------------------------------------------------------------
(* As long as no file of a live process was taken: the removals.           *)

\* Whoever holds the lock, or is about to, has a file on the disk, and is alive.
LEMMA OwnerAlive ==
    ASSUME Base, Core, ~NoOwner
    PROVE  Exists /\ Alive(file)
  <1>1. TypeOK /\ AimsOK /\ HoldsOK /\ WritesOK
    BY DEF Base, Core
  <1>2. CASE \E p \in Procs : held[p] # NoHold
    BY <1>1, <1>2, HoldTypes DEF HoldsOK, Exists, Alive, TypeOK
  <1>3. CASE \E c \in Callers : at[c] = "writing"
    <2>1. PICK c \in Callers : at[c] = "writing"
      BY <1>3
    <2>2. ProcOf[c] \in Procs /\ c \in CallersOf(ProcOf[c])
      BY LockAssumption DEF CallersOf
    <2>3. up[ProcOf[c]]
      BY <1>1, <2>1, <2>2 DEF TypeOK
    <2>4. QED  BY <1>1, <2>1, <2>2, <2>3 DEF WritesOK, AimsOK, Exists, Alive
  <1>4. QED  BY <1>2, <1>3 DEF NoOwner

\* Why the file of nobody else is removed.
LEMMA CleanRemoval ==
    ASSUME Base, Core, NEW a, Remove(a), foul' = {},
           \/ \E c \in Callers : a = aim[c] /\ at[c] \in Leaving \cup {"reclaiming"}
           \/ \E p \in Procs : a = dog[p] /\ dog[p] # NoAim
           \/ \E p \in Procs : a = sweep[p] /\ sweep[p].why \notin {"none", "listed"}
    PROVE  NoOwner
  <1> SUFFICES ASSUME ~NoOwner PROVE FALSE
    OBVIOUS
  <1>1. TypeOK /\ NumbersOK /\ AimsOK /\ OwnOK /\ DeadOK /\ Exists /\ Alive(file)
    BY OwnerAlive DEF Base, Core
  <1>2. file.n = a.n /\ a.why \notin {"aged", "swept", "orphan"}
    BY <1>1, RemoveFacts
  <1>3. ASSUME NEW c \in Callers, a = aim[c], at[c] \in Leaving \cup {"reclaiming"}
        PROVE  FALSE
    BY <1>1, <1>2, <1>3 DEF OwnOK, DeadOK, AimsOK, Leaving
  <1>4. ASSUME NEW p \in Procs, a = dog[p], dog[p] # NoAim
        PROVE  FALSE
    BY <1>1, <1>2, <1>4 DEF OwnOK
  <1>5. ASSUME NEW p \in Procs, a = sweep[p], sweep[p].why \notin {"none", "listed"}
        PROVE  FALSE
    BY <1>1, <1>2, <1>5 DEF DeadOK, AimsOK
  <1>6. QED  BY <1>3, <1>4, <1>5

\* Without a file and without an owner there is nothing to ask for.
LEMMA EmptyCore ==
    ASSUME file'.n = 0, NoOwner'
    PROVE  Core'
  BY DEF Core, NoOwner, HoldsOK, WritesOK, OwnOK, DeadOK, NotAbandoned, Exists

LEMMA RemovalCore ==
    ASSUME Base, Core, foul' = {}, NEW c \in Callers, Unwind(c) \/ Reclaim(c) \/ RemoveOwn(c)
    PROVE  Core' /\ (SharedOK => SharedOK')
  <1>1. /\ at[c] \in Leaving \cup {"reclaiming"} /\ Remove(aim[c])
        /\ at' = [at EXCEPT ![c] = "done"] \/ at' = [at EXCEPT ![c] = "trying"]
        /\ UNCHANGED <<held, mine>>
    BY DEF Unwind, Reclaim, RemoveOwn, Goes, Leaving
  <1>2. TypeOK /\ NumbersOK
    BY DEF Base
  <1>3. file'.n = 0
    BY <1>1, <1>2, RemoveFacts
  <1>4. NoOwner
    BY <1>1, CleanRemoval
  <1>5. NoOwner'
    BY <1>1, <1>2, <1>4 DEF NoOwner, TypeOK
  <1>6. SharedOK => SharedOK'
    BY <1>1, <1>2 DEF SharedOK, TypeOK
  <1>7. QED  BY <1>3, <1>5, <1>6, EmptyCore

LEMMA WatchdogRemovesCore ==
    ASSUME Base, Core, foul' = {}, NEW p \in Procs, WatchdogRemoves(p) \/ SweepRemoves(p)
    PROVE  Core' /\ (SharedOK => SharedOK')
  <1>1. /\ \/ Remove(dog[p]) /\ dog[p] # NoAim
           \/ Remove(sweep[p]) /\ sweep[p].why \notin {"none", "listed"}
        /\ UNCHANGED <<held, mine, at>>
    BY DEF WatchdogRemoves, SweepRemoves
  <1>2. TypeOK /\ NumbersOK
    BY DEF Base
  <1>3. file'.n = 0
    BY <1>1, <1>2, RemoveFacts
  <1>4. NoOwner
    BY <1>1, CleanRemoval
  <1>5. NoOwner' /\ (SharedOK => SharedOK')
    BY <1>1, <1>4 DEF NoOwner, SharedOK
  <1>6. QED  BY <1>3, <1>5, EmptyCore

-----------------------------------------------------------------------------
(* As long as no file of a live process was taken: the other steps.        *)

\* There is one owner at most.
LEMMA OneHolder ==
    ASSUME Base, Core, NEW p \in Procs, held[p] # NoHold
    PROVE  /\ Exists /\ file.n = held[p].n /\ file.written /\ file.by = p /\ file.life = life[p]
           /\ \A q \in Procs : q # p => held[q] = NoHold
           /\ \A c \in Callers : at[c] # "writing"
  <1>1. TypeOK /\ HoldsOK /\ WritesOK
    BY DEF Base, Core
  <1>2. file.n = held[p].n /\ held[p].n # 0 /\ file.written /\ file.by = p /\ file.life = life[p]
    BY <1>1, HoldTypes DEF HoldsOK
  <1>3. QED  BY <1>1, <1>2 DEF HoldsOK, WritesOK, Exists

LEMMA OneWriter ==
    ASSUME Base, Core, NEW c \in Callers, at[c] = "writing"
    PROVE  /\ Exists /\ file.n = mine[c] /\ ~file.written
           /\ file.by = ProcOf[c] /\ file.life = life[ProcOf[c]]
           /\ \A q \in Procs : held[q] = NoHold
           /\ \A d \in Callers : d # c => at[d] # "writing"
  <1>1. AimsOK /\ FreshOK /\ HoldsOK /\ WritesOK
    BY DEF Base, Core
  <1>2. /\ file.n = mine[c] /\ mine[c] # 0 /\ ~file.written
        /\ file.by = ProcOf[c] /\ file.life = life[ProcOf[c]]
    BY <1>1 DEF WritesOK, AimsOK
  <1>3. QED  BY <1>1, <1>2 DEF HoldsOK, WritesOK, FreshOK, Exists

LEMMA JoinCore ==
    ASSUME Base, Core, NEW c \in Callers, Join(c)
    PROVE  Core' /\ (SharedOK => SharedOK')
  <1> DEFINE p == ProcOf[c]
             h == [held[p] EXCEPT !.count = held[p].count + 1]
  <1>1. TypeOK /\ HoldsOK /\ OwnOK /\ DeadOK /\ NotAbandoned /\ p \in Procs
    BY LockAssumption DEF Base, Core
  <1>2. /\ at[c] = "idle" /\ at' = [at EXCEPT ![c] = "holding"]
        /\ held[p] # NoHold /\ held' = [held EXCEPT ![p] = h]
        /\ mine' = [mine EXCEPT ![c] = held[p].n]
        /\ UNCHANGED <<up, life, file, aim, sweep, dog>>
    BY DEF Join, Starts, procVars, fileVars
  <1>3. held'[p].n = held[p].n /\ \A q \in Procs : q # p => held'[q] = held[q]
    BY <1>1, <1>2 DEF TypeOK, Holds
  <1>4. \A d \in Callers : d # c => at'[d] = at[d] /\ mine'[d] = mine[d]
    BY <1>1, <1>2 DEF TypeOK
  <1>5. at'[c] = "holding" /\ mine'[c] = held[p].n
    BY <1>1, <1>2 DEF TypeOK
  <1> HIDE DEF p, h
  <1>6. /\ file.n = held[p].n /\ file.written /\ file.by = p /\ file.life = life[p] /\ Exists
        /\ \A q \in Procs : q # p => held[q] = NoHold
        /\ \A d \in Callers : at[d] # "writing"
    BY <1>1, <1>2, OneHolder
  <1>7. HoldsOK' /\ WritesOK'
    BY <1>2, <1>3, <1>4, <1>5, <1>6 DEF HoldsOK, WritesOK
  <1>8. OwnOK'
    BY <1>1, <1>2, <1>4, <1>5, <1>6 DEF OwnOK, NoOwner, Leaving, Exists
  <1>9. DeadOK'
    BY <1>1, <1>2, <1>4, <1>5 DEF DeadOK, Exists, Alive
  <1>10. NotAbandoned'
    BY <1>2, <1>3, <1>6 DEF NotAbandoned
  <1>11. SharedOK => SharedOK'
    BY <1>1, <1>3, <1>4, <1>5, LockAssumption DEF SharedOK, p
  <1>12. QED  BY <1>7, <1>8, <1>9, <1>10, <1>11 DEF Core

\* A caller goes on while the file, the holds and the owner stay as they are.
LEMMA QuietCore ==
    ASSUME Base, Core, NEW c \in Callers, Acquire(c) \/ TimeOut(c) \/ JudgeStale(c)
    PROVE  Core' /\ (SharedOK => SharedOK')
  <1>1. TypeOK /\ HoldsOK /\ WritesOK /\ OwnOK /\ DeadOK /\ NotAbandoned
    BY DEF Base, Core
  <1>2. /\ at[c] \in {"idle", "trying"}
        /\ \E x \in {"trying", "done", "reclaiming"} : at' = [at EXCEPT ![c] = x]
        /\ UNCHANGED <<up, life, file, held, mine, sweep, dog>>
    BY DEF Acquire, TimeOut, JudgeStale, Starts, Goes, procVars, fileVars
  <1>3. /\ \A d \in Callers : d # c => at'[d] = at[d] /\ aim'[d] = aim[d]
        /\ at'[c] \in {"trying", "done", "reclaiming"}
    BY <1>1, <1>2 DEF TypeOK, Acquire, TimeOut, JudgeStale
  <1>4. at'[c] = "reclaiming" /\ aim'[c].why = "dead" => ~Alive(file)
    <2>1. CASE JudgeStale(c)
      <3>1. aim'[c] = [n |-> file.n, why |-> ReclaimReason(ProcOf[c])]
        BY <1>1, <2>1 DEF JudgeStale, TypeOK
      <3>2. ReclaimReason(ProcOf[c]) = "dead" => PidDead(file)
        BY DEF ReclaimReason
      <3>3. QED  BY <3>1, <3>2 DEF PidDead, Alive
    <2>2. CASE Acquire(c) \/ TimeOut(c)
      BY <1>1, <2>2 DEF Acquire, TimeOut, Starts, Goes, TypeOK
    <2>3. QED  BY <2>1, <2>2
  <1>5. HoldsOK' /\ WritesOK'
    BY <1>1, <1>2, <1>3 DEF HoldsOK, WritesOK
  <1>6. OwnOK'
    BY <1>1, <1>2, <1>3 DEF OwnOK, NoOwner, Leaving, Exists
  <1>7. DeadOK'
    BY <1>1, <1>2, <1>3, <1>4 DEF DeadOK, Exists, Alive
  <1>8. NotAbandoned'
    BY <1>1, <1>2, <1>3 DEF NotAbandoned, Exists, Alive, CallersOf
  <1>9. SharedOK => SharedOK'
    BY <1>2, <1>3 DEF SharedOK
  <1>10. QED  BY <1>5, <1>6, <1>7, <1>8, <1>9 DEF Core

LEMMA CreateCore ==
    ASSUME Base, Core, NEW c \in Callers, Create(c)
    PROVE  Core' /\ (SharedOK => SharedOK')
  <1>1. TypeOK /\ NumbersOK /\ ~Exists /\ NoOwner /\ ProcOf[c] \in Procs
    BY OwnerAlive, LockAssumption DEF Create, Base
  <1>2. /\ at[c] = "trying" /\ at' = [at EXCEPT ![c] = "writing"]
        /\ created' = created + 1 /\ mine' = [mine EXCEPT ![c] = created']
        /\ file'.n = created' /\ file'.by = ProcOf[c] /\ file'.life = life[ProcOf[c]] /\ ~file'.written
        /\ UNCHANGED <<up, life, held, aim, sweep, dog>>
    BY DEF Create, Goes, procVars
  <1>3. /\ \A d \in Callers : d # c => at'[d] = at[d] /\ mine'[d] = mine[d]
        /\ at'[c] = "writing" /\ mine'[c] = created'
    BY <1>1, <1>2 DEF TypeOK
  <1>4. /\ \A d \in Callers : aim[d].n < file'.n
        /\ \A p \in Procs : dog[p].n < file'.n /\ sweep[p].n < file'.n
    BY <1>1, <1>2, AimTypes DEF NumbersOK
  <1>5. HoldsOK' /\ WritesOK'
    BY <1>1, <1>2, <1>3 DEF HoldsOK, WritesOK, NoOwner
  <1>6. OwnOK' /\ DeadOK'
    BY <1>1, <1>2, <1>4, AimTypes DEF OwnOK, DeadOK
  <1>7. NotAbandoned'
    BY <1>2, <1>3 DEF NotAbandoned, CallersOf
  <1>8. SharedOK => SharedOK'
    BY <1>2, <1>3 DEF SharedOK
  <1>9. QED  BY <1>5, <1>6, <1>7, <1>8 DEF Core

LEMMA WriteCore ==
    ASSUME Base, Core, NEW c \in Callers, WriteSucceeds(c)
    PROVE  Core' /\ (SharedOK => SharedOK')
  <1> DEFINE p == ProcOf[c]
             h == [n |-> mine[c], count |-> 1, age |-> 0]
  <1>1. TypeOK /\ AimsOK /\ FreshOK /\ OwnOK /\ DeadOK /\ p \in Procs /\ c \in CallersOf(p)
    BY LockAssumption DEF Base, Core, CallersOf
  <1>2. /\ at[c] = "writing" /\ at' = [at EXCEPT ![c] = "holding"]
        /\ file' = IF file.n = mine[c] THEN [file EXCEPT !.written = TRUE] ELSE file
        /\ held' = [held EXCEPT ![p] = h]
        /\ UNCHANGED <<up, life, mine, aim, sweep, dog>>
    BY DEF WriteSucceeds, Goes, procVars
  <1>3. /\ Exists /\ file.n = mine[c] /\ file.by = p /\ file.life = life[p]
        /\ \A q \in Procs : held[q] = NoHold
        /\ \A d \in Callers : d # c => at[d] # "writing"
    BY <1>2, OneWriter
  <1>4. file'.n = file.n /\ file'.by = file.by /\ file'.life = file.life /\ file'.written
    <2>1. file \in [n : Nat, by : Procs, life : Nat, written : BOOLEAN, age : 0..(StaleAfter + 1)]
      BY <1>1 DEF TypeOK
    <2>2. QED  BY <1>2, <1>3, <2>1
  <1>5. held'[p].n = mine[c] /\ \A q \in Procs : q # p => held'[q] = NoHold
    BY <1>1, <1>2, <1>3 DEF TypeOK
  <1>6. at'[c] = "holding" /\ \A d \in Callers : d # c => at'[d] = at[d]
    BY <1>1, <1>2 DEF TypeOK
  <1> HIDE DEF p, h
  <1>7. HoldsOK' /\ WritesOK'
    BY <1>2, <1>3, <1>4, <1>5, <1>6 DEF HoldsOK, WritesOK
  <1>8. OwnOK'
    <2>1. \A d \in Callers : at'[d] \in Leaving => aim[d].n # file.n
      BY <1>1, <1>2, <1>3, <1>6 DEF OwnOK, NoOwner, Leaving
    <2>2. \A q \in Procs : dog[q] # NoAim => dog[q].n # file.n
      BY <1>1, <1>2, <1>3 DEF OwnOK, NoOwner
    <2>3. QED  BY <1>2, <1>4, <2>1, <2>2 DEF OwnOK
  <1>9. DeadOK'
    BY <1>1, <1>2, <1>4, <1>6 DEF DeadOK, Exists, Alive
  <1>10. NotAbandoned'
    BY <1>3, <1>4, <1>5 DEF NotAbandoned
  <1>11. SharedOK => SharedOK'
    <2>1. ASSUME SharedOK, NEW d \in Callers, at'[d] = "holding"
          PROVE  d = c
      BY <1>1, <1>3, <1>6, <2>1, LockAssumption DEF SharedOK, AimsOK, NoHold
    <2>2. QED  BY <1>2, <1>5, <2>1 DEF SharedOK, p
  <1>12. QED  BY <1>7, <1>8, <1>9, <1>10, <1>11 DEF Core

LEMMA WriteFailsCore ==
    ASSUME Base, Core, NEW c \in Callers, WriteFails(c)
    PROVE  Core' /\ (SharedOK => SharedOK')
  <1>1. TypeOK /\ DeadOK /\ NotAbandoned
    BY DEF Base, Core
  <1>2. /\ at[c] = "writing" /\ at' = [at EXCEPT ![c] = "unwinding"]
        /\ UNCHANGED <<up, life, file, held, mine, sweep, dog>>
    BY DEF WriteFails, Goes, procVars, fileVars
  <1>3. /\ at'[c] = "unwinding"
        /\ \A d \in Callers : d # c => at'[d] = at[d] /\ aim'[d] = aim[d]
    BY <1>1, <1>2 DEF TypeOK, WriteFails
  <1>4. NoOwner'
    BY <1>2, <1>3, OneWriter DEF NoOwner
  <1>5. HoldsOK' /\ WritesOK' /\ OwnOK'
    BY <1>4 DEF HoldsOK, WritesOK, OwnOK, NoOwner
  <1>6. DeadOK'
    BY <1>1, <1>2, <1>3 DEF DeadOK, Exists, Alive
  <1>7. NotAbandoned'
    BY <1>1, <1>2, <1>3 DEF NotAbandoned, Exists, Alive, CallersOf
  <1>8. SharedOK => SharedOK'
    BY <1>2, <1>3 DEF SharedOK
  <1>9. QED  BY <1>5, <1>6, <1>7, <1>8 DEF Core

LEMMA ReleaseCore ==
    ASSUME Base, Core, NEW c \in Callers, Release(c)
    PROVE  Core' /\ (SharedOK => SharedOK')
  <1> DEFINE p == ProcOf[c]
  <1>1. /\ TypeOK /\ AimsOK /\ CountsOK /\ HoldsOK /\ WritesOK /\ OwnOK /\ DeadOK /\ NotAbandoned
        /\ p \in Procs /\ c \in CallersOf(p)
    BY LockAssumption DEF Base, Core, CallersOf
  <1>2. at[c] = "holding" /\ mine[c] # 0 /\ UNCHANGED <<up, life, file, mine, sweep, dog>>
    BY <1>1 DEF Release, Goes, procVars, fileVars, AimsOK
  <1>3. CASE held[p].n = mine[c] /\ held[p].count = 1
    <2>1. /\ at' = [at EXCEPT ![c] = "removing"] /\ held' = [held EXCEPT ![p] = NoHold]
          /\ held[p] # NoHold
      BY <1>2, <1>3 DEF Release, Goes, NoHold
    <2>2. /\ at'[c] = "removing" /\ held'[p] = NoHold
          /\ \A d \in Callers : d # c => at'[d] = at[d] /\ aim'[d] = aim[d]
          /\ \A q \in Procs : q # p => held'[q] = held[q]
      BY <1>1, <1>3, <2>1 DEF TypeOK, Release
    <2>3. /\ file.n = mine[c] /\ file.by = p
          /\ \A q \in Procs : q # p => held[q] = NoHold
          /\ \A d \in Callers : at[d] # "writing"
      BY <1>1, <1>3, <2>1, OneHolder
    <2> HIDE DEF p
    <2>4. NoOwner'
      BY <2>2, <2>3 DEF NoOwner
    <2>5. HoldsOK' /\ WritesOK' /\ OwnOK'
      BY <2>4 DEF HoldsOK, WritesOK, OwnOK, NoOwner
    <2>6. DeadOK'
      BY <1>1, <1>2, <2>2 DEF DeadOK, Exists, Alive
    <2>7. NotAbandoned'
      BY <1>1, <1>2, <2>2, <2>3 DEF NotAbandoned, CallersOf
    <2>8. SharedOK => SharedOK'
      <3>1. Cardinality(Sharers(p, mine[c])) = 1 /\ c \in Sharers(p, mine[c])
        BY <1>1, <1>2, <1>3, <2>1 DEF CountsOK, Sharers
      <3>2. PICK x : Sharers(p, mine[c]) = {x}
        BY <3>1, SharersFinite, FS_Singleton
      <3>3. Sharers(p, mine[c]) = {c}
        BY <3>1, <3>2
      <3>4. ASSUME SharedOK, NEW d \in Callers, at'[d] = "holding"
            PROVE  held'[ProcOf[d]].n = mine[d]
        <4>1. d # c /\ at[d] = "holding" /\ held[ProcOf[d]].n = mine[d] /\ ProcOf[d] \in Procs
          BY <2>2, <3>4, LockAssumption DEF SharedOK
        <4>2. ProcOf[d] # p
          BY <1>3, <3>3, <4>1 DEF Sharers, CallersOf
        <4>3. QED  BY <2>2, <4>1, <4>2
      <3>5. QED  BY <1>2, <3>4 DEF SharedOK
    <2>9. QED  BY <2>5, <2>6, <2>7, <2>8 DEF Core
  <1>4. CASE ~(held[p].n = mine[c] /\ held[p].count = 1)
    <2>1. /\ at' = [at EXCEPT ![c] = "done"] /\ aim' = aim
          /\ held' = IF held[p].n = mine[c] THEN [held EXCEPT ![p].count = @ - 1] ELSE held
      BY <1>4 DEF Release, Goes
    <2>2. at'[c] = "done" /\ \A d \in Callers : d # c => at'[d] = at[d]
      BY <1>1, <2>1 DEF TypeOK
    <2>3. ASSUME NEW q \in Procs
          PROVE  held'[q].n = held[q].n /\ (held'[q] # NoHold <=> held[q] # NoHold)
      <3>1. CASE held' = held \/ q # p
        BY <1>1, <2>1, <3>1 DEF TypeOK
      <3>2. CASE held[p].n = mine[c] /\ q = p
        <4>1. held[p] \in Holds
          BY <1>1, <1>2, <3>2, HoldTypes DEF TypeOK
        <4>2. held'[p] = [held[p] EXCEPT !.count = held[p].count - 1]
          BY <1>1, <2>1, <3>2 DEF TypeOK
        <4> HIDE DEF p
        <4>3. held'[p].n = held[p].n /\ held[p].n # 0
          BY <1>2, <3>2, <4>1, <4>2 DEF Holds
        <4>4. QED  BY <3>2, <4>3 DEF NoHold
      <3>3. QED  BY <2>1, <3>1, <3>2
    <2> HIDE DEF p
    <2>4. HoldsOK' /\ WritesOK'
      BY <1>1, <1>2, <2>2, <2>3 DEF HoldsOK, WritesOK
    <2>5. OwnOK'
      BY <1>1, <1>2, <2>1, <2>2, <2>3 DEF OwnOK, NoOwner, Leaving, Exists
    <2>6. DeadOK'
      BY <1>1, <1>2, <2>1, <2>2 DEF DeadOK, Exists, Alive
    <2>7. NotAbandoned'
      BY <1>1, <1>2, <2>2, <2>3, AimTypes DEF NotAbandoned, Exists, Alive, CallersOf
    <2>8. SharedOK => SharedOK'
      BY <1>2, <2>2, <2>3, LockAssumption DEF SharedOK
    <2>9. QED  BY <2>4, <2>5, <2>6, <2>7, <2>8 DEF Core
  <1>5. QED  BY <1>3, <1>4

LEMMA WatchdogCore ==
    ASSUME Base, Core, NEW p \in Procs, Watchdog(p)
    PROVE  Core' /\ forced'
  <1>1. TypeOK /\ DeadOK /\ NotAbandoned
    BY DEF Base, Core
  <1>2. /\ held[p] # NoHold /\ held' = [held EXCEPT ![p] = NoHold] /\ dog[p] = NoAim
        /\ dog' = [dog EXCEPT ![p] = Own(held[p].n)] /\ forced'
        /\ UNCHANGED <<up, life, file, at, mine, aim, sweep>>
    BY DEF Watchdog, procVars, fileVars
  <1>3. /\ held'[p] = NoHold /\ dog'[p].n = held[p].n
        /\ \A q \in Procs : q # p => held'[q] = held[q] /\ dog'[q] = dog[q]
    BY <1>1, <1>2 DEF TypeOK, Own
  <1>4. NoOwner' /\ file.by = p /\ file.n = held[p].n
    BY <1>2, <1>3, OneHolder DEF NoOwner
  <1>5. HoldsOK' /\ WritesOK' /\ OwnOK'
    BY <1>4 DEF HoldsOK, WritesOK, OwnOK, NoOwner
  <1>6. DeadOK'
    BY <1>1, <1>2 DEF DeadOK, Exists, Alive
  <1>7. NotAbandoned'
    BY <1>2, <1>3, <1>4 DEF NotAbandoned
  <1>8. QED  BY <1>2, <1>5, <1>6, <1>7 DEF Core

\* A process goes down, and its file stays.
LEMMA DownCore ==
    ASSUME Base, Core, NEW p \in Procs, GoesDown(p), held' = [held EXCEPT ![p] = NoHold],
           UNCHANGED <<life, file, mine>>
    PROVE  Core' /\ (SharedOK => SharedOK')
  <1>1. TypeOK /\ HoldsOK /\ WritesOK /\ OwnOK /\ DeadOK /\ NotAbandoned
    BY DEF Base, Core
  <1>2. /\ held'[p] = NoHold /\ \A q \in Procs : q # p => held'[q] = held[q]
    BY <1>1 DEF TypeOK
  <1>3. /\ ~up'[p]
        /\ \A q \in Procs : /\ q # p => up'[q] = up[q] /\ dog'[q] = dog[q]
                            /\ sweep'[q] = sweep[q] \/ sweep'[q] = NoAim
                            /\ dog'[q] = dog[q] \/ dog'[q] = NoAim
        /\ \A c \in Callers : /\ at'[c] \notin {"idle", "done"} => at'[c] = at[c] /\ aim'[c] = aim[c]
                              /\ ProcOf[c] # p => at'[c] = at[c] /\ aim'[c] = aim[c]
                              /\ ProcOf[c] = p => at'[c] \in {"idle", "done"}
    BY <1>1, DownTypes
  <1>4. HoldsOK' /\ WritesOK'
    BY <1>1, <1>2, <1>3 DEF HoldsOK, WritesOK
  <1>5. NoOwner => NoOwner'
    BY <1>2, <1>3 DEF NoOwner
  <1>6. OwnOK'
    BY <1>1, <1>3, <1>5 DEF OwnOK, Exists, Leaving
  <1>7. Alive(file)' => Alive(file) /\ file.by # p /\ file.by \in Procs
    BY <1>1, <1>3, AimTypes DEF Alive
  <1>8. DeadOK'
    BY <1>1, <1>3, <1>7, AimTypes DEF DeadOK, Exists
  <1>9. NotAbandoned'
    BY <1>1, <1>2, <1>3, <1>7 DEF NotAbandoned, Exists, CallersOf
  <1>10. SharedOK => SharedOK'
    BY <1>2, <1>3, LockAssumption DEF SharedOK
  <1>11. QED  BY <1>4, <1>6, <1>8, <1>9, <1>10 DEF Core

LEMMA LeaveCore ==
    ASSUME Base, Core, NEW p \in Procs, Signal(p) \/ Crash(p)
    PROVE  Core' /\ (SharedOK /\ ~forced' => SharedOK')
  <1>1. TypeOK /\ NumbersOK
    BY DEF Base
  <1>2. /\ held' = [held EXCEPT ![p] = NoHold] /\ UNCHANGED <<life, mine>>
        /\ held'[p] = NoHold /\ \A q \in Procs : q # p => held'[q] = held[q]
    BY <1>1 DEF Signal, Crash, TypeOK
  <1>3. CASE Crash(p)
    BY <1>2, <1>3, DownCore DEF Crash, fileVars
  <1>4. CASE Signal(p) /\ held[p] = NoHold
    <2>1. CASE GoesDown(p)
      BY <1>2, <1>4, <2>1, DownCore DEF Signal, fileVars
    <2>2. CASE UNCHANGED <<up, at, aim, sweep, dog>>
      <3>1. UNCHANGED <<up, life, file, held, mine, at, aim, sweep, dog>>
        BY <1>1, <1>2, <1>4, <2>2 DEF Signal, fileVars, TypeOK
      <3>2. QED
        BY <3>1 DEF Core, HoldsOK, WritesOK, OwnOK, DeadOK, NotAbandoned, SharedOK, NoOwner, Leaving,
                    Exists, Alive, CallersOf
    <2>3. QED  BY <1>4, <2>1, <2>2 DEF Signal
  <1>5. CASE Signal(p) /\ held[p] # NoHold
    <2>1. file'.n = 0
      BY <1>1, <1>5, RemoveFacts DEF Signal
    <2>2. CASE GoesDown(p) /\ forced' = forced
      <3>1. \A c \in Callers : /\ at'[c] \notin {"idle", "done"} => at'[c] = at[c]
                               /\ ProcOf[c] # p => at'[c] = at[c]
                               /\ ProcOf[c] = p => at'[c] \in {"idle", "done"}
        BY <1>1, <2>2, DownTypes
      <3>2. NoOwner'
        <4>1. \A q \in Procs : held'[q] = NoHold
          BY <1>2, <1>5, OneHolder
        <4>2. \A c \in Callers : at'[c] # "writing"
          BY <1>5, <3>1, OneHolder
        <4>3. QED  BY <4>1, <4>2 DEF NoOwner
      <3>3. SharedOK => SharedOK'
        <4>1. ASSUME SharedOK, NEW c \in Callers, at'[c] = "holding"
              PROVE  held'[ProcOf[c]].n = mine'[c]
          <5>1. ProcOf[c] # p /\ ProcOf[c] \in Procs /\ at[c] = "holding"
            BY <3>1, <4>1, LockAssumption
          <5>2. QED  BY <1>2, <4>1, <5>1 DEF SharedOK
        <4>2. QED  BY <4>1 DEF SharedOK
      <3>4. QED  BY <2>1, <3>2, <3>3, EmptyCore
    <2>3. CASE forced' = (forced \/ held[p] # NoHold) /\ UNCHANGED <<up, at, aim, sweep, dog>>
      <3>1. NoOwner'
        BY <1>2, <1>5, <2>3, OneHolder DEF NoOwner
      <3>2. QED  BY <1>5, <2>1, <2>3, <3>1, EmptyCore
    <2>4. QED  BY <1>5, <2>2, <2>3 DEF Signal
  <1>6. QED  BY <1>3, <1>4, <1>5

LEMMA StartCore ==
    ASSUME Base, Core, NEW p \in Procs, Start(p)
    PROVE  Core' /\ (SharedOK => SharedOK')
  <1>1. /\ TypeOK /\ NumbersOK /\ HoldsOK /\ WritesOK /\ OwnOK /\ DeadOK /\ NotAbandoned
        /\ \A c \in Callers : ProcOf[c] \in Procs
    BY LockAssumption DEF Base, Core
  <1>2. /\ ~up[p] /\ life' = [life EXCEPT ![p] = life[p] + 1] /\ up' = [up EXCEPT ![p] = TRUE]
        /\ UNCHANGED <<file, held, at, mine, aim, dog>>
    BY DEF Start, fileVars
  <1>3. /\ held[p] = NoHold /\ life'[p] = life[p] + 1 /\ life[p] \in Nat
        /\ \A q \in Procs : q # p => life'[q] = life[q] /\ up'[q] = up[q] /\ sweep'[q] = sweep[q]
        /\ \A c \in Callers : ProcOf[c] = p => at[c] \in {"idle", "done"}
    BY <1>1, <1>2 DEF TypeOK, CallersOf, Start
  <1>4. sweep'[p].why # "dead"
    BY <1>1, AimTypes DEF TypeOK, Start
  <1>5. Alive(file)' => Alive(file) /\ file.by # p /\ file.by \in Procs
    BY <1>1, <1>2, <1>3, AimTypes DEF Alive, NumbersOK
  <1>6. HoldsOK' /\ WritesOK' /\ OwnOK' /\ (SharedOK => SharedOK')
    BY <1>1, <1>2, <1>3 DEF HoldsOK, WritesOK, OwnOK, NoOwner, Leaving, Exists, SharedOK
  <1>7. DeadOK'
    BY <1>1, <1>2, <1>3, <1>4, <1>5 DEF DeadOK, Exists
  <1>8. NotAbandoned'
    BY <1>1, <1>2, <1>5 DEF NotAbandoned, Exists, CallersOf
  <1>9. QED  BY <1>6, <1>7, <1>8 DEF Core

LEMMA SweepJudgesCore ==
    ASSUME Base, Core, NEW p \in Procs, SweepJudges(p)
    PROVE  Core' /\ (SharedOK => SharedOK')
  <1>1. TypeOK /\ HoldsOK /\ WritesOK /\ OwnOK /\ DeadOK /\ NotAbandoned
    BY DEF Base, Core
  <1>2. UNCHANGED <<up, life, file, held, at, mine, aim, dog>>
    BY DEF SweepJudges, procVars, fileVars
  <1>3. \A q \in Procs : q # p => sweep'[q] = sweep[q]
    BY <1>1 DEF SweepJudges, TypeOK
  <1>4. sweep'[p].why = "dead" => ~Alive(file)
    <2>1. sweep'[p] = IF SweepReason = "none" THEN NoAim ELSE [n |-> file.n, why |-> SweepReason]
      BY <1>1 DEF SweepJudges, TypeOK
    <2>2. sweep'[p].why = "dead" => SweepReason = "dead"
      BY <1>1, <2>1, AimTypes
    <2>3. QED  BY <2>2 DEF SweepReason, PidDead, Alive
  <1>5. HoldsOK' /\ WritesOK' /\ OwnOK' /\ NotAbandoned' /\ (SharedOK => SharedOK')
    BY <1>1, <1>2 DEF HoldsOK, WritesOK, OwnOK, NotAbandoned, NoOwner, Leaving, Exists, Alive, CallersOf,
                      SharedOK
  <1>6. DeadOK'
    BY <1>1, <1>2, <1>3, <1>4 DEF DeadOK, Exists, Alive
  <1>7. QED  BY <1>5, <1>6 DEF Core

LEMMA TickCore ==
    ASSUME Base, Core, Tick
    PROVE  Core' /\ (SharedOK => SharedOK')
  <1>1. TypeOK /\ HoldsOK /\ WritesOK /\ OwnOK /\ DeadOK /\ NotAbandoned
    BY DEF Base, Core
  <1>2. /\ file'.n = file.n /\ file'.by = file.by /\ file'.life = file.life /\ file'.written = file.written
        /\ \A p \in Procs : held'[p].n = held[p].n /\ (held'[p] = NoHold <=> held[p] = NoHold)
        /\ UNCHANGED <<up, life, at, mine, aim, sweep, dog>>
    BY <1>1, TickFacts DEF procVars
  <1>3. HoldsOK' /\ WritesOK'
    BY <1>1, <1>2 DEF HoldsOK, WritesOK
  <1>4. NoOwner' <=> NoOwner
    BY <1>2 DEF NoOwner
  <1>5. OwnOK' /\ DeadOK'
    BY <1>1, <1>2, <1>4 DEF OwnOK, DeadOK, Leaving, Exists, Alive
  <1>6. NotAbandoned'
    BY <1>1, <1>2, AimTypes DEF NotAbandoned, Exists, Alive, CallersOf
  <1>7. SharedOK => SharedOK'
    BY <1>2, LockAssumption DEF SharedOK
  <1>8. QED  BY <1>3, <1>5, <1>6, <1>7 DEF Core

-----------------------------------------------------------------------------
(* The inductive invariant, and what follows from it.                      *)

\* What was taken from a live process is not forgotten.
LEMMA HistoryGrows ==
    ASSUME Base, [Next]_vars
    PROVE  /\ foul' = {} => foul = {}
           /\ ~forced' => ~forced
  <1>1. TypeOK /\ NumbersOK
    BY DEF Base
  <1>2. ASSUME NEW a, Remove(a)
        PROVE  foul \subseteq foul'
    BY <1>1, <1>2, RemoveFacts
  <1>3. ASSUME NEW c \in Callers, Join(c) \/ Acquire(c) \/ CallerStep(c) \/ WriteFails(c) \/ TimeOut(c)
        PROVE  foul \subseteq foul' /\ forced' = forced
    BY <1>2, <1>3 DEF CallerStep, Join, Acquire, Create, WriteSucceeds, WriteFails, Unwind, JudgeStale,
                      Reclaim, TimeOut, Release, RemoveOwn, fileVars
  <1>4. ASSUME NEW p \in Procs, ProcStep(p) \/ Watchdog(p) \/ Signal(p) \/ Crash(p) \/ Start(p)
        PROVE  foul \subseteq foul' /\ (forced => forced')
    <2>1. CASE Signal(p)
      <3>1. foul \subseteq foul'
        BY <1>2, <2>1 DEF Signal, fileVars
      <3>2. forced => forced'
        BY <2>1 DEF Signal
      <3>3. QED  BY <3>1, <3>2
    <2>2. CASE ProcStep(p) \/ Watchdog(p) \/ Crash(p) \/ Start(p)
      BY <1>2, <2>2 DEF ProcStep, Watchdog, WatchdogRemoves, Crash, Start, SweepJudges, SweepRemoves,
                        fileVars
    <2>3. QED  BY <1>4, <2>1, <2>2
  <1>5. CASE Tick
    BY <1>5 DEF Tick
  <1>6. CASE UNCHANGED vars
    BY <1>6 DEF vars, fileVars
  <1>7. QED  BY <1>3, <1>4, <1>5, <1>6 DEF Next

LEMMA CoreStep ==
    ASSUME Base, Core, foul' = {}, [Next]_vars
    PROVE  Core' /\ (SharedOK /\ ~forced' => SharedOK')
  <1>1. CASE \E c \in Callers : Join(c) \/ Acquire(c) \/ CallerStep(c) \/ WriteFails(c) \/ TimeOut(c)
    BY <1>1, JoinCore, QuietCore, CreateCore, WriteCore, WriteFailsCore, RemovalCore, ReleaseCore
    DEF CallerStep
  <1>2. CASE \E p \in Procs : ProcStep(p) \/ Watchdog(p) \/ Signal(p) \/ Crash(p) \/ Start(p)
    BY <1>2, WatchdogCore, WatchdogRemovesCore, LeaveCore, StartCore, SweepJudgesCore DEF ProcStep
  <1>3. CASE Tick
    BY <1>3, TickCore
  <1>4. CASE UNCHANGED vars
    <2>1. UNCHANGED <<up, life, file, held, at, mine, aim, sweep, dog>>
      BY <1>4 DEF vars, procVars, fileVars
    <2>2. QED
      BY <2>1 DEF Core, HoldsOK, WritesOK, OwnOK, DeadOK, NotAbandoned, SharedOK, NoOwner, Leaving,
                  Exists, Alive, CallersOf
  <1>5. QED  BY <1>1, <1>2, <1>3, <1>4 DEF Next

LEMMA InitIInv ==
    Init => IInv
  <1> SUFFICES ASSUME Init PROVE IInv
    OBVIOUS
  <1>1. TypeOK
    <2>1. NoAim \in Aims
      BY DEF NoAim, Aims, Reasons
    <2>2. startTimes \in BOOLEAN
      BY LockAssumption DEF Init
    <2>3. up \in [Procs -> BOOLEAN] /\ life \in [Procs -> Nat] /\ \A p \in Procs : up[p]
      BY DEF Init
    <2>4. /\ file \in [n : Nat, by : Procs, life : Nat, written : BOOLEAN, age : 0..(StaleAfter + 1)]
          /\ created \in Nat /\ failures \in 0..MaxFailures
      BY LockAssumption, NoFileFacts DEF Init
    <2>5. /\ held \in [Procs -> Holds \cup {NoHold}] /\ watched \in [Procs -> BOOLEAN]
          /\ at \in [Callers -> Phases] /\ mine \in [Callers -> Nat]
      BY DEF Init, Phases
    <2>6. /\ aim \in [Callers -> Aims] /\ sweep \in [Procs -> Aims] /\ dog \in [Procs -> Aims]
      BY <2>1 DEF Init
    <2>7. foul \subseteq {"raced", "aged", "swept", "orphan"} /\ forced \in BOOLEAN
      BY DEF Init
    <2>8. QED  BY <2>2, <2>3, <2>4, <2>5, <2>6, <2>7 DEF TypeOK, Phases
  <1>2. file.n = 0 /\ file.life = 0
    BY NoFileFacts DEF Init
  <1>3. NumbersOK /\ AimsOK /\ FreshOK /\ CountsOK
    BY <1>1, <1>2, AimTypes DEF Init, NumbersOK, AimsOK, FreshOK, CountsOK, NoHold, Leaving
  <1>4. Core /\ SharedOK
    BY <1>2 DEF Init, Core, HoldsOK, WritesOK, OwnOK, DeadOK, NotAbandoned, SharedOK, Exists
  <1>5. QED  BY <1>1, <1>3, <1>4 DEF IInv, Base

\* The invariant holds in every state: whatever processes, callers, signals and
\* crashes do.
THEOREM Inductive ==
    Spec => []IInv
  <1>1. IInv /\ [Next]_vars => IInv'
    BY BaseStep, CoreStep, HistoryGrows DEF IInv
  <1>2. QED  BY InitIInv, <1>1, PTL DEF Spec

\* The types, and that a hold has callers and a process that is down has
\* nothing under way.
THEOREM TypeCorrect ==
    Spec => []TypeOK
  <1>1. IInv => TypeOK
    BY DEF IInv, Base
  <1>2. QED  BY Inductive, <1>1, PTL

\* The count of each hold is exact, however many locks were forced before
\* (releaseHeldLock leaves a hold alone that is not the caller's own).
THEOREM CountsExact ==
    Spec => []HoldersCounted
  <1>1. IInv => HoldersCounted
    BY DEF IInv, Base, CountsOK, Sharers, HoldersCounted
  <1>2. QED  BY Inductive, <1>1, PTL

\* As long as no file of a live process was taken, each holder and each writer
\* has its file on the disk.
THEOREM HoldersKeepFile ==
    Spec => []HoldersHaveFile
  <1>1. IInv => HoldersHaveFile
    BY DEF IInv, Core, HoldsOK, WritesOK, HoldersHaveFile
  <1>2. QED  BY Inductive, <1>1, PTL

\* A file of a live process is held, in the making or about to be removed.
THEOREM NoFileAbandoned ==
    Spec => []NoAbandonedFile
  <1>1. IInv => NoAbandonedFile
    BY DEF IInv, Core, NotAbandoned, NoAbandonedFile
  <1>2. QED  BY Inductive, <1>1, PTL

\* Only callers that share one hold write at a time, unless a file of a live
\* process was taken, or a lock was taken from callers that go on.
THEOREM MutualExclusion ==
    Spec => []WritersExclude
  <1>1. IInv => WritersExclude
    <2> SUFFICES ASSUME IInv, foul = {}, ~forced, NEW c \in Callers, NEW d \in Callers,
                        at[c] = "holding", at[d] = "holding"
                 PROVE  mine[c] = mine[d]
      BY DEF WritersExclude
    <2>1. /\ HoldsOK /\ SharedOK /\ AimsOK
          /\ ProcOf[c] \in Procs /\ ProcOf[d] \in Procs
      BY LockAssumption DEF IInv, Core, Base
    <2>2. held[ProcOf[c]].n = mine[c] /\ held[ProcOf[d]].n = mine[d] /\ mine[c] # 0 /\ mine[d] # 0
      BY <2>1 DEF SharedOK, AimsOK
    <2>3. file.n = mine[c] /\ file.n = mine[d]
      BY <2>1, <2>2 DEF HoldsOK, NoHold
    <2>4. QED  BY <2>3
  <1>2. QED  BY Inductive, <1>1, PTL
=============================================================================
