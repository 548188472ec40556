------------------------- MODULE CommandQueueProofs -------------------------
(***************************************************************************)
(* Proofs about CommandQueue for any number of lanes, commands, waiters    *)
(* and resets.                                                             *)
(***************************************************************************)
EXTENDS CommandQueue, SequenceTheorems, TLAPS

-----------------------------------------------------------------------------
(* The inductive invariant.                                                *)

\* Waiting entries are distinct, queued and in the lane they were sent to.
QueueOK ==
    \A l \in Lanes : \A i \in 1..Len(queue[l]) :
        /\ status[queue[l][i]] = "queued"
        /\ home[queue[l][i]] = l
        /\ \A j \in 1..Len(queue[l]) : queue[l][i] = queue[l][j] => i = j

\* A pump frame inside a task body is inside the body of a running task, and
\* no two frames are inside the same one.
FramesOK ==
    \A i \in 1..Len(stack) : stack[i].cmd # NoCmd =>
        /\ status[stack[i].cmd] = "running"
        /\ \A j \in 1..Len(stack) : stack[i].cmd = stack[j].cmd => i = j

\* No task was started in a generation still to come.
GenOK == \A c \in Cmds : taskGen[c] <= generation[home[c]]

OnStack(l) == \E i \in 1..Len(stack) : stack[i].lane = l

\* The draining guard is up only while a pump of the lane is in progress, and
\* work that could start has such a pump, or resetAllLanes, still to come.
PumpCovers ==
    /\ \A l \in Lanes : draining[l] => OnStack(l)
    /\ \A l \in Lanes : Startable(l) => OnStack(l) \/ l \in toDrain
    /\ toDrain # {} => resetting

\* A waiter waits for tasks that have been started, and outside a reset for
\* one that still occupies a slot.
WaitersOK ==
    \A w \in Waiters :
        /\ \A c \in waiter[w].ids : status[c] \notin {"new", "queued"}
        /\ waiter[w].st = "waiting" =>
              resetting \/ (\E c \in waiter[w].ids, l \in Lanes : c \in active[l])
        /\ waiter[w].st = "drained" =>
              \A c \in waiter[w].ids, l \in Lanes : c \notin active[l]

IInv ==
    /\ TypeOK
    /\ QueueOK
    /\ FramesOK
    /\ ActiveExact
    /\ GenOK
    /\ PumpCovers
    /\ WaitersOK
-----------------------------------------------------------------------------

LEMMA TailFacts ==
    ASSUME NEW S, NEW s \in Seq(S), s # <<>>
    PROVE  /\ Len(s) \in Nat \ {0}
           /\ Head(s) \in S
           /\ Head(s) = s[1]
           /\ Tail(s) \in Seq(S)
           /\ Len(Tail(s)) = Len(s) - 1
           /\ \A i \in 1..(Len(s) - 1) : Tail(s)[i] = s[i + 1]
  OBVIOUS

LEMMA PopFacts ==
    ASSUME NEW S, NEW s \in Seq(S), s # <<>>
    PROVE  /\ Len(s) \in Nat \ {0}
           /\ SubSeq(s, 1, Len(s) - 1) \in Seq(S)
           /\ Len(SubSeq(s, 1, Len(s) - 1)) = Len(s) - 1
           /\ \A i \in 1..(Len(s) - 1) : SubSeq(s, 1, Len(s) - 1)[i] = s[i]
           /\ s[Len(s)] \in S
  <1>1. Len(s) \in Nat \ {0} /\ \A i \in 1..(Len(s) - 1) : s[i] \in S
    OBVIOUS
  <1> DEFINE n == Len(s) - 1
  <1>2. /\ SubSeq(s, 1, n) \in Seq(S)
        /\ Len(SubSeq(s, 1, n)) = IF 1 <= n THEN n - 1 + 1 ELSE 0
        /\ \A i \in 1..(n - 1 + 1) : SubSeq(s, 1, n)[i] = s[1 + i - 1]
    <2>1. n \in Int /\ 1 \in Int  BY <1>1
    <2> HIDE DEF n
    <2> QED BY <1>1, <2>1, SubSeqProperties DEF n
  <1>3. s[Len(s)] \in S  BY <1>1
  <1>4. n \in Nat /\ Len(SubSeq(s, 1, n)) = n
    <2>1. n \in Nat  BY <1>1
    <2>2. (IF 1 <= n THEN n - 1 + 1 ELSE 0) = n
      <3> HIDE DEF n
      <3> QED BY <2>1
    <2> QED BY <2>1, <2>2, <1>2
  <1>5. \A i \in 1..n : SubSeq(s, 1, n)[i] = s[i]
    <2> TAKE i \in 1..n
    <2>1. i \in 1..(n - 1 + 1) /\ 1 + i - 1 = i  BY <1>4
    <2>2. SubSeq(s, 1, n)[i] = s[1 + i - 1]  BY <2>1, <1>2
    <2> QED BY <2>1, <2>2
  <1> QED BY <1>1, <1>2, <1>3, <1>4, <1>5

\* Entering or leaving a task body changes one field of one frame.
LEMMA InBodyFacts ==
    ASSUME TypeOK, stack # <<>>, NEW c \in Cmds \cup {NoCmd}
    PROVE  /\ Len(stack) \in Nat \ {0}
           /\ Top \in Frame
           /\ InBody(c) \in Seq(Frame)
           /\ Len(InBody(c)) = Len(stack)
           /\ \A i \in 1..Len(stack) : InBody(c)[i].lane = stack[i].lane
           /\ \A i \in 1..Len(stack) :
                 InBody(c)[i].cmd = IF i = Len(stack) THEN c ELSE stack[i].cmd
  <1>1. stack \in Seq(Frame)  BY DEF TypeOK
  <1>2. Len(stack) \in Nat \ {0} /\ Top \in Frame
    BY <1>1, PopFacts DEF Top
  <1>3. InBody(c) = [i \in 1..Len(stack) |->
                       IF i = Len(stack) THEN [stack[i] EXCEPT !.cmd = c]
                                         ELSE stack[i]]
    BY <1>1, <1>2 DEF InBody
  <1>4. \A i \in 1..Len(stack) : stack[i] \in Frame
    BY <1>1
  <1>5. \A i \in 1..Len(stack) : InBody(c)[i] \in Frame
    BY <1>3, <1>4 DEF Frame
  <1>6. InBody(c) \in Seq(Frame)
    BY <1>1, <1>3, <1>5
  <1> QED BY <1>1, <1>2, <1>3, <1>4, <1>6 DEF Frame

LEMMA FrameCmd ==
    ASSUME TypeOK
    PROVE  \A i \in 1..Len(stack) :
              /\ stack[i].lane \in Lanes
              /\ stack[i].cmd # NoCmd => stack[i].cmd \in Cmds
  <1>1. \A i \in 1..Len(stack) : stack[i] \in Frame  BY DEF TypeOK
  <1> QED BY <1>1 DEF Frame

LEMMA QueueCmd ==
    ASSUME TypeOK
    PROVE  \A l \in Lanes : \A i \in 1..Len(queue[l]) : queue[l][i] \in Cmds
  BY DEF TypeOK

LEMMA AllActiveMember == \A x : x \in AllActive <=> \E l \in Lanes : x \in active[l]
  BY DEF AllActive

\* A new pump frame of lane l is put on the stack stk.
LEMMA PushFacts ==
    ASSUME NEW l \in Lanes, NEW stk \in Seq(Frame),
           stack' = Append(stk, [lane |-> l, cmd |-> NoCmd])
    PROVE  /\ stack' \in Seq(Frame)
           /\ Len(stack') = Len(stk) + 1
           /\ \A i \in 1..Len(stk) : stack'[i] = stk[i]
           /\ stack'[Len(stk) + 1].lane = l
           /\ stack'[Len(stk) + 1].cmd = NoCmd
  <1>1. [lane |-> l, cmd |-> NoCmd] \in Frame  BY DEF Frame
  <1> QED BY <1>1, AppendProperties

\* drainLane leaves a pump of the lane in progress, whatever the guard says,
\* and adds no frame that is inside a task body.
LEMMA DrainLaneFacts ==
    ASSUME TypeOK, \A k \in Lanes : draining[k] => OnStack(k),
           NEW l \in Lanes, DrainLane(l, stack)
    PROVE  /\ stack' \in Seq(Frame)
           /\ draining' \in [Lanes -> BOOLEAN]
           /\ OnStack(l)'
           /\ \A k \in Lanes : OnStack(k) => OnStack(k)'
           /\ \A k \in Lanes : draining'[k] => OnStack(k)'
           /\ \A i \in 1..Len(stack') : stack'[i].cmd # NoCmd =>
                 i \in 1..Len(stack) /\ stack'[i] = stack[i]
  <1> stack \in Seq(Frame) /\ draining \in [Lanes -> BOOLEAN]
    BY DEF TypeOK
  <1>1. CASE draining[l]
    BY <1>1 DEF DrainLane, OnStack
  <1>2. CASE ~draining[l]
    <2>1. /\ stack' = Append(stack, [lane |-> l, cmd |-> NoCmd])
          /\ draining' = [draining EXCEPT ![l] = TRUE]
      BY <1>2 DEF DrainLane
    <2>2. /\ stack' \in Seq(Frame)
          /\ Len(stack') = Len(stack) + 1
          /\ \A i \in 1..Len(stack) : stack'[i] = stack[i]
          /\ stack'[Len(stack) + 1].lane = l
          /\ stack'[Len(stack) + 1].cmd = NoCmd
      BY <2>1, PushFacts
    <2>3. Len(stack) \in Nat  OBVIOUS
    <2>4. OnStack(l)'  BY <2>2, <2>3 DEF OnStack
    <2>5. \A k \in Lanes : OnStack(k) => OnStack(k)'
      BY <2>2, <2>3 DEF OnStack
    <2> QED BY <2>1, <2>2, <2>3, <2>4, <2>5
  <1> QED BY <1>1, <1>2

\* Frames stay inside distinct running tasks when no frame enters a body and
\* the tasks whose bodies are on the stack keep running.
LEMMA FramesKept ==
    ASSUME TypeOK, FramesOK,
           \A i \in 1..Len(stack') : stack'[i].cmd # NoCmd =>
              /\ i \in 1..Len(stack)
              /\ stack'[i].cmd = stack[i].cmd
              /\ status[stack[i].cmd] = "running" =>
                    status'[stack[i].cmd] = "running"
    PROVE  FramesOK'
  <1> SUFFICES ASSUME NEW i \in 1..Len(stack'), stack'[i].cmd # NoCmd
               PROVE  /\ status'[stack'[i].cmd] = "running"
                      /\ \A j \in 1..Len(stack') :
                            stack'[i].cmd = stack'[j].cmd => i = j
    BY DEF FramesOK
  <1>1. i \in 1..Len(stack) /\ stack'[i].cmd = stack[i].cmd
    OBVIOUS
  <1>2. status[stack[i].cmd] = "running"
    BY <1>1 DEF FramesOK
  <1>3. status'[stack'[i].cmd] = "running"
    BY <1>1, <1>2
  <1> QED BY <1>1, <1>3 DEF FramesOK

-----------------------------------------------------------------------------
LEMMA InitIInv == Init => IInv
  <1> SUFFICES ASSUME Init PROVE IInv
    OBVIOUS
  <1>1. TypeOK
    <2>1. status \in [Cmds -> Status] /\ stack \in Seq(Frame)
      BY DEF Init, Status
    <2>2. waiter \in [Waiters -> [st : {"idle", "waiting", "drained", "timedOut"},
                                 ids : SUBSET Cmds]]
      BY DEF Init
    <2>3. queue \in [Lanes -> Seq(Cmds)] /\ active \in [Lanes -> SUBSET Cmds]
      BY DEF Init
    <2>4. /\ maxConcurrent \in [Lanes -> Nat \ {0}]
          /\ generation \in [Lanes -> Nat]
          /\ taskGen \in [Cmds -> Nat]
      BY DEF Init
    <2>5. draining \in [Lanes -> BOOLEAN] /\ home \in [Cmds -> Lanes]
      BY DEF Init
    <2>6. gatewayDraining \in BOOLEAN /\ resetting \in BOOLEAN /\ toDrain \in SUBSET Lanes
      BY DEF Init
    <2> QED BY <2>1, <2>2, <2>3, <2>4, <2>5, <2>6 DEF TypeOK
  <1>2. QueueOK /\ FramesOK /\ ActiveExact /\ GenOK
    BY DEF Init, QueueOK, FramesOK, ActiveExact, GenOK
  <1>3. PumpCovers
    BY DEF Init, PumpCovers, Startable
  <1>4. WaitersOK
    BY DEF Init, WaitersOK
  <1> QED BY <1>1, <1>2, <1>3, <1>4 DEF IInv

LEMMA EnqueueIInv ==
    ASSUME IInv, NEW c \in Cmds, EnqueueCommandInLane(c)
    PROVE  IInv'
  <1> DEFINE l == home[c]
  <1> USE DEF IInv
  <1>0. TypeOK  OBVIOUS
  <1>1. l \in Lanes /\ queue[l] \in Seq(Cmds) /\ Len(queue[l]) \in Nat
    BY <1>0 DEF TypeOK
  <1>2. /\ queue' = [queue EXCEPT ![l] = Append(queue[l], c)]
        /\ status[c] = "new"
        /\ status' = [status EXCEPT ![c] = "queued"]
        /\ DrainLane(l, stack)
        /\ UNCHANGED <<gatewayDraining, active, maxConcurrent, generation,
                       resetting, toDrain, home, taskGen, waiter>>
    BY DEF EnqueueCommandInLane
  <1>3. /\ Append(queue[l], c) \in Seq(Cmds)
        /\ Len(Append(queue[l], c)) = Len(queue[l]) + 1
        /\ \A i \in 1..Len(queue[l]) : Append(queue[l], c)[i] = queue[l][i]
        /\ Append(queue[l], c)[Len(queue[l]) + 1] = c
    BY <1>1, AppendProperties
  <1>4. /\ stack' \in Seq(Frame)
        /\ draining' \in [Lanes -> BOOLEAN]
        /\ OnStack(l)'
        /\ \A k \in Lanes : OnStack(k) => OnStack(k)'
        /\ \A k \in Lanes : draining'[k] => OnStack(k)'
        /\ \A i \in 1..Len(stack') : stack'[i].cmd # NoCmd =>
              i \in 1..Len(stack) /\ stack'[i] = stack[i]
    BY <1>0, <1>1, <1>2, DrainLaneFacts DEF PumpCovers
  <1>5. TypeOK'
    BY <1>0, <1>1, <1>2, <1>3, <1>4 DEF TypeOK, Status
  <1>6. QueueOK'
    <2> SUFFICES ASSUME NEW k \in Lanes, NEW i \in 1..Len(queue'[k])
                 PROVE  /\ status'[queue'[k][i]] = "queued"
                        /\ home'[queue'[k][i]] = k
                        /\ \A j \in 1..Len(queue'[k]) :
                              queue'[k][i] = queue'[k][j] => i = j
      BY DEF QueueOK
    <2>1. \A m \in Lanes : \A j \in 1..Len(queue[m]) : queue[m][j] \in Cmds
      BY <1>0 DEF TypeOK
    <2>2. CASE k = l
      <3>1. queue'[k] = Append(queue[l], c)
        BY <2>2, <1>0, <1>1, <1>2 DEF TypeOK
      <3>2. \A j \in 1..Len(queue[l]) : queue[l][j] # c
        BY <1>1, <1>2 DEF QueueOK
      <3>3. CASE i = Len(queue[l]) + 1
        <4>1. queue'[k][i] = c
          BY <3>1, <3>3, <1>3
        <4>2. status'[c] = "queued" /\ home'[c] = k
          BY <2>2, <1>0, <1>2 DEF TypeOK
        <4>3. ASSUME NEW j \in 1..Len(queue'[k]), queue'[k][j] = c
              PROVE  j = i
          <5>1. j \in 1..(Len(queue[l]) + 1)  BY <3>1, <1>3
          <5>2. j \notin 1..Len(queue[l])  BY <3>1, <3>2, <4>3, <1>3
          <5> QED BY <5>1, <5>2, <3>3, <1>1
        <4> QED BY <4>1, <4>2, <4>3
      <3>4. CASE i \in 1..Len(queue[l])
        <4>1. queue'[k][i] = queue[l][i] /\ queue[l][i] \in Cmds
          BY <3>1, <3>4, <2>1, <1>1, <1>3
        <4>2. status[queue[l][i]] = "queued" /\ home[queue[l][i]] = l
          BY <3>4, <1>1 DEF QueueOK
        <4>3. ASSUME NEW j \in 1..Len(queue'[k]), queue'[k][i] = queue'[k][j]
              PROVE  i = j
          <5>1. j \in 1..(Len(queue[l]) + 1)  BY <3>1, <1>3
          <5>2. j # Len(queue[l]) + 1  BY <3>1, <3>2, <3>4, <4>1, <4>3, <1>3
          <5>3. j \in 1..Len(queue[l])  BY <5>1, <5>2, <1>1
          <5>4. queue[l][i] = queue[l][j]  BY <5>3, <4>1, <4>3, <3>1, <1>3
          <5> QED BY <5>3, <5>4, <3>4, <1>1 DEF QueueOK
        <4> QED BY <4>1, <4>2, <4>3, <2>2, <1>0, <1>2 DEF TypeOK
      <3> QED BY <3>1, <3>3, <3>4, <1>1, <1>3
    <2>3. CASE k # l
      <3>1. queue'[k] = queue[k]
        BY <2>3, <1>0, <1>1, <1>2 DEF TypeOK
      <3>2. i \in 1..Len(queue[k])
        BY <3>1
      <3>3. /\ status[queue[k][i]] = "queued"
            /\ home[queue[k][i]] = k
            /\ \A j \in 1..Len(queue[k]) : queue[k][i] = queue[k][j] => i = j
        BY <3>2 DEF QueueOK
      <3>4. queue[k][i] \in Cmds /\ queue[k][i] # c
        BY <3>2, <3>3, <2>1, <1>2
      <3>5. status'[queue[k][i]] = "queued" /\ home' = home
        BY <3>3, <3>4, <1>0, <1>2 DEF TypeOK
      <3> QED BY <3>1, <3>3, <3>5
    <2> QED BY <2>2, <2>3
  <1>7. FramesOK'
    BY <1>0, <1>2, <1>4, FramesKept DEF TypeOK
  <1>8. ActiveExact'
    BY <1>0, <1>2 DEF ActiveExact, TypeOK
  <1>9. PumpCovers'
    BY <1>0, <1>1, <1>2, <1>4 DEF PumpCovers, Startable, TypeOK
  <1>10. WaitersOK'
    BY <1>0, <1>2 DEF WaitersOK, TypeOK
  <1>11. GenOK'
    BY <1>2 DEF GenOK
  <1> QED BY <1>5, <1>6, <1>7, <1>8, <1>9, <1>10, <1>11

\* A command that never reached a queue changes nothing but its own status.
LEMMA RefuseIInv ==
    ASSUME IInv, NEW c \in Cmds, RefuseEnqueue(c)
    PROVE  IInv'
  <1> USE DEF IInv
  <1>0. TypeOK  OBVIOUS
  <1>1. /\ status[c] = "new"
        /\ status' = [status EXCEPT ![c] = "refused"]
        /\ UNCHANGED <<queueVars, home, taskGen, waiter>>
    BY DEF RefuseEnqueue
  <1> USE DEF queueVars
  <1>2. TypeOK'
    BY <1>0, <1>1 DEF TypeOK, Status, Settled
  <1>3. QueueOK'
    <2>1. \A l \in Lanes : \A i \in 1..Len(queue[l]) : queue[l][i] # c
      BY <1>1 DEF QueueOK
    <2> QED BY <2>1, <1>0, <1>1 DEF QueueOK, TypeOK
  <1>4. FramesOK'
    BY <1>0, <1>1, FramesKept DEF TypeOK
  <1>5. ActiveExact' /\ GenOK'
    BY <1>0, <1>1 DEF ActiveExact, GenOK, TypeOK
  <1>6. PumpCovers'
    BY <1>1 DEF PumpCovers, Startable, OnStack
  <1>7. WaitersOK'
    BY <1>0, <1>1 DEF WaitersOK, TypeOK
  <1> QED BY <1>2, <1>3, <1>4, <1>5, <1>6, <1>7

LEMMA ConcurrencyIInv ==
    ASSUME IInv, NEW l \in Lanes, NEW n \in Requested,
           SetCommandLaneConcurrency(l, n)
    PROVE  IInv'
  <1> USE DEF IInv
  <1>0. TypeOK  OBVIOUS
  <1>1. /\ maxConcurrent' = [maxConcurrent EXCEPT ![l] = AtLeastOne(n)]
        /\ DrainLane(l, stack)
        /\ UNCHANGED <<gatewayDraining, queue, active, generation, resetting,
                       toDrain, status, home, taskGen, waiter>>
    BY DEF SetCommandLaneConcurrency
  <1>2. AtLeastOne(n) \in Nat \ {0}
    BY ConstantsAssumption DEF AtLeastOne
  <1>3. /\ stack' \in Seq(Frame)
        /\ draining' \in [Lanes -> BOOLEAN]
        /\ OnStack(l)'
        /\ \A k \in Lanes : OnStack(k) => OnStack(k)'
        /\ \A k \in Lanes : draining'[k] => OnStack(k)'
        /\ \A i \in 1..Len(stack') : stack'[i].cmd # NoCmd =>
              i \in 1..Len(stack) /\ stack'[i] = stack[i]
    BY <1>0, <1>1, DrainLaneFacts DEF PumpCovers
  <1>4. TypeOK'
    BY <1>0, <1>1, <1>2, <1>3 DEF TypeOK
  <1>5. QueueOK' /\ ActiveExact' /\ GenOK' /\ WaitersOK'
    BY <1>1 DEF QueueOK, ActiveExact, GenOK, WaitersOK
  <1>6. FramesOK'
    BY <1>0, <1>1, <1>3, FramesKept
  <1>7. PumpCovers'
    BY <1>0, <1>1, <1>3 DEF PumpCovers, Startable, TypeOK
  <1> QED BY <1>4, <1>5, <1>6, <1>7

LEMMA ClearIInv ==
    ASSUME IInv, NEW l \in Lanes, ClearCommandLane(l)
    PROVE  IInv'
  <1> USE DEF IInv
  <1>0. TypeOK  OBVIOUS
  <1> DEFINE In(c) == \E i \in 1..Len(queue[l]) : queue[l][i] = c
  <1>1. /\ queue' = [queue EXCEPT ![l] = <<>>]
        /\ status' = [c \in Cmds |-> IF In(c) THEN "cleared" ELSE status[c]]
        /\ UNCHANGED <<gatewayDraining, active, maxConcurrent, draining,
                       generation, stack, resetting, toDrain, home, taskGen,
                       waiter>>
    BY DEF ClearCommandLane
  <1>2. \A c \in Cmds : In(c) => status[c] = "queued" /\ home[c] = l
    BY DEF QueueOK
  <1> HIDE DEF In
  <1>3. TypeOK'
    <2>1. \A c \in Cmds : status'[c] \in Status
      BY <1>0, <1>1 DEF TypeOK, Status, Settled
    <2>2. status' \in [Cmds -> Status]
      BY <2>1, <1>1
    <2>3. queue' \in [Lanes -> Seq(Cmds)]
      BY <1>0, <1>1 DEF TypeOK
    <2> QED BY <2>2, <2>3, <1>0, <1>1 DEF TypeOK
  <1>4. QueueOK'
    <2> SUFFICES ASSUME NEW k \in Lanes, NEW i \in 1..Len(queue'[k])
                 PROVE  /\ status'[queue'[k][i]] = "queued"
                        /\ home'[queue'[k][i]] = k
                        /\ \A j \in 1..Len(queue'[k]) :
                              queue'[k][i] = queue'[k][j] => i = j
      BY DEF QueueOK
    <2>1. k # l
      BY <1>0, <1>1 DEF TypeOK
    <2>2. queue'[k] = queue[k]
      BY <2>1, <1>0, <1>1 DEF TypeOK
    <2>3. i \in 1..Len(queue[k]) /\ queue[k] \in Seq(Cmds)
      BY <2>2, <1>0 DEF TypeOK
    <2>4. queue[k][i] \in Cmds /\ home[queue[k][i]] = k
      BY <2>3 DEF QueueOK
    <2>5. ~In(queue[k][i])
      BY <2>1, <2>4, <1>2
    <2> QED BY <2>2, <2>3, <2>4, <2>5, <1>1 DEF QueueOK
  <1>5. FramesOK'
    BY <1>0, <1>1, <1>2, FrameCmd, FramesKept
  <1>6. ActiveExact' /\ GenOK'
    BY <1>0, <1>1, <1>2 DEF ActiveExact, GenOK, TypeOK
  <1>7. PumpCovers'
    BY <1>0, <1>1 DEF PumpCovers, Startable, OnStack, TypeOK
  <1>8. WaitersOK'
    BY <1>0, <1>1, <1>2 DEF WaitersOK, TypeOK
  <1> QED BY <1>3, <1>4, <1>5, <1>6, <1>7, <1>8

LEMMA MarkIInv ==
    ASSUME IInv, MarkGatewayDraining
    PROVE  IInv'
  BY DEF IInv, MarkGatewayDraining, TypeOK, QueueOK, FramesOK, ActiveExact,
         GenOK, PumpCovers, Startable, OnStack, WaitersOK

\* Waiters released by a notification have no task left in acts, the others do.
LEMMA NotifyFacts ==
    ASSUME NEW acts, NEW ws \in [Waiters -> [st : {"idle", "waiting", "drained",
                                                 "timedOut"},
                                            ids : SUBSET Cmds]]
    PROVE  /\ Notify(ws, acts) \in [Waiters -> [st : {"idle", "waiting", "drained",
                                                    "timedOut"},
                                               ids : SUBSET Cmds]]
           /\ \A w \in Waiters :
                /\ Notify(ws, acts)[w].ids = ws[w].ids
                /\ Notify(ws, acts)[w].st = "waiting" =>
                      ws[w].st = "waiting" /\ ws[w].ids \cap acts # {}
                /\ Notify(ws, acts)[w].st = "drained" =>
                      ws[w].st = "drained" \/ ws[w].ids \cap acts = {}
  BY DEF Notify

LEMMA WaitIInv ==
    ASSUME IInv, NEW w \in Waiters, NEW timed \in BOOLEAN,
           WaitForActiveTasks(w, timed)
    PROVE  IInv'
  <1> USE DEF IInv
  <1>0. TypeOK  OBVIOUS
  <1> DEFINE W == [st : {"idle", "waiting", "drained", "timedOut"}, ids : SUBSET Cmds]
  <1> DEFINE wait == [waiter EXCEPT ![w] = [st |-> "waiting", ids |-> AllActive]]
  <1>1. UNCHANGED <<queueVars, status, home, taskGen>>
    BY DEF WaitForActiveTasks
  <1>2. waiter \in [Waiters -> W] /\ AllActive \in SUBSET Cmds
    BY <1>0, AllActiveMember DEF TypeOK
  <1>3. \A c \in AllActive : status[c] = "running"
    BY AllActiveMember DEF ActiveExact
  <1>4. waiter' \in [Waiters -> W] /\ WaitersOK'
    <2>1. CASE AllActive = {}
      <3>1. waiter' = [waiter EXCEPT ![w].st = "drained"]
        BY <2>1 DEF WaitForActiveTasks
      <3>2. \A l \in Lanes : active[l] = {}
        BY <2>1, AllActiveMember
      <3> QED BY <3>1, <3>2, <1>1, <1>2 DEF WaitersOK, queueVars
    <2>2. CASE AllActive # {} /\ ~timed
      <3>1. waiter' = [waiter EXCEPT ![w] = [st |-> "timedOut", ids |-> AllActive]]
        BY <2>2 DEF WaitForActiveTasks
      <3> QED BY <3>1, <1>1, <1>2, <1>3 DEF WaitersOK, queueVars
    <2>3. CASE AllActive # {} /\ timed
      <3>1. waiter' = Notify(wait, AllActive)
        BY <2>3 DEF WaitForActiveTasks
      <3>2. wait \in [Waiters -> W]
        BY <1>2
      <3> HIDE DEF wait
      <3>3. /\ waiter' \in [Waiters -> W]
            /\ \A v \in Waiters :
                 /\ waiter'[v].ids = wait[v].ids
                 /\ waiter'[v].st = "waiting" => wait[v].ids \cap AllActive # {}
                 /\ waiter'[v].st = "drained" =>
                      wait[v].st = "drained" \/ wait[v].ids \cap AllActive = {}
        BY <3>1, <3>2, NotifyFacts
      <3>4. \A v \in Waiters : \A c \in wait[v].ids : status[c] \notin {"new", "queued"}
        BY <1>2, <1>3 DEF wait, WaitersOK
      <3>5. \A v \in Waiters : wait[v].st = "drained" => wait[v] = waiter[v]
        BY <1>2 DEF wait
      <3> QED BY <3>3, <3>4, <3>5, <1>1, AllActiveMember DEF WaitersOK, queueVars
    <2> QED BY <2>1, <2>2, <2>3
  <1> QED BY <1>1, <1>4 DEF queueVars, TypeOK, QueueOK, FramesOK, ActiveExact,
             GenOK, PumpCovers, Startable, OnStack

LEMMA TimeoutIInv ==
    ASSUME IInv, NEW w \in Waiters, WaiterTimeout(w)
    PROVE  IInv'
  <1> USE DEF IInv
  <1>1. /\ waiter' = [waiter EXCEPT ![w].st = "timedOut"]
        /\ UNCHANGED <<queueVars, status, home, taskGen>>
    BY DEF WaiterTimeout
  <1>2. TypeOK'
    BY <1>1 DEF TypeOK, queueVars
  <1>3. WaitersOK'
    BY <1>1 DEF WaitersOK, TypeOK, queueVars
  <1> QED BY <1>1, <1>2, <1>3 DEF queueVars, QueueOK, FramesOK, ActiveExact,
             GenOK, PumpCovers, Startable, OnStack

-----------------------------------------------------------------------------
LEMMA PumpStartIInv ==
    ASSUME IInv, PumpStart
    PROVE  IInv'
  <1> USE DEF IInv
  <1>0. TypeOK  OBVIOUS
  <1> DEFINE l == Top.lane
             c == Head(queue[l])
  <1>1. /\ stack # <<>>
        /\ queue[l] # <<>>
        /\ queue' = [queue EXCEPT ![l] = Tail(queue[l])]
        /\ active' = [active EXCEPT ![l] = active[l] \cup {c}]
        /\ status' = [status EXCEPT ![c] = "running"]
        /\ taskGen' = [taskGen EXCEPT ![c] = generation[l]]
        /\ stack' = InBody(c)
        /\ UNCHANGED <<gatewayDraining, maxConcurrent, draining, generation,
                       resetting, toDrain, home, waiter>>
    BY DEF PumpStart
  <1>2. l \in Lanes
    BY <1>0, <1>1, FrameCmd, PopFacts DEF Top, TypeOK
  <1>3. /\ queue[l] \in Seq(Cmds)
        /\ Len(queue[l]) \in Nat \ {0}
        /\ c \in Cmds
        /\ c = queue[l][1]
        /\ Tail(queue[l]) \in Seq(Cmds)
        /\ Len(Tail(queue[l])) = Len(queue[l]) - 1
        /\ \A i \in 1..(Len(queue[l]) - 1) : Tail(queue[l])[i] = queue[l][i + 1]
    <2>1. queue[l] \in Seq(Cmds)  BY <1>0, <1>2 DEF TypeOK
    <2> QED BY <2>1, <1>1, TailFacts
  <1>4. status[c] = "queued" /\ home[c] = l
    BY <1>2, <1>3 DEF QueueOK
  <1>5. /\ Len(stack) \in Nat \ {0}
        /\ stack' \in Seq(Frame)
        /\ Len(stack') = Len(stack)
        /\ \A i \in 1..Len(stack) : stack'[i].lane = stack[i].lane
        /\ \A i \in 1..Len(stack) :
              stack'[i].cmd = IF i = Len(stack) THEN c ELSE stack[i].cmd
    BY <1>0, <1>1, <1>3, InBodyFacts
  <1> HIDE DEF l, c
  <1>6. TypeOK'
    BY <1>0, <1>1, <1>2, <1>3, <1>5 DEF TypeOK, Status
  <1>7. QueueOK'
    <2> SUFFICES ASSUME NEW k \in Lanes, NEW i \in 1..Len(queue'[k])
                 PROVE  /\ status'[queue'[k][i]] = "queued"
                        /\ home'[queue'[k][i]] = k
                        /\ \A j \in 1..Len(queue'[k]) :
                              queue'[k][i] = queue'[k][j] => i = j
      BY DEF QueueOK
    <2>1. CASE k = l
      <3>1. queue'[k] = Tail(queue[l])
        BY <2>1, <1>0, <1>1, <1>2 DEF TypeOK
      <3>2. \A j \in 1..Len(queue'[k]) :
              j + 1 \in 1..Len(queue[l]) /\ queue'[k][j] = queue[l][j + 1]
        BY <3>1, <1>3
      <3>3. \A j \in 1..Len(queue'[k]) : queue'[k][j] # c
        <4> TAKE j \in 1..Len(queue'[k])
        <4>1. j + 1 # 1 /\ 1 \in 1..Len(queue[l])  BY <1>3
        <4> QED BY <4>1, <3>2, <1>2, <1>3 DEF QueueOK
      <3>4. status'[queue'[k][i]] = "queued" /\ home'[queue'[k][i]] = k
        <4>1. queue'[k][i] \in Cmds /\ status[queue'[k][i]] = "queued"
                /\ home[queue'[k][i]] = l
          <5>1. i + 1 \in 1..Len(queue[l]) /\ queue'[k][i] = queue[l][i + 1]
            BY <3>2
          <5>2. queue[l][i + 1] \in Cmds
            BY <5>1, <1>0, <1>2, QueueCmd
          <5>3. status[queue[l][i + 1]] = "queued" /\ home[queue[l][i + 1]] = l
            BY <5>1, <1>2 DEF QueueOK
          <5> QED BY <5>1, <5>2, <5>3
        <4> QED BY <4>1, <3>3, <2>1, <1>0, <1>1 DEF TypeOK
      <3>5. ASSUME NEW j \in 1..Len(queue'[k]), queue'[k][i] = queue'[k][j]
            PROVE  i = j
        <4>1. i + 1 = j + 1  BY <3>2, <3>5, <1>2 DEF QueueOK
        <4> QED BY <4>1
      <3> QED BY <3>4, <3>5
    <2>2. CASE k # l
      <3>1. queue'[k] = queue[k]
        BY <2>2, <1>0, <1>1, <1>2 DEF TypeOK
      <3>2. /\ queue[k][i] # c
            /\ queue[k][i] \in Cmds
            /\ status[queue[k][i]] = "queued"
            /\ home[queue[k][i]] = k
        BY <3>1, <2>2, <1>0, <1>4, QueueCmd DEF QueueOK
      <3>3. status'[queue'[k][i]] = "queued" /\ home'[queue'[k][i]] = k
        BY <3>1, <3>2, <1>0, <1>1 DEF TypeOK
      <3> QED BY <3>1, <3>3 DEF QueueOK
    <2> QED BY <2>1, <2>2
  <1>8. FramesOK'
    <2> SUFFICES ASSUME NEW i \in 1..Len(stack'), stack'[i].cmd # NoCmd
                 PROVE  /\ status'[stack'[i].cmd] = "running"
                        /\ \A j \in 1..Len(stack') :
                              stack'[i].cmd = stack'[j].cmd => i = j
      BY DEF FramesOK
    <2>1. \A j \in 1..Len(stack) : stack[j].cmd # NoCmd =>
             stack[j].cmd # c /\ stack[j].cmd \in Cmds
      BY <1>0, <1>4, FrameCmd DEF FramesOK
    <2>2. c # NoCmd  BY <1>3, ConstantsAssumption
    <2>3. CASE i = Len(stack)
      BY <2>1, <2>2, <2>3, <1>0, <1>1, <1>3, <1>5 DEF TypeOK
    <2>4. CASE i # Len(stack)
      <3>1. i \in 1..Len(stack) /\ stack'[i].cmd = stack[i].cmd
        BY <2>4, <1>5
      <3>2. status[stack[i].cmd] = "running" /\ stack[i].cmd \in Cmds /\ stack[i].cmd # c
        BY <3>1, <2>1 DEF FramesOK
      <3>3. status'[stack'[i].cmd] = "running"
        BY <3>1, <3>2, <1>0, <1>1 DEF TypeOK
      <3> QED BY <3>1, <3>2, <3>3, <1>5 DEF FramesOK
    <2> QED BY <2>3, <2>4
  <1>9. ActiveExact'
    BY <1>0, <1>1, <1>2, <1>3, <1>4 DEF ActiveExact, TypeOK
  <1>10. PumpCovers'
    <2>1. \A k : OnStack(k) <=> OnStack(k)'
      BY <1>5 DEF OnStack
    <2>2. OnStack(l)
      BY <1>5 DEF OnStack, l, Top
    <2>3. \A k \in Lanes : k # l /\ Startable(k)' => Startable(k)
      BY <1>0, <1>1, <1>2 DEF Startable, TypeOK
    <2> QED BY <2>1, <2>2, <2>3, <1>1 DEF PumpCovers
  <1>11. WaitersOK'
    BY <1>0, <1>1, <1>2, <1>3, <1>4 DEF WaitersOK, TypeOK
  <1>12. GenOK'
    BY <1>0, <1>1, <1>2, <1>3, <1>4 DEF GenOK, TypeOK
  <1> QED BY <1>6, <1>7, <1>8, <1>9, <1>10, <1>11, <1>12

LEMMA PumpExitIInv ==
    ASSUME IInv, PumpExit
    PROVE  IInv'
  <1> USE DEF IInv
  <1>0. TypeOK  OBVIOUS
  <1> DEFINE l == Top.lane
  <1>1. /\ stack # <<>>
        /\ ~Startable(l)
        /\ draining' = [draining EXCEPT ![l] = FALSE]
        /\ stack' = SubSeq(stack, 1, Len(stack) - 1)
        /\ UNCHANGED <<gatewayDraining, queue, active, maxConcurrent, generation,
                       resetting, toDrain, status, home, taskGen, waiter>>
    BY DEF PumpExit, Pop, Startable
  <1>2. /\ Len(stack) \in Nat \ {0}
        /\ stack' \in Seq(Frame)
        /\ Len(stack') = Len(stack) - 1
        /\ \A i \in 1..Len(stack') : i \in 1..Len(stack) /\ stack'[i] = stack[i]
    <2>1. stack \in Seq(Frame)  BY <1>0 DEF TypeOK
    <2> QED BY <2>1, <1>1, PopFacts
  <1>3. l \in Lanes
    BY <1>0, <1>2, FrameCmd DEF Top
  <1>4. TypeOK'
    BY <1>0, <1>1, <1>2 DEF TypeOK
  <1>5. QueueOK' /\ ActiveExact' /\ GenOK' /\ WaitersOK'
    BY <1>1 DEF QueueOK, ActiveExact, GenOK, WaitersOK
  <1>6. FramesOK'
    BY <1>0, <1>1, <1>2, FramesKept
  <1>7. PumpCovers'
    <2>1. \A k \in Lanes : k # l /\ OnStack(k) => OnStack(k)'
      <3> SUFFICES ASSUME NEW k \in Lanes, k # l,
                          NEW i \in 1..Len(stack), stack[i].lane = k
                   PROVE  OnStack(k)'
        BY DEF OnStack
      <3>1. i \in 1..Len(stack')  BY <1>2 DEF Top
      <3> QED BY <3>1, <1>2 DEF OnStack
    <2> HIDE DEF l
    <2>2. \A k \in Lanes : Startable(k)' <=> Startable(k)
      BY <1>1 DEF Startable
    <2>3. \A k \in Lanes : draining'[k] => k # l /\ draining[k]
      BY <1>0, <1>1, <1>3 DEF TypeOK
    <2> QED BY <2>1, <2>2, <2>3, <1>1 DEF PumpCovers
  <1> QED BY <1>4, <1>5, <1>6, <1>7

\* A running task ends, on a stack none of whose frames is inside its body.
LEMMA CompleteIInv ==
    ASSUME IInv, NEW c \in Cmds, status[c] = "running",
           NEW outcome \in {"resolved", "rejected"},
           NEW stk \in Seq(Frame),
           Len(stk) = Len(stack),
           \A i \in 1..Len(stack) : stk[i].lane = stack[i].lane,
           \A i \in 1..Len(stack) : stk[i].cmd # NoCmd =>
              stk[i].cmd = stack[i].cmd /\ stk[i].cmd # c,
           CompleteTask(c, outcome, stk)
    PROVE  IInv'
  <1> USE DEF IInv
  <1>0. TypeOK  OBVIOUS
  <1> DEFINE l == home[c]
             acts == [active EXCEPT ![l] = active[l] \ {c}]
             U == UNION {acts[k] : k \in Lanes}
             W == [st : {"idle", "waiting", "drained", "timedOut"}, ids : SUBSET Cmds]
  <1>1. /\ status' = [status EXCEPT ![c] = outcome]
        /\ UNCHANGED <<gatewayDraining, queue, maxConcurrent, draining,
                       generation, resetting, toDrain, home, taskGen>>
    BY DEF CompleteTask
  <1>2. l \in Lanes /\ acts \in [Lanes -> SUBSET Cmds] /\ Len(stack) \in Nat
    BY <1>0 DEF TypeOK
  <1>5. QueueOK'
    <2>1. \A k \in Lanes : \A i \in 1..Len(queue[k]) :
             /\ queue[k][i] # c
             /\ queue[k][i] \in Cmds
             /\ status[queue[k][i]] = "queued"
      BY <1>0, QueueCmd DEF QueueOK
    <2>2. \A k \in Lanes : \A i \in 1..Len(queue[k]) :
             status'[queue[k][i]] = "queued"
      BY <2>1, <1>0, <1>1 DEF TypeOK
    <2> QED BY <2>2, <1>1 DEF QueueOK
  <1>6. GenOK'
    BY <1>1 DEF GenOK
  <1>3. CASE taskGen[c] = generation[l]
    <2>1. /\ active' = acts
          /\ waiter' = Notify(waiter, U)
          /\ stack' = Append(stk, [lane |-> l, cmd |-> NoCmd])
      BY <1>3 DEF CompleteTask
    <2>2. /\ stack' \in Seq(Frame)
          /\ Len(stack') = Len(stk) + 1
          /\ \A i \in 1..Len(stk) : stack'[i] = stk[i]
          /\ stack'[Len(stk) + 1].lane = l
          /\ stack'[Len(stk) + 1].cmd = NoCmd
      BY <2>1, <1>2, PushFacts
    <2>3. /\ waiter' \in [Waiters -> W]
          /\ \A w \in Waiters :
                /\ waiter'[w].ids = waiter[w].ids
                /\ waiter'[w].st = "waiting" =>
                      waiter[w].ids \cap U # {}
                /\ waiter'[w].st = "drained" =>
                      \/ waiter[w].st = "drained"
                      \/ waiter[w].ids \cap U = {}
      <3> HIDE DEF U
      <3>1. waiter \in [Waiters -> W]  BY <1>0 DEF TypeOK
      <3> QED BY <2>1, <3>1, NotifyFacts
    <2> HIDE DEF l, acts
    <2>4. TypeOK'
      BY <2>1, <2>2, <2>3, <1>0, <1>1, <1>2 DEF TypeOK, Status, Settled
    <2>5. ActiveExact'
      <3>1. \A k \in Lanes : active'[k] = active[k] \ {c}
        <4> TAKE k \in Lanes
        <4>1. CASE k = l
          BY <4>1, <2>1, <1>0, <1>2 DEF acts, TypeOK
        <4>2. CASE k # l
          <5>1. c \notin active[k]  BY <4>2 DEF ActiveExact, l
          <5> QED BY <5>1, <4>2, <2>1, <1>0, <1>2 DEF acts, TypeOK
        <4> QED BY <4>1, <4>2
      <3>2. \A d \in Cmds : status'[d] = "running" <=> status[d] = "running" /\ d # c
        BY <1>0, <1>1 DEF TypeOK
      <3> QED BY <3>1, <3>2, <1>1 DEF ActiveExact
    <2>6. FramesOK'
      <3>1. \A i \in 1..Len(stack') : stack'[i].cmd # NoCmd =>
              /\ i \in 1..Len(stack)
              /\ stack'[i].cmd = stack[i].cmd
              /\ stack[i].cmd # c
        BY <2>2, <1>2
      <3>2. \A i \in 1..Len(stack') : stack'[i].cmd # NoCmd =>
              stack[i].cmd \in Cmds
        BY <3>1, <1>0, FrameCmd
      <3>3. \A i \in 1..Len(stack') : stack'[i].cmd # NoCmd =>
              status'[stack[i].cmd] = status[stack[i].cmd]
        BY <3>1, <3>2, <1>0, <1>1 DEF TypeOK
      <3> QED BY <3>1, <3>3, <1>0, FramesKept
    <2>7. PumpCovers'
      <3>1. \A k \in Lanes : OnStack(k) => OnStack(k)'
        BY <2>2, <1>2 DEF OnStack
      <3>2. \A k \in Lanes : k = l => OnStack(k)'
        BY <2>2, <1>2 DEF OnStack
      <3>3. \A k \in Lanes : k # l => active'[k] = active[k]
        BY <2>1, <1>0, <1>2 DEF TypeOK, acts
      <3>4. \A k \in Lanes : Startable(k)' => OnStack(k)' \/ k \in toDrain'
        BY <3>1, <3>2, <3>3, <1>1 DEF PumpCovers, Startable
      <3> QED BY <3>1, <3>4, <1>1 DEF PumpCovers
    <2>8. WaitersOK'
      <3>1. \A w \in Waiters : \A d \in waiter'[w].ids : status'[d] \notin {"new", "queued"}
        <4>1. \A w \in Waiters : \A d \in waiter'[w].ids :
                 d \in Cmds /\ status[d] \notin {"new", "queued"}
          BY <2>3, <1>0 DEF WaitersOK, TypeOK
        <4> QED BY <4>1, <1>0, <1>1 DEF TypeOK
      <3>2. \A w \in Waiters : waiter'[w].st = "waiting" =>
              \E d \in waiter'[w].ids, k \in Lanes : d \in active'[k]
        <4> SUFFICES ASSUME NEW w \in Waiters, waiter'[w].st = "waiting"
                     PROVE  \E d \in waiter'[w].ids, k \in Lanes : d \in active'[k]
          OBVIOUS
        <4>1. PICK d \in waiter[w].ids : d \in U
          BY <2>3
        <4>2. PICK k \in Lanes : d \in acts[k]
          BY <4>1
        <4> QED BY <4>2, <2>1, <2>3
      <3>3. \A k \in Lanes : active'[k] \subseteq active[k]
        BY <2>1, <1>0, <1>2 DEF acts, TypeOK
      <3>4. \A w \in Waiters : waiter'[w].st = "drained" =>
              \A d \in waiter'[w].ids, k \in Lanes : d \notin active'[k]
        <4> SUFFICES ASSUME NEW w \in Waiters, waiter'[w].st = "drained",
                            NEW d \in waiter'[w].ids, NEW k \in Lanes,
                            d \in active'[k]
                     PROVE  FALSE
          OBVIOUS
        <4>1. d \in waiter[w].ids /\ d \in active[k]
          BY <3>3, <2>3
        <4>2. CASE waiter[w].st = "drained"
          BY <4>1, <4>2 DEF WaitersOK
        <4>3. CASE waiter[w].ids \cap U = {}
          <5>1. d \in U  BY <2>1
          <5> QED BY <5>1, <4>1, <4>3
        <4> QED BY <4>2, <4>3, <2>3
      <3> QED BY <3>1, <3>2, <3>4 DEF WaitersOK
    <2>9. QueueOK'
      BY <1>5
    <2> QED BY <2>4, <2>5, <2>6, <2>7, <2>8, <2>9, <1>6
  <1>4. CASE taskGen[c] # generation[l]
    <2>1. stack' = stk /\ UNCHANGED <<active, waiter>>
      BY <1>4 DEF CompleteTask
    <2>2. TypeOK'
      BY <2>1, <1>0, <1>1 DEF TypeOK, Status, Settled
    <2>3. QueueOK'
      BY <1>5
    <2>4. ActiveExact'
      <3>1. \A k \in Lanes : c \notin active[k]
        BY <1>4 DEF ActiveExact
      <3>2. \A d \in Cmds : status'[d] = "running" <=> status[d] = "running" /\ d # c
        BY <1>0, <1>1 DEF TypeOK
      <3> QED BY <3>1, <3>2, <2>1, <1>1 DEF ActiveExact
    <2>5. FramesOK'
      <3>1. \A i \in 1..Len(stack') : stack'[i].cmd # NoCmd =>
              /\ i \in 1..Len(stack)
              /\ stack'[i].cmd = stack[i].cmd
              /\ stack[i].cmd # c
              /\ stack[i].cmd \in Cmds
        BY <2>1, <1>0, FrameCmd
      <3>2. \A i \in 1..Len(stack') : stack'[i].cmd # NoCmd =>
              status'[stack[i].cmd] = status[stack[i].cmd]
        BY <3>1, <1>0, <1>1 DEF TypeOK
      <3> QED BY <3>1, <3>2, <1>0, FramesKept
    <2>6. PumpCovers'
      <3>1. \A k \in Lanes : OnStack(k)' <=> OnStack(k)
        BY <2>1 DEF OnStack
      <3> QED BY <3>1, <2>1, <1>1 DEF PumpCovers, Startable
    <2>7. WaitersOK'
      BY <2>1, <1>0, <1>1 DEF WaitersOK, TypeOK
    <2> QED BY <2>2, <2>3, <2>4, <2>5, <2>6, <2>7, <1>6
  <1> QED BY <1>3, <1>4

LEMMA FinishIInv ==
    ASSUME IInv, NEW c \in Cmds, Finish(c)
    PROVE  IInv'
  <1>1. PICK outcome \in {"resolved", "rejected"} : CompleteTask(c, outcome, stack)
    BY DEF Finish
  <1>2. stack \in Seq(Frame) /\ Len(stack) = 0 /\ status[c] = "running"
    BY DEF Finish, Idle, IInv, TypeOK
  <1>3. \A i \in 1..Len(stack) : stack[i].cmd # c
    BY <1>2
  <1> QED BY <1>1, <1>2, <1>3, CompleteIInv

LEMMA ThrowIInv ==
    ASSUME IInv, TaskThrows
    PROVE  IInv'
  <1>0. TypeOK  BY DEF IInv
  <1> DEFINE c == Top.cmd
             stk == InBody(NoCmd)
  <1>1. stack # <<>> /\ c # NoCmd /\ CompleteTask(c, "rejected", stk)
    BY DEF TaskThrows
  <1>2. /\ Len(stack) \in Nat \ {0}
        /\ stk \in Seq(Frame)
        /\ Len(stk) = Len(stack)
        /\ \A i \in 1..Len(stack) : stk[i].lane = stack[i].lane
        /\ \A i \in 1..Len(stack) :
              stk[i].cmd = IF i = Len(stack) THEN NoCmd ELSE stack[i].cmd
    BY <1>0, <1>1, InBodyFacts
  <1>3. c \in Cmds /\ status[c] = "running"
    BY <1>0, <1>1, <1>2, FrameCmd DEF Top, IInv, FramesOK
  <1>4. \A i \in 1..Len(stack) : stk[i].cmd # NoCmd =>
           stk[i].cmd = stack[i].cmd /\ stk[i].cmd # c
    BY <1>1, <1>2 DEF Top, IInv, FramesOK
  <1> HIDE DEF c, stk
  <1> QED BY <1>1, <1>2, <1>3, <1>4, CompleteIInv

-----------------------------------------------------------------------------
LEMMA ResetIInv ==
    ASSUME IInv, ResetAllLanes
    PROVE  IInv'
  <1> USE DEF IInv
  <1>0. TypeOK  OBVIOUS
  <1>1. /\ stack = <<>>
        /\ gatewayDraining' = FALSE
        /\ generation' = [l \in Lanes |-> generation[l] + 1]
        /\ active' = [l \in Lanes |-> {}]
        /\ draining' = [l \in Lanes |-> FALSE]
        /\ resetting' = TRUE
        /\ toDrain' = {l \in Lanes : queue[l] # <<>>}
        /\ UNCHANGED <<queue, maxConcurrent, stack, status, home, taskGen, waiter>>
    BY DEF ResetAllLanes, Idle
  <1>2. TypeOK'
    <2>1. generation' \in [Lanes -> Nat]
      BY <1>0, <1>1 DEF TypeOK
    <2>2. draining' \in [Lanes -> BOOLEAN] /\ active' \in [Lanes -> SUBSET Cmds]
      BY <1>1
    <2>3. gatewayDraining' \in BOOLEAN /\ resetting' \in BOOLEAN /\ toDrain' \in SUBSET Lanes
      BY <1>1
    <2> QED BY <2>1, <2>2, <2>3, <1>0, <1>1 DEF TypeOK
  <1>3. QueueOK' /\ FramesOK'
    BY <1>1 DEF QueueOK, FramesOK
  <1>4. PumpCovers'
    BY <1>1 DEF PumpCovers, Startable
  <1>5. WaitersOK'
    BY <1>1 DEF WaitersOK
  <1>6. ActiveExact' /\ GenOK'
    <2>1. \A c \in Cmds : /\ home[c] \in Lanes
                          /\ generation'[home[c]] = generation[home[c]] + 1
                          /\ generation[home[c]] \in Nat
                          /\ taskGen[c] \in Nat
                          /\ taskGen[c] <= generation[home[c]]
      BY <1>0, <1>1 DEF TypeOK, GenOK
    <2>2. \A c \in Cmds : taskGen[c] < generation'[home[c]]
      BY <2>1
    <2>3. GenOK'
      BY <2>1, <2>2, <1>1 DEF GenOK
    <2>4. ActiveExact'
      <3> SUFFICES ASSUME NEW l \in Lanes, NEW c \in Cmds, home[c] = l,
                          taskGen[c] = generation'[l]
                   PROVE  FALSE
        BY <1>1 DEF ActiveExact
      <3> QED BY <2>1, <2>2
    <2> QED BY <2>3, <2>4
  <1> QED BY <1>2, <1>3, <1>4, <1>5, <1>6

LEMMA ResetDrainIInv ==
    ASSUME IInv, NEW l \in Lanes, ResetDrain(l)
    PROVE  IInv'
  <1> USE DEF IInv
  <1>0. TypeOK  OBVIOUS
  <1>1. /\ l \in toDrain
        /\ toDrain' = toDrain \ {l}
        /\ DrainLane(l, stack)
        /\ UNCHANGED <<gatewayDraining, queue, active, maxConcurrent, generation,
                       resetting, status, home, taskGen, waiter>>
    BY DEF ResetDrain
  <1>2. /\ stack' \in Seq(Frame)
        /\ draining' \in [Lanes -> BOOLEAN]
        /\ OnStack(l)'
        /\ \A k \in Lanes : OnStack(k) => OnStack(k)'
        /\ \A k \in Lanes : draining'[k] => OnStack(k)'
        /\ \A i \in 1..Len(stack') : stack'[i].cmd # NoCmd =>
              i \in 1..Len(stack) /\ stack'[i] = stack[i]
    BY <1>0, <1>1, DrainLaneFacts DEF PumpCovers
  <1>3. TypeOK'
    BY <1>0, <1>1, <1>2 DEF TypeOK
  <1>4. QueueOK' /\ ActiveExact' /\ GenOK' /\ WaitersOK'
    BY <1>1 DEF QueueOK, ActiveExact, GenOK, WaitersOK
  <1>5. FramesOK'
    BY <1>0, <1>1, <1>2, FramesKept
  <1>6. PumpCovers'
    <2>1. \A k \in Lanes : Startable(k)' <=> Startable(k)
      BY <1>1 DEF Startable
    <2> QED BY <2>1, <1>1, <1>2 DEF PumpCovers
  <1> QED BY <1>3, <1>4, <1>5, <1>6

LEMMA ResetNotifyIInv ==
    ASSUME IInv, ResetNotify
    PROVE  IInv'
  <1> USE DEF IInv
  <1>0. TypeOK  OBVIOUS
  <1> DEFINE W == [st : {"idle", "waiting", "drained", "timedOut"}, ids : SUBSET Cmds]
  <1>1. /\ toDrain = {}
        /\ resetting' = FALSE
        /\ waiter' = Notify(waiter, AllActive)
        /\ UNCHANGED <<gatewayDraining, queue, active, maxConcurrent, draining,
                       generation, stack, toDrain, status, home, taskGen>>
    BY DEF ResetNotify
  <1>2. /\ waiter' \in [Waiters -> W]
        /\ \A w \in Waiters :
             /\ waiter'[w].ids = waiter[w].ids
             /\ waiter'[w].st = "waiting" => waiter[w].ids \cap AllActive # {}
             /\ waiter'[w].st = "drained" =>
                  waiter[w].st = "drained" \/ waiter[w].ids \cap AllActive = {}
    <2>1. waiter \in [Waiters -> W]  BY <1>0 DEF TypeOK
    <2> QED BY <2>1, <1>1, NotifyFacts
  <1>3. TypeOK'
    BY <1>0, <1>1, <1>2 DEF TypeOK
  <1>4. QueueOK' /\ FramesOK' /\ ActiveExact' /\ GenOK'
    BY <1>1 DEF QueueOK, FramesOK, ActiveExact, GenOK
  <1>5. PumpCovers'
    BY <1>1 DEF PumpCovers, Startable, OnStack
  <1>6. WaitersOK'
    BY <1>1, <1>2, AllActiveMember DEF WaitersOK
  <1> QED BY <1>3, <1>4, <1>5, <1>6

-----------------------------------------------------------------------------
LEMMA StepIInv == IInv /\ [Next]_vars => IInv'
  <1> SUFFICES ASSUME IInv, [Next]_vars PROVE IInv'
    OBVIOUS
  <1>1. CASE QueueStep
    BY <1>1, PumpStartIInv, PumpExitIInv, ResetDrainIInv, ResetNotifyIInv
       DEF QueueStep
  <1>2. CASE CallerStep
    BY <1>2, EnqueueIInv, RefuseIInv, ConcurrencyIInv, ClearIInv, MarkIInv,
       WaitIInv, TimeoutIInv, ResetIInv
       DEF CallerStep
  <1>3. CASE TaskStep
    BY <1>3, FinishIInv, ThrowIInv DEF TaskStep
  <1>4. CASE UNCHANGED vars
    BY <1>4 DEF vars, queueVars, IInv, TypeOK, QueueOK, FramesOK, ActiveExact,
       GenOK, PumpCovers, Startable, OnStack, WaitersOK
  <1> QED BY <1>1, <1>2, <1>3, <1>4 DEF Next

\* Every reachable state satisfies the inductive invariant: what command-queue.ts
\* keeps true of lanes, stack, generations and waiters between any two of its steps.
THEOREM Invariance == Spec => []IInv
  BY InitIInv, StepIInv, PTL DEF Spec

\* Type correctness of command-queue.ts's state: in particular no lane ever has
\* a limit of zero.
THEOREM TypeCorrect == Spec => []TypeOK
  <1>1. IInv => TypeOK  BY DEF IInv
  <1> QED BY <1>1, Invariance, PTL

\* drainLane, the unguarded pump() of completions and resetAllLanes together
\* leave no startable entry behind when control returns to the event loop.
THEOREM WorkConserving == Spec => []NoStrandedWork
  <1>1. IInv => NoStrandedWork
    <2> SUFFICES ASSUME IInv, Idle, NEW l \in Lanes, Startable(l) PROVE FALSE
      BY DEF NoStrandedWork
    <2>1. Len(stack) = 0 /\ toDrain = {}
      BY DEF Idle, IInv, PumpCovers
    <2>2. OnStack(l)
      BY <2>1 DEF IInv, PumpCovers
    <2> QED BY <2>1, <2>2 DEF OnStack
  <1> QED BY <1>1, Invariance, PTL

\* completeTask's generation check and activeTaskIds.clear() keep the slots of
\* every lane equal to the running tasks of its current generation.
THEOREM SlotsExact == Spec => []ActiveExact
  <1>1. IInv => ActiveExact  BY DEF IInv
  <1> QED BY <1>1, Invariance, PTL

\* waitForActiveTasks reports drained only when that is so.
THEOREM DrainReportSound == Spec => []DrainedIsDrained
  <1>1. IInv => DrainedIsDrained
    BY AllActiveMember DEF IInv, WaitersOK, DrainedIsDrained
  <1> QED BY <1>1, Invariance, PTL

\* notifyActiveTaskWaiters leaves no waiter behind whose last task is gone.
THEOREM WaitersRemembered == Spec => []NoForgottenWaiter
  <1>1. IInv => NoForgottenWaiter
    BY AllActiveMember DEF IInv, WaitersOK, NoForgottenWaiter, Idle
  <1> QED BY <1>1, Invariance, PTL

-----------------------------------------------------------------------------
(* The queue implements its contract.                                      *)

\* An accepted command waits in its lane.
QueuedOK ==
    \A c \in Cmds : status[c] = "queued" =>
        \E i \in 1..Len(queue[home[c]]) : queue[home[c]][i] = c

LEMMA EnqueueQueued ==
    ASSUME IInv, QueuedOK, NEW c \in Cmds, EnqueueCommandInLane(c)
    PROVE  QueuedOK'
  <1> DEFINE l == home[c]
  <1>1. /\ l \in Lanes /\ queue[l] \in Seq(Cmds) /\ home' = home
        /\ queue' = [queue EXCEPT ![l] = Append(queue[l], c)]
        /\ status' = [status EXCEPT ![c] = "queued"]
    BY DEF EnqueueCommandInLane, IInv, TypeOK
  <1>2. /\ Len(queue[l]) \in Nat
        /\ Len(Append(queue[l], c)) = Len(queue[l]) + 1
        /\ \A i \in 1..Len(queue[l]) : Append(queue[l], c)[i] = queue[l][i]
        /\ Append(queue[l], c)[Len(queue[l]) + 1] = c
    BY <1>1, AppendProperties
  <1>3. queue'[l] = Append(queue[l], c) /\ \A k \in Lanes : k # l => queue'[k] = queue[k]
    BY <1>1 DEF IInv, TypeOK
  <1>4. \E i \in 1..Len(queue'[l]) : queue'[l][i] = c
    BY <1>2, <1>3
  <1>5. ASSUME NEW d \in Cmds, d # c, status'[d] = "queued"
        PROVE  \E i \in 1..Len(queue'[home[d]]) : queue'[home[d]][i] = d
    <2>1. status[d] = "queued" /\ home[d] \in Lanes
      BY <1>1, <1>5 DEF IInv, TypeOK
    <2>2. PICK i \in 1..Len(queue[home[d]]) : queue[home[d]][i] = d
      BY <2>1 DEF QueuedOK
    <2>3. i \in 1..Len(queue'[home[d]]) /\ queue'[home[d]][i] = d
      BY <2>1, <2>2, <1>2, <1>3
    <2> QED BY <2>3
  <1> QED BY <1>1, <1>4, <1>5 DEF QueuedOK

LEMMA PumpStartQueued ==
    ASSUME IInv, QueuedOK, PumpStart
    PROVE  QueuedOK'
  <1> DEFINE l == Top.lane
             c == Head(queue[l])
  <1>1. l \in Lanes
    BY FrameCmd, PopFacts DEF IInv, TypeOK, PumpStart, Top, Frame
  <1>2. /\ queue[l] # <<>> /\ queue[l] \in Seq(Cmds) /\ home' = home
        /\ queue' = [queue EXCEPT ![l] = Tail(queue[l])]
        /\ status' = [status EXCEPT ![c] = "running"]
    BY <1>1 DEF PumpStart, IInv, TypeOK
  <1>3. /\ Len(queue[l]) \in Nat \ {0} /\ c \in Cmds /\ c = queue[l][1]
        /\ Len(Tail(queue[l])) = Len(queue[l]) - 1
        /\ \A i \in 1..(Len(queue[l]) - 1) : Tail(queue[l])[i] = queue[l][i + 1]
    BY <1>2, TailFacts
  <1>4. queue'[l] = Tail(queue[l]) /\ \A k \in Lanes : k # l => queue'[k] = queue[k]
    BY <1>1, <1>2 DEF IInv, TypeOK
  <1> HIDE DEF l, c
  <1>5. ASSUME NEW d \in Cmds, status'[d] = "queued"
        PROVE  \E i \in 1..Len(queue'[home[d]]) : queue'[home[d]][i] = d
    <2>1. status[d] = "queued" /\ home[d] \in Lanes /\ d # c
      BY <1>2, <1>3, <1>5 DEF IInv, TypeOK
    <2>2. PICK i \in 1..Len(queue[home[d]]) : queue[home[d]][i] = d
      BY <2>1 DEF QueuedOK
    <2>3. CASE home[d] # l
      BY <2>1, <2>2, <2>3, <1>4
    <2>4. CASE home[d] = l
      <3>1. i - 1 \in 1..(Len(queue[l]) - 1) /\ (i - 1) + 1 = i
        BY <2>1, <2>2, <2>4, <1>3
      <3>2. Tail(queue[l])[i - 1] = d
        BY <2>2, <2>4, <3>1, <1>3
      <3> QED BY <2>4, <3>1, <3>2, <1>3, <1>4
    <2> QED BY <2>3, <2>4
  <1> QED BY <1>2, <1>5 DEF QueuedOK

LEMMA TopBody ==
    ASSUME TypeOK, stack # <<>>, Top.cmd # NoCmd
    PROVE  Top.cmd \in Cmds
  <1>1. Top \in Frame
    BY PopFacts DEF TypeOK, Top
  <1> QED BY <1>1 DEF Frame

LEMMA StepQueued == ASSUME IInv, QueuedOK, [Next]_vars PROVE QueuedOK'
  <1>1. ASSUME UNCHANGED <<queue, home>>,
               \A d \in Cmds : status'[d] = "queued" => status[d] = "queued"
        PROVE  QueuedOK'
    BY <1>1 DEF QueuedOK
  <1>2. CASE QueueStep
    <2>1. CASE PumpStart  BY <2>1, PumpStartQueued
    <2>2. CASE PumpExit \/ (\E l \in Lanes : ResetDrain(l)) \/ ResetNotify
      BY <1>1, <2>2 DEF PumpExit, ResetDrain, ResetNotify
    <2> QED BY <1>2, <2>1, <2>2 DEF QueueStep
  <1>3. CASE CallerStep
    <2>1. ASSUME NEW c \in Cmds, EnqueueCommandInLane(c) PROVE QueuedOK'
      BY <2>1, EnqueueQueued
    <2>2. ASSUME NEW c \in Cmds, RefuseEnqueue(c) PROVE QueuedOK'
      BY <1>1, <2>2 DEF RefuseEnqueue, queueVars, IInv, TypeOK
    <2>3. ASSUME NEW l \in Lanes, ClearCommandLane(l) PROVE QueuedOK'
      <3>1. /\ queue' = [queue EXCEPT ![l] = <<>>] /\ home' = home
            /\ status' = [c \in Cmds |->
                            IF \E i \in 1..Len(queue[l]) : queue[l][i] = c
                            THEN "cleared" ELSE status[c]]
        BY <2>3 DEF ClearCommandLane
      <3>2. ASSUME NEW d \in Cmds, status'[d] = "queued"
            PROVE  \E i \in 1..Len(queue'[home[d]]) : queue'[home[d]][i] = d
        <4>1. status[d] = "queued" /\ ~\E i \in 1..Len(queue[l]) : queue[l][i] = d
          BY <3>1, <3>2
        <4>2. home[d] # l /\ home[d] \in Lanes
          BY <4>1 DEF QueuedOK, IInv, TypeOK
        <4> QED BY <3>1, <4>1, <4>2 DEF QueuedOK, IInv, TypeOK
      <3> QED BY <3>1, <3>2 DEF QueuedOK
    <2>4. CASE \/ \E l \in Lanes, n \in Requested : SetCommandLaneConcurrency(l, n)
               \/ MarkGatewayDraining
               \/ \E w \in Waiters, timed \in BOOLEAN : WaitForActiveTasks(w, timed)
               \/ \E w \in Waiters : WaiterTimeout(w)
               \/ ResetAllLanes
      BY <1>1, <2>4 DEF SetCommandLaneConcurrency, MarkGatewayDraining,
         WaitForActiveTasks, WaiterTimeout, ResetAllLanes, queueVars
    <2> QED BY <1>3, <2>1, <2>2, <2>3, <2>4 DEF CallerStep
  <1>4. CASE TaskStep
    <2>1. ASSUME NEW c \in Cmds, NEW outcome \in {"resolved", "rejected"}, NEW stk,
                 CompleteTask(c, outcome, stk)
          PROVE  QueuedOK'
      BY <1>1, <2>1 DEF CompleteTask, IInv, TypeOK
    <2>2. ASSUME NEW c \in Cmds, Finish(c) PROVE QueuedOK'
      BY <2>1, <2>2 DEF Finish
    <2>3. CASE TaskThrows
      <3>1. Top.cmd \in Cmds
        BY <2>3, TopBody DEF TaskThrows, IInv
      <3> QED BY <2>1, <2>3, <3>1 DEF TaskThrows
    <2> QED BY <1>4, <2>2, <2>3 DEF TaskStep
  <1>5. CASE UNCHANGED vars
    BY <1>1, <1>5 DEF vars, queueVars
  <1> QED BY <1>2, <1>3, <1>4, <1>5 DEF Next

\* What callers have learnt.
Learnt == [c \in Cmds |-> Outcome(c)]

LEMMA OutcomeFacts ==
    ASSUME NEW c \in Cmds, status[c] \in Status
    PROVE  /\ Outcome(c) = "new" <=> status[c] = "new"
           /\ Outcome(c) = "accepted" <=> status[c] = "queued"
           /\ Outcome(c) = "started" <=> status[c] = "running"
           /\ Outcome(c) = "done" <=> status[c] \in Settled
  BY DEF Outcome, Status, Settled

\* Changing the status of one command changes what its caller has learnt.
LEMMA LearntStep ==
    ASSUME IInv, NEW c \in Cmds, NEW st \in Status,
           status' = [status EXCEPT ![c] = st],
           NEW o, o = (CASE st = "new" -> "new"
                         [] st = "queued" -> "accepted"
                         [] st = "running" -> "started"
                         [] OTHER -> "done")
    PROVE  Learnt' = [Learnt EXCEPT ![c] = o]
  <1>1. Outcome(c)' = o
    BY DEF Outcome, IInv, TypeOK
  <1>2. \A d \in Cmds : d # c => Outcome(d)' = Outcome(d)
    BY DEF Outcome, IInv, TypeOK
  <1> QED BY <1>1, <1>2 DEF Learnt

LEMMA EndRefines ==
    ASSUME IInv, NEW c \in Cmds, NEW outcome \in {"resolved", "rejected"}, NEW stk,
           status[c] = "running", CompleteTask(c, outcome, stk)
    PROVE  Contract!End(c)
  <1>1. /\ status' = [status EXCEPT ![c] = outcome]
        /\ UNCHANGED <<gatewayDraining, queue, maxConcurrent, home>>
    BY DEF CompleteTask
  <1>2. Learnt' = [Learnt EXCEPT ![c] = "done"]
    BY <1>1, LearntStep DEF Status, Settled
  <1>3. Learnt[c] = "started"
    BY OutcomeFacts DEF Learnt, IInv, TypeOK
  <1>4. active' = [active EXCEPT ![home[c]] = @ \ {c}]
    <2>1. CASE taskGen[c] = generation[home[c]]
      BY <2>1 DEF CompleteTask
    <2>2. CASE taskGen[c] # generation[home[c]]
      <3>1. home[c] \in Lanes /\ active \in [Lanes -> SUBSET Cmds]
        BY DEF IInv, TypeOK
      <3>2. c \notin active[home[c]]
        BY <2>2, <3>1 DEF IInv, ActiveExact
      <3>3. active' = active
        BY <2>2 DEF CompleteTask
      <3> QED BY <3>1, <3>2, <3>3
    <2> QED BY <2>1, <2>2
  <1> QED BY <1>1, <1>2, <1>3, <1>4 DEF Contract!End, Learnt

LEMMA StepRefines ==
    ASSUME IInv, QueuedOK, Next
    PROVE  Contract!Next \/ UNCHANGED Contract!contractVars
  <1>1. ASSUME UNCHANGED <<gatewayDraining, queue, active, maxConcurrent, status, home>>
        PROVE  UNCHANGED Contract!contractVars
    BY <1>1 DEF Contract!contractVars, Outcome
  <1>2. CASE QueueStep
    <2>1. CASE PumpStart
      <3> DEFINE l == Top.lane
                 c == Head(queue[l])
      <3>1. l \in Lanes
        BY <2>1, FrameCmd, PopFacts DEF IInv, TypeOK, PumpStart, Top, Frame
      <3>2. queue[l] # <<>> /\ c \in Cmds
        BY <2>1, <3>1, TailFacts DEF PumpStart, IInv, TypeOK
      <3>3. status' = [status EXCEPT ![c] = "running"]
        BY <2>1 DEF PumpStart
      <3>4. Learnt' = [Learnt EXCEPT ![c] = "started"]
        BY <3>2, <3>3, LearntStep DEF Status
      <3>5. Contract!CanStart(l)
        <4>1. Cardinality(active[l]) < maxConcurrent[l]
          BY <2>1 DEF PumpStart
        <4>2. Contract!Cardinality(active[l]) = Cardinality(active[l])
          BY DEF Contract!Cardinality, Cardinality
        <4> QED BY <4>1, <4>2, <3>2 DEF Contract!CanStart
      <3>6. Contract!Start(l)
        BY <2>1, <3>4, <3>5 DEF PumpStart, Contract!Start, Learnt
      <3> QED BY <3>1, <3>6 DEF Contract!Next
    <2>2. CASE PumpExit \/ (\E l \in Lanes : ResetDrain(l)) \/ ResetNotify
      BY <1>1, <2>2 DEF PumpExit, ResetDrain, ResetNotify
    <2> QED BY <1>2, <2>1, <2>2 DEF QueueStep
  <1>3. CASE CallerStep
    <2>1. ASSUME NEW c \in Cmds, EnqueueCommandInLane(c) PROVE Contract!Next
      <3>1. Learnt' = [Learnt EXCEPT ![c] = "accepted"]
        BY <2>1, LearntStep DEF EnqueueCommandInLane, Status
      <3>2. Learnt[c] = "new"
        BY <2>1, OutcomeFacts DEF EnqueueCommandInLane, Learnt, IInv, TypeOK
      <3>3. Contract!Accept(c)
        BY <2>1, <3>1, <3>2 DEF EnqueueCommandInLane, Contract!Accept, Learnt
      <3> QED BY <3>3 DEF Contract!Next
    <2>2. ASSUME NEW c \in Cmds, RefuseEnqueue(c) PROVE Contract!Next
      <3>0. status' = [status EXCEPT ![c] = "refused"]
        BY <2>2 DEF RefuseEnqueue
      <3>1. Learnt' = [Learnt EXCEPT ![c] = "done"]
        <4>1. "refused" \in Status /\ "refused" \notin {"new", "queued", "running"}
          BY DEF Status, Settled
        <4> QED BY <3>0, <4>1, LearntStep
      <3>2. Learnt[c] = "new"
        BY <2>2, OutcomeFacts DEF RefuseEnqueue, Learnt, IInv, TypeOK
      <3>3. Contract!Refuse(c)
        BY <2>2, <3>1, <3>2 DEF RefuseEnqueue, queueVars, Contract!Refuse, Learnt
      <3> QED BY <3>3 DEF Contract!Next
    <2>3. ASSUME NEW l \in Lanes, NEW n \in Requested, SetCommandLaneConcurrency(l, n)
          PROVE  Contract!Next
      <3>1. AtLeastOne(n) \in Nat \ {0}
        BY ConstantsAssumption DEF AtLeastOne
      <3>2. maxConcurrent' = [maxConcurrent EXCEPT ![l] = AtLeastOne(n)]
        BY <2>3 DEF SetCommandLaneConcurrency
      <3>3. maxConcurrent'[l] = AtLeastOne(n)
        BY <3>2 DEF IInv, TypeOK
      <3>4. Learnt' = Learnt
        BY <2>3 DEF SetCommandLaneConcurrency, Learnt, Outcome
      <3>5. Contract!Resize(l)
        BY <2>3, <3>1, <3>2, <3>3, <3>4 DEF SetCommandLaneConcurrency, Contract!Resize, Learnt
      <3> QED BY <3>5 DEF Contract!Next
    <2>4. ASSUME NEW l \in Lanes, ClearCommandLane(l) PROVE Contract!Next
      <3>1. /\ queue' = [queue EXCEPT ![l] = <<>>]
            /\ status' = [c \in Cmds |->
                            IF \E i \in 1..Len(queue[l]) : queue[l][i] = c
                            THEN "cleared" ELSE status[c]]
            /\ UNCHANGED <<gatewayDraining, active, maxConcurrent, home>>
        BY <2>4 DEF ClearCommandLane
      <3>2. ASSUME NEW c \in Cmds
            PROVE  Outcome(c)' = IF Outcome(c) = "accepted" /\ home[c] = l
                                 THEN "done" ELSE Outcome(c)
        <4>1. (\E i \in 1..Len(queue[l]) : queue[l][i] = c)
                 <=> (status[c] = "queued" /\ home[c] = l)
          BY DEF IInv, QueueOK, QueuedOK
        <4>2. status'[c] = IF status[c] = "queued" /\ home[c] = l
                           THEN "cleared" ELSE status[c]
          BY <3>1, <4>1
        <4>3. Outcome(c) = "accepted" <=> status[c] = "queued"
          BY OutcomeFacts DEF IInv, TypeOK
        <4> QED BY <4>2, <4>3 DEF Outcome
      <3>3. Contract!Discard(l)
        BY <3>1, <3>2 DEF Contract!Discard
      <3> QED BY <3>3 DEF Contract!Next
    <2>5. CASE MarkGatewayDraining
      BY <2>5 DEF MarkGatewayDraining, Contract!Close, Contract!Next, Outcome
    <2>6. CASE \/ \E w \in Waiters, timed \in BOOLEAN : WaitForActiveTasks(w, timed)
               \/ \E w \in Waiters : WaiterTimeout(w)
      BY <1>1, <2>6 DEF WaitForActiveTasks, WaiterTimeout, queueVars
    <2>7. CASE ResetAllLanes
      BY <2>7 DEF ResetAllLanes, Contract!Reopen, Contract!Next, Outcome
    <2> QED BY <1>3, <2>1, <2>2, <2>3, <2>4, <2>5, <2>6, <2>7 DEF CallerStep
  <1>4. CASE TaskStep
    <2>1. ASSUME NEW c \in Cmds, Finish(c) PROVE Contract!Next
      BY <2>1, EndRefines DEF Finish, Contract!Next
    <2>2. CASE TaskThrows
      <3>1. Top.cmd \in Cmds /\ status[Top.cmd] = "running"
        BY <2>2, TopBody, PopFacts DEF TaskThrows, IInv, TypeOK, FramesOK, Top
      <3> QED BY <2>2, <3>1, EndRefines DEF TaskThrows, Contract!Next
    <2> QED BY <1>4, <2>1, <2>2 DEF TaskStep
  <1> QED BY <1>2, <1>3, <1>4 DEF Next

\* command-queue.ts implements its contract, fairness aside: commands of a lane
\* start in the order of their acceptance, each once and only into a free slot, and
\* what was accepted waits until it is started or discarded with its whole lane.
THEOREM ContractImplemented == Spec => Contract!SafeSpec
  <1>1. Init => Contract!Init
    BY DEF Init, Contract!Init, Outcome
  <1>2. Init => QueuedOK
    BY DEF Init, QueuedOK
  <1>3. IInv /\ QueuedOK /\ [Next]_vars => QueuedOK'
    BY StepQueued
  <1>4. IInv /\ QueuedOK /\ [Next]_vars => [Contract!Next]_(Contract!contractVars)
    <2> SUFFICES ASSUME IInv, QueuedOK, [Next]_vars
                 PROVE  Contract!Next \/ UNCHANGED Contract!contractVars
      OBVIOUS
    <2>1. CASE UNCHANGED vars
      BY <2>1 DEF vars, queueVars, Contract!contractVars, Outcome
    <2>2. CASE Next
      BY <2>2, StepRefines
    <2> QED BY <2>1, <2>2
  <1> QED
    BY <1>1, <1>2, <1>3, <1>4, Invariance, PTL DEF Spec, Contract!SafeSpec
=============================================================================
