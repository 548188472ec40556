------------------------ MODULE InboundDebounceProofs ------------------------
(***************************************************************************)
(* Proofs about InboundDebounce, for any keys, any tracking limit and any  *)
(* number of items: the invariants of the chains, and that every step of   *)
(* the debouncer is a step of InboundContract.  The inductive invariant is *)
(* one predicate on the chain of a key; each operation on a chain has a    *)
(* lemma, and the steps follow from them key by key.                       *)
(***************************************************************************)
EXTENDS InboundDebounce, TLAPS

\* The tasks of a chain when n items have arrived.
TasksOK(s, n) ==
    \A p \in 1..Len(s) :
        /\ s[p].items # {}
        /\ s[p].items \subseteq 1..n
        /\ s[p].open => p = Len(s) /\ s[p].kind = "buffer" /\ ~s[p].ready

SlotsOK(s) ==
    \A p \in 1..Len(s) : ~s[p].ready =>
        \/ s[p].kind = "buffer" /\ s[p].open
        \/ s[p].kind = "reserved" /\ p > 1 /\ s[p - 1].kind = "buffer"

OrderOK(s) ==
    \A p, q \in 1..Len(s) : p < q => \A i \in s[p].items, j \in s[q].items : i < j

ChainOK(s, r, n) ==
    /\ s \in Seq(Tasks)
    /\ r => s # <<>> /\ s[1].ready
    /\ TasksOK(s, n)
    /\ SlotsOK(s)
    /\ OrderOK(s)

\* No buffer of the chain is in the map.
Closed(s) == \A p \in 1..Len(s) : ~s[p].open

IInv ==
    /\ arrived \in 0..MaxItems
    /\ chain \in [Keys -> Seq(Tasks)]
    /\ running \in [Keys -> BOOLEAN]
    /\ \A k \in Keys : ChainOK(chain[k], running[k], arrived)

-----------------------------------------------------------------------------
(* The operations on a chain.                                              *)

LEMMA AppendFacts ==
    ASSUME NEW s \in Seq(Tasks), NEW t \in Tasks
    PROVE  /\ Append(s, t) \in Seq(Tasks)
           /\ Append(s, t) # <<>>
           /\ Len(Append(s, t)) = Len(s) + 1
           /\ \A p \in 1..Len(s) : Append(s, t)[p] = s[p]
           /\ Append(s, t)[Len(s) + 1] = t
  OBVIOUS

\* A new task goes behind a chain whose buffers are closed.
LEMMA AppendOK ==
    ASSUME NEW s, NEW r \in BOOLEAN, NEW n \in Nat, ChainOK(s, r, n), Closed(s),
           NEW t \in Tasks,
           t.items = {n + 1},
           t.open => t.kind = "buffer" /\ ~t.ready,
           ~t.ready => \/ t.kind = "buffer" /\ t.open
                       \/ t.kind = "reserved" /\ s # <<>> /\ s[Len(s)].kind = "buffer"
    PROVE  ChainOK(Append(s, t), r, n + 1)
  <1> DEFINE u == Append(s, t)
  <1>1. s \in Seq(Tasks) /\ Len(s) \in Nat
    BY DEF ChainOK
  <1>2. /\ u \in Seq(Tasks) /\ u # <<>> /\ Len(u) = Len(s) + 1
        /\ \A p \in 1..Len(s) : u[p] = s[p]
        /\ u[Len(s) + 1] = t
    BY <1>1, AppendFacts
  <1> HIDE DEF u
  <1>3. r => u # <<>> /\ u[1].ready
    BY <1>1, <1>2 DEF ChainOK
  <1>4. TasksOK(u, n + 1)
    <2>1. TasksOK(s, n) /\ 1..n \subseteq 1..(n + 1)
      BY DEF ChainOK
    <2> SUFFICES ASSUME NEW p \in 1..Len(u)
                 PROVE  /\ u[p].items # {} /\ u[p].items \subseteq 1..(n + 1)
                        /\ u[p].open => p = Len(u) /\ u[p].kind = "buffer" /\ ~u[p].ready
      BY DEF TasksOK
    <2>2. CASE p = Len(s) + 1
      <3>1. u[p] = t /\ {n + 1} \subseteq 1..(n + 1)
        BY <1>2, <2>2
      <3>2. u[p].open => p = Len(u)
        BY <1>2, <2>2
      <3>3. QED  BY <3>1, <3>2
    <2>3. CASE p \in 1..Len(s)
      BY <1>2, <2>1, <2>3 DEF TasksOK, Closed
    <2>4. QED  BY <1>1, <1>2, <2>2, <2>3
  <1>5. SlotsOK(u)
    <2> SUFFICES ASSUME NEW p \in 1..Len(u), ~u[p].ready
                 PROVE  \/ u[p].kind = "buffer" /\ u[p].open
                        \/ u[p].kind = "reserved" /\ p > 1 /\ u[p - 1].kind = "buffer"
      BY DEF SlotsOK
    <2>1. CASE p = Len(s) + 1
      <3>1. s # <<>> => Len(s) \in 1..Len(s) /\ p > 1 /\ u[p - 1] = s[Len(s)]
        BY <1>1, <1>2, <2>1
      <3>2. QED  BY <1>2, <2>1, <3>1
    <2>2. CASE p \in 1..Len(s)
      <3>1. p > 1 => p - 1 \in 1..Len(s)
        BY <1>1, <2>2
      <3>2. QED  BY <1>2, <2>2, <3>1 DEF ChainOK, SlotsOK
    <2>3. QED  BY <1>1, <1>2, <2>1, <2>2
  <1>6. OrderOK(u)
    <2> SUFFICES ASSUME NEW p \in 1..Len(u), NEW q \in 1..Len(u), p < q,
                        NEW i \in u[p].items, NEW j \in u[q].items
                 PROVE  i < j
      BY DEF OrderOK
    <2>1. p \in 1..Len(s) /\ u[p] = s[p]
      BY <1>1, <1>2
    <2>2. CASE q \in 1..Len(s)
      BY <1>2, <2>1, <2>2 DEF ChainOK, OrderOK
    <2>3. CASE q = Len(s) + 1
      BY <1>2, <2>1, <2>3 DEF ChainOK, TasksOK
    <2>4. QED  BY <1>1, <1>2, <2>2, <2>3
  <1>7. QED
    BY <1>2, <1>3, <1>4, <1>5, <1>6 DEF ChainOK, u

\* A task in the place of the last one.
LEMMA ReplaceFacts ==
    ASSUME NEW s \in Seq(Tasks), s # <<>>, NEW t \in Tasks
    PROVE  LET u == [s EXCEPT ![Len(s)] = t]
           IN /\ u \in Seq(Tasks) /\ u # <<>>
              /\ Len(u) = Len(s)
              /\ \A p \in 1..Len(s) : p # Len(s) => u[p] = s[p]
              /\ u[Len(s)] = t
  OBVIOUS

\* Closing the last buffer changes nothing else.
LEMMA FlushedFacts ==
    ASSUME NEW s \in Seq(Tasks), s # <<>>
    PROVE  /\ Flushed(s) \in Seq(Tasks) /\ Flushed(s) # <<>>
           /\ Len(Flushed(s)) = Len(s)
           /\ \A p \in 1..Len(s) :
                 /\ Flushed(s)[p].kind = s[p].kind
                 /\ Flushed(s)[p].items = s[p].items
                 /\ p # Len(s) => Flushed(s)[p] = s[p]
           /\ ~Flushed(s)[Len(s)].open
           /\ Flushed(s)[Len(s)].ready
  <1> DEFINE t == s[Len(s)]
             v == [t EXCEPT !.open = FALSE, !.ready = TRUE]
  <1>1. t \in Tasks /\ Len(s) \in 1..Len(s)
    OBVIOUS
  <1>2. v \in Tasks /\ v.kind = t.kind /\ v.items = t.items /\ ~v.open /\ v.ready
    BY <1>1 DEF Tasks
  <1>3. Flushed(s) = [s EXCEPT ![Len(s)] = v]
    BY DEF Flushed
  <1> HIDE DEF v
  <1>4. QED
    BY <1>2, <1>3, ReplaceFacts

LEMMA JoinedFacts ==
    ASSUME NEW s \in Seq(Tasks), s # <<>>, NEW i \in Items
    PROVE  /\ Joined(s, i) \in Seq(Tasks) /\ Joined(s, i) # <<>>
           /\ Len(Joined(s, i)) = Len(s)
           /\ \A p \in 1..Len(s) :
                 /\ Joined(s, i)[p].kind = s[p].kind
                 /\ Joined(s, i)[p].open = s[p].open
                 /\ Joined(s, i)[p].ready = s[p].ready
                 /\ p # Len(s) => Joined(s, i)[p] = s[p]
           /\ Joined(s, i)[Len(s)].items = s[Len(s)].items \cup {i}
  <1> DEFINE t == s[Len(s)]
             v == [t EXCEPT !.items = t.items \cup {i}]
  <1>1. t \in Tasks /\ Len(s) \in 1..Len(s)
    OBVIOUS
  <1>2. /\ v \in Tasks /\ v.kind = t.kind /\ v.open = t.open /\ v.ready = t.ready
        /\ v.items = t.items \cup {i}
    BY <1>1 DEF Tasks
  <1>3. Joined(s, i) = [s EXCEPT ![Len(s)] = v]
    BY DEF Joined, Last
  <1> HIDE DEF v
  <1>4. QED
    BY <1>2, <1>3, ReplaceFacts

LEMMA FlushedOK ==
    ASSUME NEW s, NEW r \in BOOLEAN, NEW n \in Nat, ChainOK(s, r, n),
           s # <<>>, Last(s).open
    PROVE  /\ ChainOK(Flushed(s), r, n)
           /\ Closed(Flushed(s))
           /\ Flushed(s) # <<>>
           /\ Flushed(s)[Len(Flushed(s))].kind = "buffer"
  <1> DEFINE u == Flushed(s)
  <1>1. s \in Seq(Tasks) /\ Len(s) \in Nat /\ Len(s) \in 1..Len(s)
    BY DEF ChainOK
  <1>2. /\ u \in Seq(Tasks) /\ u # <<>> /\ Len(u) = Len(s)
        /\ \A p \in 1..Len(s) : u[p].kind = s[p].kind /\ u[p].items = s[p].items
        /\ \A p \in 1..Len(s) : p # Len(s) => u[p] = s[p]
        /\ ~u[Len(s)].open /\ u[Len(s)].ready
    BY <1>1, FlushedFacts
  <1> HIDE DEF u
  <1>3. r => u[1].ready
    BY <1>1, <1>2 DEF ChainOK
  <1>4. TasksOK(u, n) /\ Closed(u)
    BY <1>1, <1>2 DEF ChainOK, TasksOK, Closed
  <1>5. SlotsOK(u)
    <2> SUFFICES ASSUME NEW p \in 1..Len(u), ~u[p].ready
                 PROVE  \/ u[p].kind = "buffer" /\ u[p].open
                        \/ u[p].kind = "reserved" /\ p > 1 /\ u[p - 1].kind = "buffer"
      BY DEF SlotsOK
    <2>1. p # Len(s) /\ u[p] = s[p] /\ p \in 1..Len(s)
      BY <1>2
    <2>2. p > 1 => p - 1 \in 1..Len(s)
      BY <1>1, <2>1
    <2>3. QED
      BY <1>2, <2>1, <2>2 DEF ChainOK, SlotsOK
  <1>6. OrderOK(u)
    BY <1>2 DEF ChainOK, OrderOK
  <1>7. u[Len(u)].kind = "buffer"
    BY <1>1, <1>2 DEF ChainOK, TasksOK, Last
  <1>8. QED
    BY <1>2, <1>3, <1>4, <1>5, <1>6, <1>7 DEF ChainOK, u

\* A message joins the buffer in the map.
LEMMA JoinOK ==
    ASSUME NEW s, NEW r \in BOOLEAN, NEW n \in Nat, n + 1 \in Items, ChainOK(s, r, n),
           s # <<>>, Last(s).open
    PROVE  ChainOK(Joined(s, n + 1), r, n + 1)
  <1> DEFINE u == Joined(s, n + 1)
  <1>1. s \in Seq(Tasks) /\ Len(s) \in Nat /\ Len(s) \in 1..Len(s)
    BY DEF ChainOK
  <1>2. /\ u \in Seq(Tasks) /\ u # <<>> /\ Len(u) = Len(s)
        /\ \A p \in 1..Len(s) :
              /\ u[p].kind = s[p].kind /\ u[p].open = s[p].open /\ u[p].ready = s[p].ready
              /\ p # Len(s) => u[p] = s[p]
        /\ u[Len(s)].items = s[Len(s)].items \cup {n + 1}
    BY <1>1, JoinedFacts
  <1> HIDE DEF u
  <1>3. (r => u[1].ready) /\ SlotsOK(u)
    <2>1. r => u[1].ready
      BY <1>1, <1>2 DEF ChainOK
    <2>2. SlotsOK(u)
      <3> SUFFICES ASSUME NEW p \in 1..Len(u), ~u[p].ready
                   PROVE  \/ u[p].kind = "buffer" /\ u[p].open
                          \/ u[p].kind = "reserved" /\ p > 1 /\ u[p - 1].kind = "buffer"
        BY DEF SlotsOK
      <3>1. p \in 1..Len(s) /\ (p > 1 => p - 1 \in 1..Len(s))
        BY <1>1, <1>2
      <3>2. QED
        BY <1>2, <3>1 DEF ChainOK, SlotsOK
    <2>3. QED  BY <2>1, <2>2
  <1>4. TasksOK(u, n + 1)
    <2> SUFFICES ASSUME NEW p \in 1..Len(s)
                 PROVE  /\ u[p].items # {} /\ u[p].items \subseteq 1..(n + 1)
                        /\ u[p].open => p = Len(u) /\ u[p].kind = "buffer" /\ ~u[p].ready
      BY <1>2 DEF TasksOK
    <2>1. /\ s[p].items # {} /\ s[p].items \subseteq 1..n
          /\ s[p].open => p = Len(s) /\ s[p].kind = "buffer" /\ ~s[p].ready
      BY DEF ChainOK, TasksOK
    <2>2. u[p].items = s[p].items \/ u[p].items = s[p].items \cup {n + 1}
      BY <1>2
    <2>3. QED  BY <1>2, <2>1, <2>2
  <1>5. OrderOK(u)
    <2> SUFFICES ASSUME NEW p \in 1..Len(s), NEW q \in 1..Len(s), p < q,
                        NEW i \in u[p].items, NEW j \in u[q].items
                 PROVE  i < j
      BY <1>2 DEF OrderOK
    <2>1. p # Len(s) /\ u[p] = s[p]
      BY <1>1, <1>2
    <2>2. CASE j \in s[q].items
      BY <2>1, <2>2 DEF ChainOK, OrderOK
    <2>3. CASE j \notin s[q].items
      <3>1. j = n + 1
        BY <1>2, <2>3
      <3>2. QED  BY <2>1, <3>1 DEF ChainOK, TasksOK
    <2>4. QED  BY <2>2, <2>3
  <1>6. QED
    BY <1>2, <1>3, <1>4, <1>5 DEF ChainOK, u

\* The head is done; the slot behind it is released if it waits for it.
LEMMA TailFacts ==
    ASSUME NEW s \in Seq(Tasks), s # <<>>
    PROVE  LET u == Released(Tail(s))
           IN /\ u \in Seq(Tasks) /\ Len(u) = Len(s) - 1
              /\ \A p \in 1..Len(u) :
                    /\ u[p].kind = s[p + 1].kind
                    /\ u[p].open = s[p + 1].open
                    /\ u[p].items = s[p + 1].items
                    /\ s[p + 1].ready => u[p].ready
                    /\ p = 1 /\ s[2].kind = "reserved" => u[p].ready
                    /\ p # 1 => u[p] = s[p + 1]
                    /\ s[p + 1].kind # "reserved" => u[p] = s[p + 1]
  <1> DEFINE v == Tail(s)
             t == v[1]
             w == [t EXCEPT !.ready = TRUE]
  <1>1. /\ v \in Seq(Tasks) /\ Len(v) = Len(s) - 1 /\ Len(v) \in Nat
        /\ \A p \in 1..Len(v) : v[p] = s[p + 1]
        /\ v # <<>> => 1 \in 1..Len(v)
    OBVIOUS
  <1> HIDE DEF v
  <1>2. CASE v # <<>> /\ t.kind = "reserved"
    <2>1. w \in Tasks /\ w.kind = t.kind /\ w.open = t.open /\ w.items = t.items /\ w.ready
      <3>1. t \in Tasks
        BY <1>1, <1>2
      <3> HIDE DEF t
      <3>2. QED  BY <3>1 DEF Tasks
    <2>2. Released(v) = [v EXCEPT ![1] = w]
      BY <1>2 DEF Released
    <2> DEFINE u == [v EXCEPT ![1] = w]
    <2>3. /\ u \in Seq(Tasks) /\ Len(u) = Len(v) /\ u[1] = w
          /\ \A p \in 1..Len(v) : p # 1 => u[p] = v[p]
      <3> HIDE DEF w
      <3> QED  BY <1>1, <1>2, <2>1
    <2> HIDE DEF u, w
    <2>4. t = s[2] /\ v[1] = t
      BY <1>1, <1>2
    <2> HIDE DEF t
    <2>5. Released(v) = u /\ Len(u) = Len(s) - 1
      BY <1>1, <2>2, <2>3 DEF u
    <2>6. ASSUME NEW p \in 1..Len(u)
          PROVE  /\ u[p].kind = s[p + 1].kind
                 /\ u[p].open = s[p + 1].open
                 /\ u[p].items = s[p + 1].items
                 /\ s[p + 1].ready => u[p].ready
                 /\ p = 1 /\ s[2].kind = "reserved" => u[p].ready
                 /\ p # 1 => u[p] = s[p + 1]
                 /\ s[p + 1].kind # "reserved" => u[p] = s[p + 1]
      <3>1. CASE p = 1
        BY <1>2, <2>1, <2>3, <2>4, <3>1
      <3>2. CASE p # 1
        BY <1>1, <2>3, <3>2
      <3>3. QED  BY <3>1, <3>2
    <2>7. QED
      BY <2>3, <2>5, <2>6 DEF v
  <1>3. CASE ~(v # <<>> /\ t.kind = "reserved")
    <2>1. Released(v) = v
      BY <1>3 DEF Released
    <2>2. v # <<>> => t = s[2]
      BY <1>1
    <2> HIDE DEF t
    <2>3. ASSUME NEW p \in 1..Len(v)
          PROVE  v[p] = s[p + 1] /\ (p = 1 => s[2].kind # "reserved")
      BY <1>1, <1>3, <2>2
    <2>4. QED
      BY <1>1, <2>1, <2>3 DEF v
  <1>4. QED  BY <1>2, <1>3

LEMMA TailOK ==
    ASSUME NEW s, NEW n \in Nat, ChainOK(s, TRUE, n)
    PROVE  ChainOK(Released(Tail(s)), FALSE, n)
  <1> DEFINE u == Released(Tail(s))
  <1>1. s \in Seq(Tasks) /\ s # <<>> /\ Len(s) \in Nat
    BY DEF ChainOK
  <1>2. /\ u \in Seq(Tasks) /\ Len(u) = Len(s) - 1
        /\ \A p \in 1..Len(u) :
              /\ p + 1 \in 1..Len(s)
              /\ u[p].kind = s[p + 1].kind /\ u[p].open = s[p + 1].open
              /\ u[p].items = s[p + 1].items
              /\ s[p + 1].ready => u[p].ready
              /\ p = 1 /\ s[2].kind = "reserved" => u[p].ready
              /\ p # 1 => u[p] = s[p + 1]
              /\ s[p + 1].kind # "reserved" => u[p] = s[p + 1]
    BY <1>1, TailFacts
  <1> HIDE DEF u
  <1>3. TasksOK(u, n)
    <2> SUFFICES ASSUME NEW p \in 1..Len(u)
                 PROVE  /\ u[p].items # {} /\ u[p].items \subseteq 1..n
                        /\ u[p].open => p = Len(u) /\ u[p].kind = "buffer" /\ ~u[p].ready
      BY DEF TasksOK
    <2>1. /\ s[p + 1].items # {} /\ s[p + 1].items \subseteq 1..n
          /\ s[p + 1].open => p + 1 = Len(s) /\ s[p + 1].kind = "buffer" /\ ~s[p + 1].ready
      BY <1>2 DEF ChainOK, TasksOK
    <2>2. u[p].open => u[p] = s[p + 1]
      BY <1>2, <2>1
    <2>3. QED
      BY <1>1, <1>2, <2>1, <2>2
  <1>4. SlotsOK(u)
    <2> SUFFICES ASSUME NEW p \in 1..Len(u), ~u[p].ready
                 PROVE  \/ u[p].kind = "buffer" /\ u[p].open
                        \/ u[p].kind = "reserved" /\ p > 1 /\ u[p - 1].kind = "buffer"
      BY DEF SlotsOK
    <2>1. p \in Nat /\ p + 1 \in 1..Len(s) /\ ~s[p + 1].ready
      BY <1>2
    <2>2. \/ s[p + 1].kind = "buffer" /\ s[p + 1].open
          \/ s[p + 1].kind = "reserved" /\ s[(p + 1) - 1].kind = "buffer"
      BY <2>1 DEF ChainOK, SlotsOK
    <2>3. CASE s[p + 1].kind = "buffer" /\ s[p + 1].open
      BY <1>2, <2>3
    <2>4. CASE s[p + 1].kind = "reserved" /\ s[(p + 1) - 1].kind = "buffer"
      <3>1. p # 1
        BY <1>2, <2>4
      <3>2. p > 1 /\ p - 1 \in 1..Len(u) /\ (p - 1) + 1 = (p + 1) - 1
        BY <1>1, <1>2, <3>1
      <3>3. u[p - 1].kind = "buffer"
        BY <1>2, <2>4, <3>2
      <3>4. QED  BY <1>2, <2>4, <3>2, <3>3
    <2>5. QED  BY <2>2, <2>3, <2>4
  <1>5. OrderOK(u)
    <2> SUFFICES ASSUME NEW p \in 1..Len(u), NEW q \in 1..Len(u), p < q,
                        NEW i \in u[p].items, NEW j \in u[q].items
                 PROVE  i < j
      BY DEF OrderOK
    <2>1. p + 1 \in 1..Len(s) /\ q + 1 \in 1..Len(s) /\ p + 1 < q + 1
      BY <1>2
    <2>2. i \in s[p + 1].items /\ j \in s[q + 1].items
      BY <1>2
    <2>3. QED
      BY <2>1, <2>2 DEF ChainOK, OrderOK
  <1>6. QED
    BY <1>2, <1>3, <1>4, <1>5 DEF ChainOK, u

\* More arrivals leave a chain as it is.
LEMMA ArriveOK ==
    ASSUME NEW s, NEW r \in BOOLEAN, NEW n \in Nat, ChainOK(s, r, n)
    PROVE  ChainOK(s, r, n + 1)
  <1>1. 1..n \subseteq 1..(n + 1)
    OBVIOUS
  <1>2. TasksOK(s, n + 1)
    BY <1>1 DEF ChainOK, TasksOK
  <1>3. QED  BY <1>2 DEF ChainOK

\* A chain whose last task is not in the map has no task in the map.
LEMMA ClosedOK ==
    ASSUME NEW s, NEW r, NEW n, ChainOK(s, r, n), ~(s # <<>> /\ Last(s).open)
    PROVE  Closed(s)
  <1>1. s \in Seq(Tasks) /\ Len(s) \in Nat
    BY DEF ChainOK
  <1>2. QED
    BY <1>1 DEF ChainOK, TasksOK, Closed, Last
-----------------------------------------------------------------------------
(* The steps: each is an operation on the chain of one key.                *)

\* Only the chain of k changes, and n items have arrived afterwards.
LEMMA OneChain ==
    ASSUME IInv, NEW k \in Keys, NEW s, NEW r \in BOOLEAN,
           ChainOK(s, r, arrived'),
           chain' = [chain EXCEPT ![k] = s],
           running' = [running EXCEPT ![k] = r],
           arrived' = arrived \/ Arrive
    PROVE  IInv'
  <1>1. arrived \in Nat /\ arrived' \in 0..MaxItems /\ (arrived' = arrived \/ arrived' = arrived + 1)
    BY BoundsAssumption DEF IInv, Arrive
  <1>2. chain' \in [Keys -> Seq(Tasks)] /\ running' \in [Keys -> BOOLEAN]
    BY DEF IInv, ChainOK
  <1>3. ASSUME NEW q \in Keys
        PROVE  ChainOK(chain'[q], running'[q], arrived')
    <2>1. CASE q = k
      BY <2>1 DEF IInv
    <2>2. CASE q # k
      <3>1. chain'[q] = chain[q] /\ running'[q] = running[q]
        BY <2>2 DEF IInv
      <3>2. ChainOK(chain[q], running[q], arrived) /\ running[q] \in BOOLEAN
        BY DEF IInv
      <3>3. ChainOK(chain[q], running[q], arrived + 1)
        BY <1>1, <3>2, ArriveOK
      <3>4. QED
        BY <1>1, <3>1, <3>2, <3>3
    <2>3. QED  BY <2>1, <2>2
  <1>4. QED
    BY <1>1, <1>2, <1>3 DEF IInv

LEMMA NewTasks ==
    ASSUME NEW i \in Items
    PROVE  Buffer(i) \in Tasks /\ Reserved(i) \in Tasks /\ Now(i) \in Tasks
  BY DEF Buffer, Reserved, Now, Tasks

LEMMA EnqueueOK ==
    ASSUME IInv, NEW k \in Keys, Enqueue(k)
    PROVE  IInv'
  <1> DEFINE s == chain[k]
             r == running[k]
  <1>1. /\ arrived \in Nat /\ Arrive /\ arrived' = arrived + 1 /\ arrived + 1 \in Items
        /\ r \in BOOLEAN /\ ChainOK(s, r, arrived)
        /\ running' = [running EXCEPT ![k] = r]
    <2>1. r \in BOOLEAN /\ ChainOK(s, r, arrived) /\ arrived \in Nat
      BY BoundsAssumption DEF IInv
    <2>2. Arrive /\ UNCHANGED running
      BY DEF Enqueue, EnqueueBehindBuffer, EnqueueBehindChain, FlushAtOnce, AddToBuffer,
             EnqueueSaturated, OpenBuffer
    <2>3. arrived' = arrived + 1 /\ arrived + 1 \in Items
      BY <2>1, <2>2, BoundsAssumption DEF Arrive, Items
    <2>4. running' = [running EXCEPT ![k] = r]
      BY <2>2 DEF IInv
    <2>5. QED  BY <2>1, <2>2, <2>3, <2>4
  <1>2. /\ Buffer(arrived + 1) \in Tasks /\ Reserved(arrived + 1) \in Tasks
        /\ Now(arrived + 1) \in Tasks
    BY <1>1, NewTasks
  <1>3. CASE EnqueueBehindBuffer(k)
    <2>1. /\ ChainOK(Flushed(s), r, arrived) /\ Closed(Flushed(s)) /\ Flushed(s) # <<>>
          /\ Flushed(s)[Len(Flushed(s))].kind = "buffer"
      BY <1>1, <1>3, FlushedOK DEF EnqueueBehindBuffer, HasBuffer
    <2>2. ChainOK(Append(Flushed(s), Reserved(arrived + 1)), r, arrived + 1)
      BY <1>1, <1>2, <2>1, AppendOK DEF Reserved
    <2>3. QED
      BY <1>1, <1>3, <2>2, OneChain DEF EnqueueBehindBuffer
  <1>4. CASE EnqueueBehindChain(k) \/ EnqueueSaturated(k)
    <2>1. Closed(s)
      BY <1>1, <1>4, ClosedOK DEF EnqueueBehindChain, EnqueueSaturated, HasBuffer
    <2>2. ChainOK(Append(s, Now(arrived + 1)), r, arrived + 1)
      BY <1>1, <1>2, <2>1, AppendOK DEF Now
    <2>3. QED
      BY <1>1, <1>4, <2>2, OneChain DEF EnqueueBehindChain, EnqueueSaturated
  <1>5. CASE FlushAtOnce(k)
    <2>1. ChainOK(s, r, arrived + 1) /\ chain' = [chain EXCEPT ![k] = s]
      BY <1>1, <1>5, ArriveOK DEF FlushAtOnce, IInv
    <2>2. QED
      BY <1>1, <2>1, OneChain
  <1>6. CASE AddToBuffer(k)
    <2>1. ChainOK(Joined(s, arrived + 1), r, arrived + 1)
      BY <1>1, <1>6, JoinOK DEF AddToBuffer, HasBuffer
    <2>2. QED
      BY <1>1, <1>6, <2>1, OneChain DEF AddToBuffer
  <1>7. CASE OpenBuffer(k)
    <2>1. Closed(s)
      BY <1>1, <1>7, ClosedOK DEF OpenBuffer, HasBuffer
    <2>2. ChainOK(Append(s, Buffer(arrived + 1)), r, arrived + 1)
      BY <1>1, <1>2, <2>1, AppendOK DEF Buffer
    <2>3. QED
      BY <1>1, <1>7, <2>2, OneChain DEF OpenBuffer
  <1>8. QED
    BY <1>3, <1>4, <1>5, <1>6, <1>7 DEF Enqueue

LEMMA FlushBufferOK ==
    ASSUME IInv, NEW k \in Keys, FlushBuffer(k)
    PROVE  IInv'
  <1>1. /\ arrived \in Nat /\ running[k] \in BOOLEAN
        /\ ChainOK(chain[k], running[k], arrived)
        /\ running' = [running EXCEPT ![k] = running[k]]
    BY DEF IInv, FlushBuffer
  <1>2. ChainOK(Flushed(chain[k]), running[k], arrived)
    BY <1>1, FlushedOK DEF FlushBuffer, HasBuffer
  <1>3. QED
    BY <1>1, <1>2, OneChain DEF FlushBuffer

LEMMA StartTaskOK ==
    ASSUME IInv, NEW k \in Keys, StartTask(k)
    PROVE  IInv'
  <1>1. ChainOK(chain[k], TRUE, arrived) /\ chain' = [chain EXCEPT ![k] = chain[k]]
    BY DEF IInv, ChainOK, StartTask
  <1>2. QED
    BY <1>1, OneChain DEF StartTask

LEMMA EndTaskOK ==
    ASSUME IInv, NEW k \in Keys, EndTask(k)
    PROVE  IInv'
  <1>1. ChainOK(chain[k], TRUE, arrived) /\ arrived \in Nat
    <2>1. running[k] = TRUE
      BY DEF IInv, EndTask
    <2>2. ChainOK(chain[k], running[k], arrived) /\ arrived \in Nat
      BY BoundsAssumption DEF IInv
    <2>3. QED  BY <2>1, <2>2 DEF ChainOK
  <1>2. ChainOK(Released(Tail(chain[k])), FALSE, arrived)
    BY <1>1, TailOK
  <1>3. QED
    BY <1>2, OneChain DEF EndTask

\* Every reachable state satisfies the inductive invariant: the chain of each key
\* stays in order, whatever the buffers and flushes of inbound-debounce.ts do.
THEOREM Inductive == Spec => []IInv
  <1>1. Init => IInv
    BY BoundsAssumption DEF Init, IInv, ChainOK, TasksOK, SlotsOK, OrderOK
  <1>2. IInv /\ [Next]_vars => IInv'
    <2> SUFFICES ASSUME IInv, [Next]_vars
                 PROVE  IInv'
      OBVIOUS
    <2>1. CASE UNCHANGED vars
      BY <2>1 DEF vars, IInv
    <2>2. CASE Next
      BY <2>2, EnqueueOK, FlushBufferOK, StartTaskOK, EndTaskOK DEF Next
    <2>3. QED  BY <2>1, <2>2
  <1>3. QED
    BY <1>1, <1>2, PTL DEF Spec
-----------------------------------------------------------------------------
(* The properties of the chains.                                           *)

\* enqueue, flushKey and the chains keep their types, and only a ready task is
\* ever flushed.
THEOREM TypeCorrect == Spec => []TypeOK
  <1>1. IInv => TypeOK
    BY DEF IInv, TypeOK, ChainOK
  <1>2. QED  BY <1>1, Inductive, PTL

\* A buffer of the map is the last task of its key: debounceBuffers and
\* keyChains agree.
THEOREM BufferIsLast == Spec => []OpenIsLast
  <1>1. IInv => OpenIsLast
    BY DEF IInv, OpenIsLast, ChainOK, TasksOK
  <1>2. QED  BY <1>1, Inductive, PTL

\* Every slot that is not ready will be: its timer is set, or it stands behind
\* the buffer whose end releases it.
THEOREM SlotsBecomeReady == Spec => []NoStuckSlot
  <1>1. IInv => NoStuckSlot
    BY DEF IInv, NoStuckSlot, ChainOK, SlotsOK
  <1>2. QED  BY <1>1, Inductive, PTL

\* The tasks of a key hold its items in the order in which they came.
THEOREM KeyOrder == Spec => []ChainInOrder
  <1>1. IInv => ChainInOrder
    BY DEF IInv, ChainInOrder, ChainOK, OrderOK
  <1>2. QED  BY <1>1, Inductive, PTL
-----------------------------------------------------------------------------
(* Each step is a step of the contract.                                    *)

Pending(s, r) == UNION {s[p].items : p \in {p \in 1..Len(s) : p = 1 => ~r}}

LEMMA PendingMember ==
    ASSUME NEW s, NEW r, NEW i
    PROVE  i \in Pending(s, r) <=> \E p \in 1..Len(s) : (p = 1 => ~r) /\ i \in s[p].items
  BY DEF Pending

LEMMA PendingAppend ==
    ASSUME NEW s, NEW r \in BOOLEAN, NEW n, ChainOK(s, r, n), NEW t \in Tasks
    PROVE  Pending(Append(s, t), r) = Pending(s, r) \cup t.items
  <1> DEFINE u == Append(s, t)
  <1>1. /\ Len(s) \in Nat /\ Len(u) = Len(s) + 1 /\ u[Len(s) + 1] = t
        /\ \A p \in 1..Len(s) : u[p] = s[p]
    BY AppendFacts DEF ChainOK
  <1>2. r => Len(s) + 1 # 1
    BY <1>1 DEF ChainOK
  <1> HIDE DEF u
  <1>3. ASSUME NEW i
        PROVE  i \in Pending(u, r) <=> i \in Pending(s, r) \/ i \in t.items
    <2>1. ASSUME i \in Pending(u, r)
          PROVE  i \in Pending(s, r) \/ i \in t.items
      <3>1. PICK p \in 1..Len(u) : (p = 1 => ~r) /\ i \in u[p].items
        BY <2>1, PendingMember
      <3>2. CASE p \in 1..Len(s)
        BY <1>1, <3>1, <3>2, PendingMember
      <3>3. CASE p = Len(s) + 1
        BY <1>1, <3>1, <3>3
      <3>4. QED  BY <1>1, <3>2, <3>3
    <2>2. ASSUME i \in Pending(s, r)
          PROVE  i \in Pending(u, r)
      <3>1. PICK p \in 1..Len(s) : (p = 1 => ~r) /\ i \in s[p].items
        BY <2>2, PendingMember
      <3>2. p \in 1..Len(u) /\ u[p] = s[p]
        BY <1>1
      <3>3. QED  BY <3>1, <3>2, PendingMember
    <2>3. ASSUME i \in t.items
          PROVE  i \in Pending(u, r)
      <3>1. Len(s) + 1 \in 1..Len(u) /\ i \in u[Len(s) + 1].items
        BY <1>1, <2>3
      <3>2. QED  BY <1>2, <3>1, PendingMember
    <2>4. QED  BY <2>1, <2>2, <2>3
  <1>4. QED  BY <1>3 DEF u

LEMMA PendingFlushed ==
    ASSUME NEW s \in Seq(Tasks), s # <<>>, NEW r
    PROVE  Pending(Flushed(s), r) = Pending(s, r)
  <1>1. /\ Len(Flushed(s)) = Len(s)
        /\ \A p \in 1..Len(s) : Flushed(s)[p].items = s[p].items
    BY FlushedFacts
  <1>2. ASSUME NEW i
        PROVE  i \in Pending(Flushed(s), r) <=> i \in Pending(s, r)
    BY <1>1, PendingMember
  <1>3. QED  BY <1>2

LEMMA PendingJoined ==
    ASSUME NEW s, NEW r \in BOOLEAN, NEW n, ChainOK(s, r, n), s # <<>>, Last(s).open,
           NEW i \in Items
    PROVE  Pending(Joined(s, i), r) = Pending(s, r) \cup {i}
  <1> DEFINE u == Joined(s, i)
  <1>1. s \in Seq(Tasks) /\ Len(s) \in 1..Len(s)
    BY DEF ChainOK
  <1>2. /\ Len(u) = Len(s)
        /\ \A p \in 1..Len(s) : p # Len(s) => u[p] = s[p]
        /\ u[Len(s)].items = s[Len(s)].items \cup {i}
    BY <1>1, JoinedFacts
  <1>3. Len(s) = 1 => ~r
    BY <1>1 DEF ChainOK, TasksOK, Last
  <1> HIDE DEF u
  <1>4. ASSUME NEW j
        PROVE  j \in Pending(u, r) <=> j \in Pending(s, r) \/ j = i
    <2>1. ASSUME j \in Pending(u, r)
          PROVE  j \in Pending(s, r) \/ j = i
      <3>1. PICK p \in 1..Len(s) : (p = 1 => ~r) /\ j \in u[p].items
        BY <1>2, <2>1, PendingMember
      <3>2. j \in s[p].items \/ j = i
        BY <1>2, <3>1
      <3>3. QED  BY <3>1, <3>2, PendingMember
    <2>2. ASSUME j \in Pending(s, r)
          PROVE  j \in Pending(u, r)
      <3>1. PICK p \in 1..Len(s) : (p = 1 => ~r) /\ j \in s[p].items
        BY <2>2, PendingMember
      <3>2. p \in 1..Len(u) /\ j \in u[p].items
        BY <1>2, <3>1
      <3>3. QED  BY <3>1, <3>2, PendingMember
    <2>3. i \in Pending(u, r)
      <3>1. Len(s) \in 1..Len(u) /\ i \in u[Len(s)].items
        BY <1>1, <1>2
      <3>2. QED  BY <1>3, <3>1, PendingMember
    <2>4. QED  BY <2>1, <2>2, <2>3
  <1>5. QED  BY <1>4 DEF u

LEMMA PendingStart ==
    ASSUME NEW s, NEW r, NEW n \in Nat, ChainOK(s, r, n), s # <<>>
    PROVE  /\ Pending(s, TRUE) = Pending(s, FALSE) \ s[1].items
           /\ s[1].items \subseteq Pending(s, FALSE)
           /\ s[1].items # {}
           /\ \A i \in s[1].items, j \in Pending(s, FALSE) \ s[1].items : i < j
  <1>1. s \in Seq(Tasks) /\ 1 \in 1..Len(s) /\ Len(s) \in Nat
    BY DEF ChainOK
  <1>2. \A p \in 1..Len(s) : s[p].items \subseteq Nat
    BY DEF ChainOK, TasksOK
  <1>3. ASSUME NEW j \in Pending(s, FALSE), j \notin s[1].items
        PROVE  j \in Pending(s, TRUE) /\ \A i \in s[1].items : i < j
    <2>1. PICK p \in 1..Len(s) : j \in s[p].items
      BY PendingMember
    <2>2. p # 1 /\ 1 < p
      BY <1>1, <1>3, <2>1
    <2>3. QED
      BY <1>1, <2>1, <2>2, PendingMember DEF ChainOK, OrderOK
  <1>4. ASSUME NEW j \in Pending(s, TRUE)
        PROVE  j \in Pending(s, FALSE) /\ j \notin s[1].items
    <2>1. PICK p \in 1..Len(s) : p # 1 /\ j \in s[p].items
      BY PendingMember
    <2>2. j \in Nat /\ 1 < p
      BY <1>1, <1>2, <2>1
    <2>3. j \in s[1].items => j < j
      BY <1>1, <2>1, <2>2 DEF ChainOK, OrderOK
    <2>4. j \notin s[1].items
      BY <2>2, <2>3
    <2>5. j \in Pending(s, FALSE)
      BY <2>1, PendingMember
    <2>6. QED  BY <2>4, <2>5
  <1>5. s[1].items \subseteq Pending(s, FALSE) /\ s[1].items # {}
    BY <1>1, PendingMember DEF ChainOK, TasksOK
  <1>6. QED  BY <1>3, <1>4, <1>5

LEMMA PendingEnd ==
    ASSUME NEW s \in Seq(Tasks), s # <<>>
    PROVE  Pending(Released(Tail(s)), FALSE) = Pending(s, TRUE)
  <1> DEFINE u == Released(Tail(s))
  <1>1. /\ Len(s) \in Nat /\ Len(u) = Len(s) - 1
        /\ \A p \in 1..Len(u) : u[p].items = s[p + 1].items
    BY TailFacts
  <1> HIDE DEF u
  <1>2. ASSUME NEW i \in Pending(u, FALSE)
        PROVE  i \in Pending(s, TRUE)
    <2>1. PICK p \in 1..Len(u) : i \in u[p].items
      BY PendingMember
    <2>2. p + 1 \in 1..Len(s) /\ p + 1 # 1 /\ i \in s[p + 1].items
      BY <1>1, <2>1
    <2>3. QED  BY <2>2, PendingMember
  <1>3. ASSUME NEW i \in Pending(s, TRUE)
        PROVE  i \in Pending(u, FALSE)
    <2>1. PICK p \in 1..Len(s) : p # 1 /\ i \in s[p].items
      BY PendingMember
    <2>2. p - 1 \in 1..Len(u) /\ (p - 1) + 1 = p
      BY <1>1, <2>1
    <2>3. i \in u[p - 1].items
      BY <1>1, <2>1, <2>2
    <2>4. QED  BY <2>2, <2>3, PendingMember
  <1>4. QED  BY <1>2, <1>3 DEF u

waitingOf == [k \in Keys |-> Waiting(k)]

\* Only the items waiting on k change.
LEMMA OneKey ==
    ASSUME NEW k \in Keys, NEW s, NEW r, IInv,
           chain' = [chain EXCEPT ![k] = s], running' = [running EXCEPT ![k] = r]
    PROVE  waitingOf' = [waitingOf EXCEPT ![k] = Pending(s, r)]
  <1>1. ASSUME NEW q \in Keys
        PROVE  Waiting(q)' = (IF q = k THEN Pending(s, r) ELSE Waiting(q))
    <2>1. chain'[q] = (IF q = k THEN s ELSE chain[q]) /\ running'[q] = (IF q = k THEN r ELSE running[q])
      BY DEF IInv
    <2>2. QED  BY <2>1 DEF Waiting, Pending
  <1>2. QED  BY <1>1 DEF waitingOf

LEMMA StepRefines ==
    ASSUME IInv, NEW k \in Keys,
           Enqueue(k) \/ FlushBuffer(k) \/ StartTask(k) \/ EndTask(k)
    PROVE  Contract!Next \/ UNCHANGED Contract!vars
  <1> DEFINE s == chain[k]
             r == running[k]
  <1>1. /\ arrived \in Nat /\ r \in BOOLEAN /\ ChainOK(s, r, arrived) /\ s \in Seq(Tasks)
        /\ waitingOf \in [Keys -> {Waiting(q) : q \in Keys}]
        /\ waitingOf[k] = Pending(s, r)
    BY BoundsAssumption DEF IInv, ChainOK, waitingOf, Waiting, Pending
  <1>2. UNCHANGED running => running' = [running EXCEPT ![k] = r]
    BY DEF IInv
  <1>3. CASE Enqueue(k) /\ ~FlushAtOnce(k)
    <2>1. Arrive /\ UNCHANGED running /\ arrived' = arrived + 1 /\ arrived + 1 \in Items
      BY <1>1, <1>3, BoundsAssumption DEF Enqueue, EnqueueBehindBuffer, EnqueueBehindChain,
         AddToBuffer, EnqueueSaturated, OpenBuffer, Arrive, Items
    <2>2. \E u : /\ chain' = [chain EXCEPT ![k] = u]
                 /\ Pending(u, r) = Pending(s, r) \cup {arrived + 1}
      <3>1. /\ Buffer(arrived + 1) \in Tasks /\ Reserved(arrived + 1) \in Tasks
            /\ Now(arrived + 1) \in Tasks
        BY <2>1, NewTasks
      <3>2. CASE EnqueueBehindBuffer(k)
        <4>1. s # <<>> /\ ChainOK(Flushed(s), r, arrived)
          BY <1>1, <3>2, FlushedOK DEF EnqueueBehindBuffer, HasBuffer
        <4>2. Pending(Append(Flushed(s), Reserved(arrived + 1)), r) = Pending(s, r) \cup {arrived + 1}
          BY <1>1, <3>1, <4>1, PendingAppend, PendingFlushed DEF Reserved
        <4>3. QED
          BY <2>1, <3>2, <4>2 DEF EnqueueBehindBuffer
      <3>3. CASE EnqueueBehindChain(k) \/ EnqueueSaturated(k)
        <4>1. Pending(Append(s, Now(arrived + 1)), r) = Pending(s, r) \cup {arrived + 1}
          BY <1>1, <3>1, PendingAppend DEF Now
        <4>2. QED
          BY <2>1, <3>3, <4>1 DEF EnqueueBehindChain, EnqueueSaturated
      <3>4. CASE AddToBuffer(k)
        <4>1. Pending(Joined(s, arrived + 1), r) = Pending(s, r) \cup {arrived + 1}
          BY <1>1, <2>1, <3>4, PendingJoined DEF AddToBuffer, HasBuffer
        <4>2. QED
          BY <2>1, <3>4, <4>1 DEF AddToBuffer
      <3>5. CASE OpenBuffer(k)
        <4>1. Pending(Append(s, Buffer(arrived + 1)), r) = Pending(s, r) \cup {arrived + 1}
          BY <1>1, <3>1, PendingAppend DEF Buffer
        <4>2. QED
          BY <2>1, <3>5, <4>1 DEF OpenBuffer
      <3>6. QED
        BY <1>3, <3>2, <3>3, <3>4, <3>5 DEF Enqueue
    <2>3. waitingOf' = [waitingOf EXCEPT ![k] = waitingOf[k] \cup {arrived + 1}]
      <3>1. PICK u : /\ chain' = [chain EXCEPT ![k] = u]
                     /\ Pending(u, r) = Pending(s, r) \cup {arrived + 1}
        BY <2>2
      <3>2. waitingOf' = [waitingOf EXCEPT ![k] = Pending(u, r)]
        BY <1>2, <2>1, <3>1, OneKey
      <3>3. QED  BY <1>1, <3>1, <3>2
    <2>4. Contract!Accept(k)
      BY <2>1, <2>3 DEF Contract!Accept, Arrive, waitingOf
    <2>5. QED  BY <2>4 DEF Contract!Next
  <1>4. CASE FlushAtOnce(k)
    <2>1. waitingOf[k] = {}
      BY <1>1, <1>4, PendingMember DEF FlushAtOnce
    <2>2. waitingOf' = waitingOf
      BY <1>4 DEF FlushAtOnce, waitingOf, Waiting
    <2>3. Contract!PassThrough(k)
      BY <1>4, <2>1, <2>2 DEF FlushAtOnce, Arrive, Contract!PassThrough, waitingOf
    <2>4. QED  BY <2>3 DEF Contract!Next
  <1>5. CASE FlushBuffer(k)
    <2>1. Pending(Flushed(s), r) = waitingOf[k]
      BY <1>1, <1>5, PendingFlushed DEF FlushBuffer, HasBuffer
    <2>2. waitingOf' = [waitingOf EXCEPT ![k] = waitingOf[k]]
      <3>1. chain' = [chain EXCEPT ![k] = Flushed(s)] /\ UNCHANGED running
        BY <1>5 DEF FlushBuffer
      <3>2. waitingOf' = [waitingOf EXCEPT ![k] = Pending(Flushed(s), r)]
        BY <1>2, <3>1, OneKey
      <3>3. QED  BY <2>1, <3>2
    <2>3. waitingOf' = waitingOf /\ arrived' = arrived
      BY <1>1, <1>5, <2>2 DEF FlushBuffer
    <2>4. QED  BY <2>3 DEF Contract!vars, waitingOf
  <1>6. CASE StartTask(k)
    <2>1. s # <<>> /\ r = FALSE /\ arrived' = arrived
      BY <1>1, <1>6 DEF StartTask
    <2>2. chain' = [chain EXCEPT ![k] = s] /\ running' = [running EXCEPT ![k] = TRUE]
      BY <1>6 DEF StartTask, IInv
    <2>3. waitingOf' = [waitingOf EXCEPT ![k] = Pending(s, TRUE)]
      BY <2>2, OneKey
    <2> DEFINE B == s[1].items
    <2>4. /\ Pending(s, TRUE) = waitingOf[k] \ B /\ B \subseteq waitingOf[k] /\ B # {}
          /\ \A i \in B, j \in waitingOf[k] \ B : i < j
      <3>1. waitingOf[k] = Pending(s, FALSE)
        BY <1>1, <2>1
      <3>2. /\ Pending(s, TRUE) = Pending(s, FALSE) \ B /\ B \subseteq Pending(s, FALSE)
            /\ B # {} /\ \A i \in B, j \in Pending(s, FALSE) \ B : i < j
        BY <1>1, <2>1, PendingStart
      <3>3. QED  BY <3>1, <3>2
    <2>5. Contract!Flush(k, B)
      BY <2>1, <2>3, <2>4 DEF Contract!Flush, waitingOf
    <2>6. B \in SUBSET waitingOf[k]
      BY <2>4
    <2>7. QED  BY <2>5, <2>6 DEF Contract!Next, waitingOf
  <1>7. CASE EndTask(k)
    <2>1. r = TRUE /\ s # <<>> /\ arrived' = arrived
      BY <1>1, <1>7 DEF EndTask, ChainOK
    <2>2. Pending(Released(Tail(s)), FALSE) = waitingOf[k]
      <3>1. waitingOf[k] = Pending(s, TRUE)
        BY <1>1, <2>1
      <3>2. QED  BY <1>1, <2>1, <3>1, PendingEnd
    <2>3. waitingOf' = [waitingOf EXCEPT ![k] = waitingOf[k]]
      <3>1. /\ chain' = [chain EXCEPT ![k] = Released(Tail(s))]
            /\ running' = [running EXCEPT ![k] = FALSE]
        BY <1>7 DEF EndTask
      <3>2. waitingOf' = [waitingOf EXCEPT ![k] = Pending(Released(Tail(s)), FALSE)]
        BY <3>1, OneKey
      <3>3. QED  BY <2>2, <3>2
    <2>4. waitingOf' = waitingOf
      BY <1>1, <2>3
    <2>5. QED  BY <2>1, <2>4 DEF Contract!vars, waitingOf
  <1>8. QED
    BY <1>3, <1>4, <1>5, <1>6, <1>7

\* The debouncer implements InboundContract: on each key the batches follow the
\* order of arrival, and no item is lost or flushed twice.
THEOREM ContractKept == Spec => Contract!Spec
  <1>1. Init => Contract!Init
    BY DEF Init, Contract!Init, Waiting
  <1>2. IInv /\ [Next]_vars => [Contract!Next]_(Contract!vars)
    <2> SUFFICES ASSUME IInv, [Next]_vars
                 PROVE  Contract!Next \/ UNCHANGED Contract!vars
      OBVIOUS
    <2>1. CASE UNCHANGED vars
      BY <2>1 DEF vars, Contract!vars, Waiting
    <2>2. CASE Next
      BY <2>2, StepRefines DEF Next
    <2>3. QED  BY <2>1, <2>2
  <1>3. QED
    BY <1>1, <1>2, Inductive, PTL DEF Spec, Contract!Spec
=============================================================================
