--------------------------- MODULE TaskListProofs ---------------------------
(***************************************************************************)
(* Proofs about TaskList, for every set of task blocks.                    *)
(***************************************************************************)
EXTENDS TaskList, TLAPS

(* The history lists no task twice. *)
Distinct ==
    \A i, j \in 1 .. Len(order) : order[i] = order[j] => i = j

(* The C types, with no claim yet that a pointer is not NULL. *)
Shape ==
    /\ q \in [head : Pointer, tail : Pointer, current : Pointer,
               next : [Task -> Pointer], prev : [Task -> Pointer]]
    /\ live \subseteq Task
    /\ order \in Seq(Task)

IInv == Shape /\ QueueIsOrder /\ CurrentIsLive /\ Distinct

(* Every task's prev is the task in front of it. *)
AllPrevRight ==
    \A k \in 1 .. Len(order) : q.prev[order[k]] = IF k = 1 THEN NULL ELSE order[k - 1]

-----------------------------------------------------------------------------
(* Operators *)

List == [head : Pointer, tail : Pointer, current : Pointer,
         next : [Task -> Pointer], prev : [Task -> Pointer]]

(* task_new() keeps the shape of the list.                                 *)
LEMMA NewType ==
    ASSUME NEW l \in List, NEW t \in Task
    PROVE  task_new(l, t) \in List
  BY DEF task_new, List, Pointer

(* What task_new() does to a list that is not empty. *)
LEMMA NewAppends ==
    ASSUME NEW l \in List, NEW t \in Task,
           l.head # NULL, l.tail \in Task, l.tail # t
    PROVE  LET m == task_new(l, t)
           IN  /\ m.head = l.head /\ m.tail = t /\ m.current = l.current
               /\ m.next[t] = NULL /\ m.next[l.tail] = t
               /\ m.prev[t] = l.tail
               /\ \A u \in Task \ {t, l.tail} : m.next[u] = l.next[u]
               /\ \A u \in Task \ {t} : m.prev[u] = l.prev[u]
  BY DEF task_new, List

(* What task_new() does to an empty list. *)
LEMMA NewOnEmpty ==
    ASSUME NEW l \in List, NEW t \in Task, l.head = NULL
    PROVE  LET m == task_new(l, t)
           IN  m.head = t /\ m.tail = t /\ m.current = t /\ m.next[t] = NULL /\ m.prev[t] = NULL
  BY DEF task_new, List

(* task_list_remove() keeps the shape of the list.                         *)
LEMMA RemoveType ==
    ASSUME NEW l \in List, NEW t \in Task, l.current \in Task
    PROVE  task_list_remove(l, t) \in List
<1> DEFINE m == IF l.prev[t] = NULL THEN l ELSE [l EXCEPT !.next[l.prev[t]] = l.next[t]]
<1>1. m \in List /\ m.current \in Task /\ l.prev[t] \in Pointer
  BY DEF List
<1>2. task_get_next(m) \in Pointer
  BY <1>1 DEF task_get_next, List
<1> QED
  BY <1>1, <1>2 DEF task_list_remove, List

(* task_switch_next() keeps the shape of the list.                         *)
LEMMA SwitchNextType ==
    ASSUME NEW l \in List, l.current \in Task
    PROVE  task_switch_next(l) \in List
  BY DEF task_switch_next, task_switch, task_get_next, List

(* A round robin step leaves the links alone. *)
LEMMA SwitchNextLinks ==
    ASSUME NEW l \in List
    PROVE  LET m == task_switch_next(l)
           IN  /\ m.head = l.head /\ m.tail = l.tail /\ m.next = l.next /\ m.prev = l.prev
               /\ m.current = IF l.next[l.current] = NULL THEN l.head ELSE l.next[l.current]
  BY DEF task_switch_next, task_switch, task_get_next, List

(* What task_list_remove() does, case by case. *)
LEMMA RemoveEffect ==
    ASSUME NEW l \in List, NEW t \in Task
    PROVE  LET m == task_list_remove(l, t)
               after == IF l.next[t] = NULL THEN l.head ELSE l.next[t]
           IN  /\ m.prev = l.prev
               /\ \A u \in Task : m.next[u] = IF u = l.prev[t] THEN l.next[t] ELSE l.next[u]
               /\ m.head = IF t = l.head THEN l.next[t] ELSE l.head
               /\ m.tail = IF t # l.head /\ t = l.tail THEN l.prev[t] ELSE l.tail
               /\ m.current = IF t # l.head /\ t # l.tail /\ t = l.current
                              THEN after ELSE l.current
<1> DEFINE m == IF l.prev[t] = NULL THEN l ELSE [l EXCEPT !.next[l.prev[t]] = l.next[t]]
<1>1. /\ m.prev = l.prev /\ m.head = l.head /\ m.tail = l.tail /\ m.current = l.current
      /\ m \in List
      /\ \A u \in Task : m.next[u] = IF u = l.prev[t] THEN l.next[t] ELSE l.next[u]
  BY TaskAssumption DEF List
<1>2. m.next[t] = l.next[t]
  BY <1>1
<1> HIDE DEF m
<1>3. task_list_remove(l, t) =
        IF t = l.head THEN [m EXCEPT !.head = m.next[t]]
        ELSE IF t = l.tail THEN [m EXCEPT !.tail = l.prev[t]]
        ELSE IF t = l.current THEN [m EXCEPT !.current = task_get_next(m)]
        ELSE m
  BY DEF task_list_remove, m
<1> QED
  BY <1>1, <1>2, <1>3 DEF task_get_next, List

-----------------------------------------------------------------------------
(* Lists that are linked up *)

Tasks(o) == {o[i] : i \in 1 .. Len(o)}

(* The list l enumerates the tasks of o, in their order. *)
Linked(l, o) ==
    /\ l \in List
    /\ o \in Seq(Task) /\ o # <<>>
    /\ l.head = o[1] /\ l.tail = o[Len(o)]
    /\ \A i \in 1 .. Len(o) : l.next[o[i]] = IF i = Len(o) THEN NULL ELSE o[i + 1]
    /\ \A i, j \in 1 .. Len(o) : o[i] = o[j] => i = j

(* From its current task, which may be one just freed, it goes on in o.    *)
LeadsInto(l, o) ==
    /\ l.current \in Task
    /\ l.current \in Tasks(o) \/ l.next[l.current] \in Tasks(o) \cup {NULL}

WithoutAt(o, k) == [i \in 1 .. (Len(o) - 1) |-> IF i < k THEN o[i] ELSE o[i + 1]]

(* The next task is one of the list, also after a removal. *)
LEMMA NextIsLinked ==
    ASSUME NEW l, NEW o, Linked(l, o), LeadsInto(l, o)
    PROVE  task_get_next(l) \in Tasks(o)
<1>1. Len(o) \in Nat /\ 1 \in 1 .. Len(o) /\ NULL \notin Tasks(o) /\ l.head \in Tasks(o)
  BY TaskAssumption DEF Linked, Tasks
<1>2. CASE l.current \in Tasks(o)
  <2>1. PICK i \in 1 .. Len(o) : l.current = o[i]
    BY <1>2 DEF Tasks
  <2>2. l.next[l.current] = IF i = Len(o) THEN NULL ELSE o[i + 1]
    BY <2>1 DEF Linked
  <2> QED
    BY <1>1, <2>2 DEF task_get_next, Tasks
<1>3. CASE l.next[l.current] \in Tasks(o) \cup {NULL}
  BY <1>1, <1>3 DEF task_get_next
<1> QED
  BY <1>2, <1>3 DEF LeadsInto

(* A task that is not in the list joins it at its end. *)
LEMMA NewLinked ==
    ASSUME NEW l, NEW o, Linked(l, o), NEW t \in Task, t \notin Tasks(o)
    PROVE  LET m == task_new(l, t)
           IN  /\ Linked(m, Append(o, t))
               /\ Tasks(Append(o, t)) = Tasks(o) \cup {t}
               /\ m.current = l.current
               /\ LeadsInto(l, o) => LeadsInto(m, Append(o, t))
<1> DEFINE n == Len(o)
           w == Append(o, t)
           m == task_new(l, t)
<1>1. /\ l \in List /\ o \in Seq(Task) /\ n \in Nat /\ n >= 1
      /\ \A k \in 1 .. n : o[k] \in Task /\ o[k] \in Tasks(o)
      /\ l.tail = o[n] /\ l.head = o[1]
  BY DEF Linked, Tasks
<1>2. /\ w \in Seq(Task) /\ Len(w) = n + 1 /\ w[n + 1] = t
      /\ \A k \in 1 .. n : w[k] = o[k]
  BY <1>1
<1>3. l.head # NULL /\ l.tail \in Task /\ l.tail # t
  BY <1>1, TaskAssumption
<1>4. /\ m \in List /\ m.head = l.head /\ m.tail = t /\ m.current = l.current
      /\ m.next[t] = NULL /\ m.next[l.tail] = t
      /\ \A u \in Task \ {t, l.tail} : m.next[u] = l.next[u]
  BY <1>1, <1>3, NewType, NewAppends
<1>5. \A i, j \in 1 .. (n + 1) : w[i] = w[j] => i = j
  BY <1>1, <1>2 DEF Linked
<1>6. ASSUME NEW k \in 1 .. (n + 1)
      PROVE  m.next[w[k]] = IF k = n + 1 THEN NULL ELSE w[k + 1]
  <2>1. CASE k = n + 1
    BY <1>2, <1>4, <2>1
  <2>2. CASE k = n
    BY <1>1, <1>2, <1>4, <2>2
  <2>3. CASE k < n
    <3>1. o[k] # o[n] /\ o[k] # t
      BY <1>1, <2>3 DEF Linked
    <3> QED
      BY <1>1, <1>2, <1>4, <2>3, <3>1 DEF Linked
  <2> QED
    BY <1>1, <2>1, <2>2, <2>3
<1>7. Tasks(w) = Tasks(o) \cup {t}
  BY <1>1, <1>2 DEF Tasks
<1>8. Linked(m, w)
  <2>1. w # <<>> /\ w[1] = o[1]
    BY <1>1, <1>2
  <2> QED
    BY <1>1, <1>2, <1>4, <1>5, <1>6, <2>1 DEF Linked
<1>9. ASSUME LeadsInto(l, o)
      PROVE  LeadsInto(m, w)
  <2>1. CASE l.current \in Tasks(o) \/ l.current = t
    BY <1>4, <1>7, <1>9, <2>1 DEF LeadsInto
  <2>2. CASE l.current \notin Tasks(o) /\ l.current # t
    <3>1. m.next[l.current] = l.next[l.current]
      BY <1>1, <1>4, <1>9, <2>2 DEF LeadsInto
    <3> QED
      BY <1>4, <1>7, <1>9, <2>2, <3>1 DEF LeadsInto
  <2> QED
    BY <2>1, <2>2
<1> QED
  BY <1>4, <1>7, <1>8, <1>9

(* The current task leaves a list of several, from position k and with a   *)
(* right prev.                                                             *)
LEMMA RemoveLinked ==
    ASSUME NEW l, NEW o, Linked(l, o), Len(o) >= 2,
           NEW k \in 1 .. Len(o), o[k] = l.current,
           l.prev[l.current] = IF k = 1 THEN NULL ELSE o[k - 1]
    PROVE  LET m == task_list_remove(l, l.current)
               w == WithoutAt(o, k)
           IN  /\ Linked(m, w) /\ LeadsInto(m, w)
               /\ m.prev = l.prev
               /\ Len(w) = Len(o) - 1
               /\ Tasks(w) = Tasks(o) \ {l.current}
<1> DEFINE n == Len(o)
           c == l.current
           m == task_list_remove(l, c)
           w == WithoutAt(o, k)
<1>1. /\ l \in List /\ c \in Task /\ o \in Seq(Task) /\ n \in Nat /\ n >= 2
      /\ \A i \in 1 .. n : o[i] \in Task
      /\ l.head = o[1] /\ l.tail = o[n]
  BY DEF Linked
<1>2. /\ w \in Seq(Task) /\ Len(w) = n - 1
      /\ \A i \in 1 .. (n - 1) : w[i] = IF i < k THEN o[i] ELSE o[i + 1]
  <2>1. w \in [1 .. (n - 1) -> Task] /\ n - 1 \in Nat
    BY <1>1 DEF WithoutAt
  <2>2. w \in Seq(Task)
    BY <2>1
  <2>3. Len(w) = n - 1
    BY <2>1, <2>2
  <2> QED
    BY <2>2, <2>3 DEF WithoutAt
<1> HIDE DEF w
<1>3. \A i, j \in 1 .. n : o[i] = o[j] => i = j
  BY DEF Linked
<1>4. \A i \in 1 .. n : l.next[o[i]] = IF i = n THEN NULL ELSE o[i + 1]
  BY DEF Linked
<1>5. /\ m \in List /\ m.prev = l.prev
      /\ \A u \in Task : m.next[u] = IF u = l.prev[c] THEN l.next[c] ELSE l.next[u]
      /\ m.head = IF c = l.head THEN l.next[c] ELSE l.head
      /\ m.tail = IF c # l.head /\ c = l.tail THEN l.prev[c] ELSE l.tail
      /\ m.current = IF c # l.head /\ c # l.tail
                     THEN IF l.next[c] = NULL THEN l.head ELSE l.next[c]
                     ELSE c
  BY <1>1, RemoveType, RemoveEffect
<1> HIDE DEF m
<1>6. m.head = w[1] /\ m.tail = w[n - 1]
  <2>1. CASE k = 1
    BY <1>1, <1>2, <1>3, <1>4, <1>5, <2>1
  <2>2. CASE k = n
    BY <1>1, <1>2, <1>3, <1>4, <1>5, <2>2
  <2>3. CASE 1 < k /\ k < n
    BY <1>1, <1>2, <1>3, <1>4, <1>5, <2>3
  <2> QED
    BY <1>1, <2>1, <2>2, <2>3
<1>7. ASSUME NEW i \in 1 .. (n - 1)
      PROVE  m.next[w[i]] = IF i = n - 1 THEN NULL ELSE w[i + 1]
  <2>1. CASE i < k - 1
    <3>1. o[i] # l.prev[c]
      BY <1>1, <1>3, <2>1
    <3>2. m.next[o[i]] = o[i + 1]
      <4>1. i \in 1 .. n /\ i # n
        BY <1>1
      <4>2. m.next[o[i]] = l.next[o[i]]
        BY <1>1, <1>5, <3>1, <4>1
      <4> QED
        BY <1>4, <4>1, <4>2
    <3>3. w[i] = o[i] /\ w[i + 1] = o[i + 1] /\ i # n - 1
      <4>1. i < k /\ i + 1 < k /\ i + 1 \in 1 .. (n - 1)
        BY <1>1, <2>1
      <4> QED
        BY <1>2, <4>1
    <3> QED
      BY <3>2, <3>3
  <2>2. CASE i = k - 1
    BY <1>1, <1>2, <1>4, <1>5, <2>2
  <2>3. CASE i >= k
    <3>1. o[i + 1] # l.prev[c]
      BY <1>1, <1>3, <2>3, TaskAssumption
    <3>2. m.next[o[i + 1]] = IF i + 1 = n THEN NULL ELSE o[i + 2]
      BY <1>1, <1>4, <1>5, <2>3, <3>1
    <3>3. w[i] = o[i + 1]
      BY <1>2, <2>3
    <3>4. ASSUME i # n - 1
          PROVE  w[i + 1] = o[i + 2]
      <4>1. i + 1 \in 1 .. (n - 1) /\ ~(i + 1 < k) /\ i + 1 + 1 = i + 2
        BY <1>1, <2>3, <3>4
      <4> QED
        BY <1>2, <4>1
    <3> QED
      BY <1>1, <3>2, <3>3, <3>4
  <2> QED
    BY <1>1, <2>1, <2>2, <2>3
<1>8. Tasks(w) = Tasks(o) \ {c}
  <2>1. ASSUME NEW u \in Tasks(o) \ {c}
        PROVE  u \in Tasks(w)
    <3>1. PICK j \in 1 .. n : o[j] = u /\ j # k
      BY <2>1 DEF Tasks
    <3>2. CASE j < k
      BY <1>1, <1>2, <3>1, <3>2 DEF Tasks
    <3>3. CASE j > k
      <4>1. j - 1 \in 1 .. (n - 1) /\ w[j - 1] = u
        BY <1>1, <1>2, <3>1, <3>3
      <4> QED
        BY <1>2, <4>1 DEF Tasks
    <3> QED
      BY <3>1, <3>2, <3>3
  <2>2. ASSUME NEW i \in 1 .. (n - 1)
        PROVE  w[i] \in Tasks(o) \ {c}
    <3>1. PICK j \in 1 .. n : w[i] = o[j] /\ j # k
      BY <1>1, <1>2
    <3> QED
      BY <1>3, <3>1 DEF Tasks
  <2> QED
    BY <1>2, <2>1, <2>2 DEF Tasks
<1>9. \A i, j \in 1 .. (n - 1) : w[i] = w[j] => i = j
  BY <1>1, <1>2, <1>3
<1>10. Linked(m, w)
  <2>1. w # <<>>
    BY <1>1, <1>2
  <2> QED
    BY <1>2, <1>5, <1>6, <1>7, <1>9, <2>1 DEF Linked
<1>11. LeadsInto(m, w)
  <2>1. CASE k = 1
    <3>1. m.current = c /\ m.next[c] = o[2] /\ o[2] \in Tasks(o) /\ o[2] # c
      BY <1>1, <1>3, <1>4, <1>5, <2>1, TaskAssumption DEF Tasks
    <3> QED
      BY <1>1, <1>8, <3>1 DEF LeadsInto
  <2>2. CASE k = n
    <3>1. m.current = c /\ c # l.prev[c]
      BY <1>1, <1>3, <1>5, <2>2
    <3>2. m.next[c] = NULL
      BY <1>1, <1>4, <1>5, <2>2, <3>1
    <3> QED
      BY <1>1, <3>1, <3>2 DEF LeadsInto
  <2>3. CASE 1 < k /\ k < n
    <3>1. c # o[1] /\ c # o[n] /\ l.next[c] = o[k + 1] /\ k + 1 \in 1 .. n
      BY <1>1, <1>3, <1>4, <2>3
    <3>2. m.current = o[k + 1]
      BY <1>1, <1>5, <3>1, TaskAssumption
    <3>3. m.current \in Tasks(o) \ {c}
      BY <1>1, <1>3, <3>1, <3>2 DEF Tasks
    <3> QED
      BY <1>1, <1>8, <3>1, <3>2, <3>3 DEF LeadsInto
  <2> QED
    BY <1>1, <2>1, <2>2, <2>3
<1> QED
  BY <1>2, <1>5, <1>8, <1>10, <1>11 DEF m, w

-----------------------------------------------------------------------------
(* The inductive invariant *)

(* It says that the queue is linked up, holds the live tasks, and runs one *)
(* of them.                                                                *)
LEMMA IInvIsLinked ==
    ASSUME IInv
    PROVE  Linked(q, order) /\ live = Tasks(order) /\ q.current \in live
  BY DEF IInv, Shape, QueueIsOrder, Distinct, CurrentIsLive, Linked, List, Tasks

(* And the same the other way round, after a step. *)
LEMMA LinkedIInv ==
    ASSUME Linked(q', order'), live' = Tasks(order'), q'.current \in live'
    PROVE  IInv'
<1>1. live' \subseteq Task
  BY DEF Linked, Tasks
<1> QED
  BY <1>1 DEF IInv, Shape, QueueIsOrder, Distinct, CurrentIsLive, Linked, List, Tasks

(* Making another task current leaves a list linked up. *)
LEMMA SwitchLinked ==
    ASSUME NEW l, NEW o, Linked(l, o), NEW t \in Tasks(o)
    PROVE  Linked(task_switch(l, t), o) /\ task_switch(l, t).current = t
<1>1. t \in Pointer /\ l \in List
  BY DEF Linked, Tasks, Pointer
<1>2. task_switch(l, t) = [l EXCEPT !.current = t]
  BY DEF task_switch
<1>3. /\ task_switch(l, t) \in List /\ task_switch(l, t).current = t
      /\ task_switch(l, t).head = l.head /\ task_switch(l, t).tail = l.tail
      /\ task_switch(l, t).next = l.next
  BY <1>1, <1>2 DEF List
<1> QED
  BY <1>3 DEF Linked

(* The list that boot leaves, with the shell's task alone.                 *)
LEMMA InitIInv == Init => IInv
<1> SUFFICES ASSUME NEW t \in Task,
                    q = task_new([head |-> NULL, tail |-> NULL, current |-> NULL,
                                  next |-> [u \in Task |-> NULL],
                                  prev |-> [u \in Task |-> NULL]], t),
                    live = {t}, order = <<t>>
             PROVE  IInv
  BY DEF Init
<1> DEFINE l == [head |-> NULL, tail |-> NULL, current |-> NULL,
                 next |-> [u \in Task |-> NULL], prev |-> [u \in Task |-> NULL]]
<1>1. l \in List /\ l.head = NULL
  BY DEF List, Pointer
<1>2. q \in List /\ q.head = t /\ q.tail = t /\ q.current = t /\ q.next[t] = NULL
  BY <1>1, NewType, NewOnEmpty
<1>3. order \in Seq(Task) /\ Len(order) = 1 /\ order[1] = t
  OBVIOUS
<1> QED
  BY <1>2, <1>3 DEF IInv, Shape, List, QueueIsOrder, CurrentIsLive, Distinct

(* A clock tick keeps the invariant: the next task is a live one.          *)
LEMMA ClockIInv ==
    ASSUME IInv, Clock
    PROVE  IInv'
<1>1. Linked(q, order) /\ live = Tasks(order) /\ q.current \in live
  BY IInvIsLinked
<1>2. LeadsInto(q, order)
  BY <1>1 DEF LeadsInto, Linked, Tasks
<1>3. task_get_next(q) \in Tasks(order)
  BY <1>1, <1>2, NextIsLinked
<1>4. q' = task_switch(q, task_get_next(q)) /\ live' = live /\ order' = order
  BY DEF Clock, task_switch_next
<1>5. Linked(q', order') /\ live' = Tasks(order') /\ q'.current \in live'
  BY <1>1, <1>3, <1>4, SwitchLinked
<1> QED
  BY <1>5, LinkedIInv

(* A freed block may be overwritten: no live task's link leads to it.      *)
LEMMA ReuseIInv ==
    ASSUME IInv, NEW t \in Task, Reuse(t)
    PROVE  IInv'
<1>1. q \in List /\ live' = live /\ order' = order /\ t \notin live
  BY DEF IInv, Shape, List, Reuse
<1>2. /\ q' \in List /\ q'.head = q.head /\ q'.tail = q.tail /\ q'.current = q.current
      /\ \A u \in Task \ {t} : q'.next[u] = q.next[u]
  BY <1>1 DEF Reuse, List, Pointer
<1>3. \A k \in 1 .. Len(order) : order[k] \in Task \ {t}
  BY <1>1 DEF IInv, Shape, QueueIsOrder
<1>4. QueueIsOrder'
  BY <1>1, <1>2, <1>3 DEF IInv, QueueIsOrder
<1> QED
  BY <1>1, <1>2, <1>4 DEF IInv, Shape, List, CurrentIsLive, Distinct

(* A queue whose current task is the only one. *)
LEMMA OneTask ==
    ASSUME IInv, live = {q.current}
    PROVE  Len(order) = 1 /\ order[1] = q.current
<1>1. PICK n \in Nat : n = Len(order) /\ n >= 1
  BY DEF IInv, Shape, QueueIsOrder
<1>2. \A k \in 1 .. n : order[k] = q.current
  BY <1>1 DEF IInv, QueueIsOrder
<1>3. ASSUME n >= 2
      PROVE  FALSE
  <2>1. 1 \in 1 .. n /\ 2 \in 1 .. n
    BY <1>3
  <2> QED
    BY <1>1, <1>2, <2>1 DEF IInv, Distinct
<1>4. n = 1
  BY <1>1, <1>3
<1> QED
  BY <1>1, <1>2, <1>4

(* The history, when the only task makes room for t. *)
LEMMA OneTaskReplaced ==
    ASSUME IInv, live = {q.current}, NEW t
    PROVE  Append(Without(Position(q.current)), t) = <<t>>
<1> DEFINE w == Without(Position(q.current))
<1>1. Len(order) - 1 = 0
  BY OneTask
<1>2. w = [i \in 1 .. 0 |-> IF i < Position(q.current) THEN order[i] ELSE order[i + 1]]
  BY <1>1 DEF Without
<1>3. w = <<>>
  BY <1>2
<1> QED
  BY <1>3

(* The last task exits, and a shell takes its place.                       *)
LEMMA LastExitIInv ==
    ASSUME IInv, NEW t \in Task, LastExit(t)
    PROVE  IInv' /\ q'.prev[t] = NULL
<1> DEFINE c == q.current
           m == task_list_remove(q, c)
           w == task_new(m, t)
<1>1. q \in List /\ c \in Task /\ live = {c} /\ order \in Seq(Task)
  BY DEF IInv, Shape, CurrentIsLive, List, LastExit
<1>2. Len(order) = 1 /\ order[1] = c
  BY <1>1, OneTask
<1>3. q.head = c /\ q.next[c] = NULL
  BY <1>2 DEF IInv, QueueIsOrder
<1>4. m \in List /\ m.head = NULL
  BY <1>1, <1>3, RemoveType, RemoveEffect
<1>5. /\ w \in List
      /\ w.head = t /\ w.tail = t /\ w.current = t /\ w.next[t] = NULL /\ w.prev[t] = NULL
  BY <1>4, NewType, NewOnEmpty
<1>6. q' = task_switch_next(w) /\ live' = {t} /\ order' = <<t>>
  BY DEF LastExit
<1>7. /\ q' \in List
      /\ q'.head = t /\ q'.tail = t /\ q'.current = t /\ q'.next[t] = NULL /\ q'.prev[t] = NULL
  BY <1>5, <1>6, SwitchNextType, SwitchNextLinks
<1>8. order' \in Seq(Task) /\ Len(order') = 1 /\ order'[1] = t
  BY <1>6
<1> QED
  BY <1>6, <1>7, <1>8 DEF IInv, Shape, List, QueueIsOrder, CurrentIsLive, Distinct

(* A queue with another task beside c has two at least. *)
LEMMA SeveralTasks ==
    ASSUME NEW o \in Seq(Task), NEW c, Tasks(o) # {c}, c \in Tasks(o)
    PROVE  Len(o) \in Nat /\ Len(o) >= 2
<1>1. PICK i \in 1 .. Len(o) : o[i] = c
  BY DEF Tasks
<1>2. PICK j \in 1 .. Len(o) : o[j] # c
  BY DEF Tasks
<1> QED
  BY <1>1, <1>2

(* The list an exit leaves, when the exiting task's prev is right.  Its    *)
(* position is k.                                                          *)
LEMMA RemovedIsLinked ==
    ASSUME IInv, live # {q.current}, NEW k \in 1 .. Len(order), order[k] = q.current,
           q.prev[q.current] = IF k = 1 THEN NULL ELSE order[k - 1]
    PROVE  LET m == task_list_remove(q, q.current)
               w == Without(Position(q.current))
           IN  /\ w = WithoutAt(order, k)
               /\ Linked(m, w) /\ LeadsInto(m, w)
               /\ m.prev = q.prev
               /\ Len(w) = Len(order) - 1
               /\ Tasks(w) = live \ {q.current}
<1>1. Position(q.current) = k
  BY DEF Position, IInv, Distinct
<1>2. Without(Position(q.current)) = WithoutAt(order, k)
  BY <1>1 DEF Without, WithoutAt
<1>3. Linked(q, order) /\ live = Tasks(order) /\ q.current \in live /\ order \in Seq(Task)
  BY IInvIsLinked DEF Linked
<1>4. Len(order) >= 2
  BY <1>3, SeveralTasks
<1> QED
  BY <1>2, <1>3, <1>4, RemoveLinked

(* The step of an exit, likewise. *)
LEMMA ExitEffect ==
    ASSUME IInv, Exit, NEW k \in 1 .. Len(order), order[k] = q.current,
           q.prev[q.current] = IF k = 1 THEN NULL ELSE order[k - 1]
    PROVE  /\ IInv'
           /\ q'.prev = q.prev
           /\ Len(order') = Len(order) - 1
           /\ \A i \in 1 .. (Len(order) - 1) :
                 order'[i] = IF i < k THEN order[i] ELSE order[i + 1]
<1> DEFINE m == task_list_remove(q, q.current)
           w == WithoutAt(order, k)
<1>1. /\ q' = task_switch(m, task_get_next(m))
      /\ live' = live \ {q.current} /\ live # {q.current}
      /\ order' = Without(Position(q.current))
  BY DEF Exit, task_switch_next
<1>2. /\ order' = w /\ Linked(m, w) /\ LeadsInto(m, w) /\ m.prev = q.prev
      /\ Len(w) = Len(order) - 1 /\ Tasks(w) = live'
  BY <1>1, RemovedIsLinked
<1>3. task_get_next(m) \in Tasks(w)
  BY <1>2, NextIsLinked
<1>4. Linked(q', order') /\ q'.current \in live'
  BY <1>1, <1>2, <1>3, SwitchLinked
<1>5. IInv'
  BY <1>2, <1>4, LinkedIInv
<1>6. q'.prev = m.prev
  BY <1>1, <1>2 DEF Linked, List, task_switch
<1> QED
  BY <1>2, <1>5, <1>6 DEF WithoutAt

(* task_switch_next() finds a live task behind the one that exits. *)
LEMMA NextAfterExit ==
    ASSUME IInv, PrevIsRight, live # {q.current}
    PROVE  task_get_next(task_list_remove(q, q.current)) \in live \ {q.current}
<1>1. PICK k \in 1 .. Len(order) :
        order[k] = q.current /\ q.prev[q.current] = IF k = 1 THEN NULL ELSE order[k - 1]
  BY DEF PrevIsRight
<1> QED
  BY <1>1, RemovedIsLinked, NextIsLinked

(* With one task alone, task_switch_next() runs the new one: nothing is    *)
(* read from the freed block.                                              *)
LEMMA AloneReadsNew ==
    ASSUME IInv, live = {q.current}, NEW t \in Task
    PROVE  task_new(task_list_remove(q, q.current), t).current = t
<1>1. q \in List /\ q.current \in Task
  BY DEF IInv, Shape, CurrentIsLive, List
<1>2. Len(order) = 1 /\ order[1] = q.current
  BY OneTask
<1>3. q.head = q.current /\ q.next[q.current] = NULL
  BY <1>2 DEF IInv, QueueIsOrder
<1>4. task_list_remove(q, q.current) \in List /\ task_list_remove(q, q.current).head = NULL
  BY <1>1, <1>3, RemoveType, RemoveEffect
<1> QED
  BY <1>4, NewOnEmpty

(* A task exits and another one, perhaps in its block, joins the queue     *)
(* before task_switch_next() runs, however many others there are; the      *)
(* freed block may have been cleared by then.                              *)
LEMMA ReplaceIInv ==
    ASSUME IInv, PrevIsRight, NEW t \in Task, t \notin live \ {q.current},
           NEW l,
           LET x == task_new(task_list_remove(q, q.current), t)
           IN  \/ l = x
               \/ /\ x.current = q.current /\ t # q.current
                  /\ l = [x EXCEPT !.next[q.current] = NULL],
           q' = task_switch_next(l),
           live' = (live \ {q.current}) \cup {t},
           order' = Append(Without(Position(q.current)), t)
    PROVE  IInv'
<1> DEFINE c == q.current
           m == task_list_remove(q, c)
           w == Without(Position(c))
           x == task_new(m, t)
<1>0. q \in List /\ c \in Task
  BY DEF IInv, Shape, CurrentIsLive, List
<1>1. CASE live = {c}
  <2>1. x.current = t
    BY <1>1, AloneReadsNew
  <2>2. l = x
    BY <2>1
  <2>3. LastExit(t)
    BY <1>1, <2>2, OneTaskReplaced DEF LastExit, Running, IInv, CurrentIsLive
  <2> QED
    BY <2>3, LastExitIInv
<1>2. CASE live # {c}
  <2>1. PICK k \in 1 .. Len(order) :
          order[k] = c /\ q.prev[c] = IF k = 1 THEN NULL ELSE order[k - 1]
    BY DEF PrevIsRight
  <2>2. Linked(m, w) /\ LeadsInto(m, w) /\ Tasks(w) = live \ {c}
    BY <1>2, <2>1, RemovedIsLinked
  <2>3. Linked(x, order') /\ LeadsInto(x, order') /\ Tasks(order') = live'
    BY <2>2, NewLinked
  <2>4. Linked(l, order') /\ LeadsInto(l, order')
    <3>1. CASE l = x
      BY <2>3, <3>1
    <3>2. CASE /\ x.current = c /\ t # c
               /\ l = [x EXCEPT !.next[c] = NULL]
      <4>1. x \in List /\ NULL \in Pointer
        BY <2>3 DEF Linked, Pointer
      <4> HIDE DEF x
      <4>2. /\ l \in List /\ l.head = x.head /\ l.tail = x.tail /\ l.current = c /\ l.next[c] = NULL
            /\ \A u \in Task \ {c} : l.next[u] = x.next[u]
        BY <1>0, <3>2, <4>1 DEF List
      <4>3. \A i \in 1 .. Len(order') : order'[i] \in Task \ {c}
        <5>1. c \notin Tasks(order')
          BY <2>3, <3>2
        <5>2. \A i \in 1 .. Len(order') : order'[i] \in Task
          BY <2>3 DEF Linked
        <5> QED
          BY <5>1, <5>2 DEF Tasks
      <4>4. Linked(l, order')
        BY <2>3, <4>2, <4>3 DEF Linked
      <4> QED
        BY <1>0, <4>2, <4>4 DEF LeadsInto
    <3> QED
      BY <3>1, <3>2
  <2>5. task_get_next(l) \in Tasks(order')
    BY <2>4, NextIsLinked
  <2>6. Linked(q', order') /\ q'.current \in live'
    BY <2>3, <2>4, <2>5, SwitchLinked DEF task_switch_next
  <2> QED
    BY <2>3, <2>6, LinkedIInv
<1> QED
  BY <1>1, <1>2

(* Every step but an exit keeps the invariant.                             *)
LEMMA OthersIInv ==
    ASSUME IInv, Others
    PROVE  IInv'
<1>0. Linked(q, order) /\ live = Tasks(order) /\ q.current \in live
  BY IInvIsLinked
<1>1. ASSUME NEW t \in Task, Load(t)
      PROVE  IInv'
  <2>1. t \notin live /\ q' = task_new(q, t) /\ live' = live \cup {t} /\ order' = Append(order, t)
    BY <1>1 DEF Load
  <2>2. Linked(q', order') /\ live' = Tasks(order') /\ q'.current \in live'
    BY <1>0, <2>1, NewLinked
  <2> QED
    BY <2>2, LinkedIInv
<1>2. ASSUME NEW t \in Task, Start(t)
      PROVE  IInv'
  <2>1. /\ t \notin live /\ q' = task_switch(task_new(q, t), t)
        /\ live' = live \cup {t} /\ order' = Append(order, t)
    BY <1>2 DEF Start
  <2>2. Linked(task_new(q, t), order') /\ live' = Tasks(order') /\ t \in Tasks(order')
    BY <1>0, <2>1, NewLinked
  <2>3. Linked(q', order') /\ q'.current = t
    BY <2>1, <2>2, SwitchLinked
  <2> QED
    BY <2>2, <2>3, LinkedIInv
<1> QED
  BY <1>1, <1>2, ClockIInv, LastExitIInv, ReuseIInv DEF Others

(* Every step keeps the invariant, when tasks exit with a right prev.      *)
LEMMA CleanNextIInv ==
    ASSUME IInv, [CleanNext]_vars
    PROVE  IInv'
<1>1. CASE Others
  BY <1>1, OthersIInv
<1>2. CASE PrevIsRight /\ Exit
  BY <1>2, ExitEffect DEF PrevIsRight
<1>3. CASE UNCHANGED vars
  BY <1>3 DEF vars, IInv, Shape, QueueIsOrder, CurrentIsLive, Distinct
<1> QED
  BY <1>1, <1>2, <1>3 DEF CleanNext

(* The inductive invariant holds while tasks exit with a right prev:       *)
(* task_list_remove() never corrects the prev of the task behind.          *)
THEOREM CleanInductive == CleanSpec => []IInv
<1>1. Init => IInv
  BY InitIInv
<1>2. IInv /\ [CleanNext]_vars => IInv'
  BY CleanNextIInv
<1> QED
  BY <1>1, <1>2, PTL DEF CleanSpec

-----------------------------------------------------------------------------
(* Theorems *)

(* While tasks exit with a right prev, there always is a head, a tail and  *)
(* a current task.                                                         *)
THEOREM TypeCorrect == CleanSpec => []TypeOK
<1>1. IInv => TypeOK
  <2> SUFFICES ASSUME IInv PROVE TypeOK
    OBVIOUS
  <2>1. PICK n \in Nat : n = Len(order) /\ n >= 1
    BY DEF IInv, Shape, QueueIsOrder
  <2>2. q.head = order[1] /\ q.tail = order[n]
    BY <2>1 DEF IInv, QueueIsOrder
  <2>3. order[1] \in Task /\ order[n] \in Task /\ q.current \in Task
    BY <2>1 DEF IInv, Shape, CurrentIsLive
  <2> QED
    BY <2>2, <2>3 DEF IInv, Shape, TypeOK
<1> QED
  BY <1>1, CleanInductive, PTL

(* While tasks exit with a right prev, task_head and the next pointers     *)
(* enumerate exactly the live tasks, and no freed task is kept.            *)
THEOREM QueueIsIntact == CleanSpec => []QueueIsOrder
<1>1. IInv => QueueIsOrder
  BY DEF IInv
<1> QED
  BY <1>1, CleanInductive, PTL

(* While tasks exit with a right prev, the task that runs is live.         *)
THEOREM CurrentStaysLive == CleanSpec => []CurrentIsLive
<1>1. IInv => CurrentIsLive
  BY DEF IInv
<1> QED
  BY <1>1, CleanInductive, PTL

(* Programs that outlive the programs they start always exit with a right  *)
(* prev, so the defect of task_list_remove() never bites them.             *)
THEOREM LifoIsClean == LifoSpec => CleanSpec
<1> DEFINE LInv == IInv /\ AllPrevRight
<1>1. Init => LInv
  <2> SUFFICES ASSUME Init PROVE AllPrevRight
    BY InitIInv
  <2>1. PICK t \in Task :
          /\ q = task_new([head |-> NULL, tail |-> NULL, current |-> NULL,
                           next |-> [u \in Task |-> NULL],
                           prev |-> [u \in Task |-> NULL]], t)
          /\ order = <<t>>
    BY DEF Init
  <2>2. q.prev[t] = NULL
    BY <2>1, NewOnEmpty DEF List, Pointer
  <2> QED
    BY <2>1, <2>2 DEF AllPrevRight
<1>2. LInv /\ [LifoNext]_vars => LInv' /\ [CleanNext]_vars
  <2> SUFFICES ASSUME IInv, AllPrevRight, [LifoNext]_vars
               PROVE  IInv' /\ AllPrevRight' /\ [CleanNext]_vars
    OBVIOUS
  <2>0. /\ q \in List /\ order \in Seq(Task) /\ Len(order) \in Nat /\ Len(order) >= 1
        /\ \A k \in 1 .. Len(order) : order[k] \in Task /\ order[k] \in live
        /\ q.head # NULL /\ q.tail = order[Len(order)]
    BY TaskAssumption DEF IInv, Shape, QueueIsOrder, List
  <2>1. ASSUME NEW t \in Task, Load(t) \/ Start(t)
        PROVE  AllPrevRight'
    <3>1. /\ t \notin live /\ order' = Append(order, t)
          /\ q'.prev = task_new(q, t).prev
      BY <2>1, <2>0, NewType DEF Load, Start, task_switch, List
    <3>2. q'.prev[t] = q.tail /\ \A u \in Task \ {t} : q'.prev[u] = q.prev[u]
      BY <2>0, <3>1, NewAppends
    <3>3. \A k \in 1 .. Len(order') :
            order'[k] = IF k = Len(order) + 1 THEN t ELSE order[k]
      BY <2>0, <3>1
    <3>4. Len(order') = Len(order) + 1
      BY <2>0, <3>1
    <3> QED
      BY <2>0, <3>1, <3>2, <3>3, <3>4 DEF AllPrevRight
  <2>2. ASSUME Clock
        PROVE  AllPrevRight'
    BY <2>0, <2>2, SwitchNextLinks DEF Clock, AllPrevRight
  <2>3. ASSUME NEW t \in Task, LastExit(t)
        PROVE  AllPrevRight'
    <3>1. q'.prev[t] = NULL /\ order' = <<t>>
      BY <2>3, LastExitIInv DEF LastExit
    <3> QED
      BY <3>1 DEF AllPrevRight
  <2>4. ASSUME NEW t \in Task, Reuse(t)
        PROVE  AllPrevRight'
    <3>1. /\ t \notin live /\ order' = order
          /\ \A u \in Task \ {t} : q'.prev[u] = q.prev[u]
      BY <2>0, <2>4 DEF Reuse, List
    <3> QED
      BY <2>0, <3>1 DEF AllPrevRight
  <2>5. CASE IsNewest /\ Exit
    <3>0. PICK n \in Nat : n = Len(order) /\ n >= 1 /\ order[n] = q.current
      BY <2>0, <2>5 DEF IsNewest
    <3>1. /\ n \in 1 .. Len(order)
          /\ q.prev[q.current] = IF n = 1 THEN NULL ELSE order[n - 1]
      BY <3>0 DEF AllPrevRight
    <3>2. PrevIsRight
      BY <3>0, <3>1 DEF PrevIsRight
    <3>3. /\ q'.prev = q.prev /\ Len(order') = n - 1
          /\ \A i \in 1 .. (n - 1) : order'[i] = order[i]
      <4>1. /\ q'.prev = q.prev /\ Len(order') = Len(order) - 1
            /\ \A i \in 1 .. (Len(order) - 1) :
                  order'[i] = IF i < n THEN order[i] ELSE order[i + 1]
        BY <2>5, <3>0, <3>1, ExitEffect
      <4> QED
        BY <3>0, <4>1
    <3>4. AllPrevRight'
      <4> SUFFICES ASSUME NEW k \in 1 .. (n - 1)
                   PROVE  q'.prev[order'[k]] = IF k = 1 THEN NULL ELSE order'[k - 1]
        BY <3>3 DEF AllPrevRight
      <4>1. k \in 1 .. Len(order) /\ (k # 1 => k - 1 \in 1 .. (n - 1))
        BY <3>0
      <4> QED
        BY <3>3, <4>1 DEF AllPrevRight
    <3> QED
      BY <2>5, <3>2, <3>4, CleanNextIInv DEF CleanNext
  <2>6. CASE UNCHANGED vars
    BY <2>6, CleanNextIInv DEF vars, AllPrevRight
  <2>7. CASE Others
    <3>1. AllPrevRight'
      BY <2>1, <2>2, <2>3, <2>4, <2>7 DEF Others
    <3> QED
      BY <2>7, <3>1, OthersIInv DEF CleanNext
  <2> QED
    BY <2>5, <2>6, <2>7 DEF LifoNext
<1> QED
  BY <1>1, <1>2, PTL DEF LifoSpec, CleanSpec
=============================================================================
