--------------------------- MODULE KeyboardProofs ---------------------------
(***************************************************************************)
(* Proofs about Keyboard and Context, for every number of processes and    *)
(* every size of the ring buffer.                                          *)
(***************************************************************************)
EXTENDS Keyboard, TLAPS

(* Nobody types ahead more than a ring holds: keyboard_push() does not     *)
(* look, and the key past it would overwrite the oldest.                   *)
TypistWaits == TypeAhead =< Size

RegisterFile == [eax : Char \cup {Zero, GetKey, Start, Error}, flags : Flags, rest : Rest]

(* The same registers, but for the flags. *)
Alike(a, b) == a.eax = b.eax /\ a.rest = b.rest

(* The processor belongs to a live process, and so does the keyboard. *)
ContextType ==
    /\ alive \in SUBSET Proc
    /\ running \in alive
    /\ process_current \in alive
    /\ cpu \in RegisterFile
    /\ registers \in [Proc -> RegisterFile]
    /\ mine \in [Proc -> RegisterFile]

RingType ==
    /\ buffer \in [Proc -> [Index -> Char \cup {None}]]
    /\ head \in [Proc -> Index]
    /\ tail \in [Proc -> Index]
    /\ pending \in [Proc -> Seq(Char)]

(* tail is as many slots past head as there are unread keys. *)
TailFollows ==
    \A p \in Proc :
        /\ Len(pending[p]) =< Size
        /\ tail[p] = (head[p] + Len(pending[p])) % Size

(* What task_save_state() has put away is what the program had, but for    *)
(* the flags, which an earlier task_return() may have lost; a process that *)
(* does not run is as task_init() will find it.                            *)
SavedIsMine ==
    /\ Alike(cpu, mine[running])
    /\ \A p \in alive \ {running} : Alike(registers[p], mine[p])
    /\ \A p \in Proc \ alive : registers[p] = Fresh /\ mine[p] = Fresh

-----------------------------------------------------------------------------
(* Arithmetic of the ring *)

(* A position less than two turns of the ring from its first slot. *)
Wrapped(x) == IF x < Size THEN x ELSE x - Size

(* One turn of the ring at most: % Size takes Size off once, or nothing.   *)
LEMMA Wrap ==
    \A x \in 0 .. (2 * Size - 1) : x % Size = Wrapped(x)
<1> SUFFICES ASSUME NEW x \in 0 .. (2 * Size - 1)
             PROVE  x % Size = Wrapped(x)
  OBVIOUS
<1>1. CASE x < Size
  BY <1>1, KeyboardAssumption DEF Wrapped
<1>2. CASE x >= Size
  <2>1. x - Size \in 0 .. (Size - 1)
    BY <1>2, KeyboardAssumption
  <2>2. (x - Size) % Size = x - Size
    BY <2>1, KeyboardAssumption
  <2>3. x % Size = (x - Size) % Size
    BY <2>1, KeyboardAssumption
  <2> QED
    BY <1>2, <2>2, <2>3, KeyboardAssumption DEF Wrapped
<1> QED
  BY <1>1, <1>2, KeyboardAssumption

(* The characters of a scan code: one of the keyboard's, or none. *)
LEMMA ScanType ==
    ASSUME NEW sc \in ScanCode, sc # "released", NEW caps
    PROVE  ps2_scan_to_char(sc, caps) \subseteq Char \cup {None}
  BY DEF ScanCode, ps2_scan_to_char, Char

(* Two slots less than one turn past the head are the same only if they    *)
(* are as far from it.                                                     *)
LEMMA SlotsDiffer ==
    ASSUME NEW h \in Index, NEW i \in Index, NEW j \in Index, (h + i) % Size = (h + j) % Size
    PROVE  i = j
<1>1. h + i \in 0 .. (2 * Size - 1) /\ h + j \in 0 .. (2 * Size - 1)
  BY KeyboardAssumption DEF Index
<1>2. /\ (h + i) % Size = Wrapped(h + i)
      /\ (h + j) % Size = Wrapped(h + j)
  BY <1>1, Wrap, Zenon
<1> QED
  BY <1>1, <1>2, KeyboardAssumption DEF Index, Wrapped

(* A step of an index, and the i-th slot past a head that has moved.       *)
LEMMA NextSlot ==
    ASSUME NEW h \in Index, NEW i \in 0 .. Size
    PROVE  /\ (h + i) % Size \in Index
           /\ (((h + i) % Size) + 1) % Size \in Index
           /\ i < Size => (h + (i + 1)) % Size = (((h + i) % Size) + 1) % Size
           /\ i < Size => (((h + 1) % Size) + i) % Size = (h + (i + 1)) % Size
           /\ i = Size => (h + i) % Size = h
<1>0. h \in Int /\ i \in Int /\ Size \in Int /\ 0 =< h /\ h < Size /\ 0 =< i /\ i =< Size
  BY KeyboardAssumption DEF Index
<1>1. h + i \in 0 .. (2 * Size - 1)
  BY <1>0
<1>2. (h + i) % Size = Wrapped(h + i)
  BY <1>1, Wrap, Zenon
<1>3. (h + i) % Size \in Index
  BY <1>0, <1>2 DEF Index, Wrapped
<1>4. ((h + i) % Size) + 1 \in 0 .. (2 * Size - 1)
  BY <1>0, <1>2 DEF Wrapped
<1>5. (((h + i) % Size) + 1) % Size = Wrapped(((h + i) % Size) + 1)
  BY <1>4, Wrap, Zenon
<1>6. (((h + i) % Size) + 1) % Size \in Index
  BY <1>0, <1>2, <1>5 DEF Index, Wrapped
<1>7. ASSUME i < Size
      PROVE  /\ (h + (i + 1)) % Size = (((h + i) % Size) + 1) % Size
             /\ (((h + 1) % Size) + i) % Size = (h + (i + 1)) % Size
  <2>1. h + (i + 1) \in 0 .. (2 * Size - 1) /\ h + 1 \in 0 .. (2 * Size - 1)
    BY <1>0, <1>7
  <2>2. (h + (i + 1)) % Size = Wrapped(h + (i + 1))
    BY <2>1, Wrap, Zenon
  <2>3. (h + 1) % Size = Wrapped(h + 1)
    BY <2>1, Wrap, Zenon
  <2>4. ((h + 1) % Size) + i \in 0 .. (2 * Size - 1)
    BY <1>0, <1>7, <2>3 DEF Wrapped
  <2>5. (((h + 1) % Size) + i) % Size = Wrapped(((h + 1) % Size) + i)
    BY <2>4, Wrap, Zenon
  <2>6. (h + (i + 1)) % Size = (((h + i) % Size) + 1) % Size
    BY <1>0, <1>2, <1>5, <1>7, <2>2 DEF Wrapped
  <2>7. (((h + 1) % Size) + i) % Size = (h + (i + 1)) % Size
    BY <1>0, <1>7, <2>2, <2>3, <2>5 DEF Wrapped
  <2> QED
    BY <2>6, <2>7
<1> QED
  BY <1>0, <1>2, <1>3, <1>6, <1>7 DEF Wrapped

-----------------------------------------------------------------------------
(* The ring *)

RingInv == RingType /\ TailFollows /\ RingHoldsPending

(* A push into a ring with room appends to what it holds. *)
LEMMA PushKeepsRing ==
    ASSUME RingInv, NEW p \in Proc, NEW c \in Char \cup {None},
           Len(pending[p]) < Size, keyboard_push(p, c), UNCHANGED head
    PROVE  RingInv'
<1>1. CASE c = None
  BY <1>1 DEF keyboard_push, RingInv, RingType, TailFollows, RingHoldsPending
<1>2. CASE c # None
  <2> DEFINE n == Len(pending[p])
             h == head[p]
  <2>1. /\ buffer' = [buffer EXCEPT ![p][tail[p]] = c]
        /\ tail' = [tail EXCEPT ![p] = (@ + 1) % Size]
        /\ pending' = [pending EXCEPT ![p] = Append(@, c)]
        /\ head' = head
    BY <1>2 DEF keyboard_push
  <2>2. /\ c \in Char /\ n \in 0 .. Size /\ n \in Index /\ h \in Index
        /\ pending[p] \in Seq(Char) /\ tail[p] = (h + n) % Size
        /\ tail[p] \in Index
    BY <1>2, KeyboardAssumption DEF RingInv, RingType, TailFollows, Index
  <2>3. /\ (tail[p] + 1) % Size \in Index
        /\ (h + (n + 1)) % Size = (tail[p] + 1) % Size
    BY <2>2, NextSlot
  <2>4. RingType'
    BY <2>1, <2>2, <2>3 DEF RingInv, RingType
  <2>5. pending'[p] = Append(pending[p], c) /\ Len(pending'[p]) = n + 1
    BY <2>1, <2>2 DEF RingInv, RingType
  <2>6. TailFollows'
    <3> SUFFICES ASSUME NEW r \in Proc
                 PROVE  /\ Len(pending'[r]) =< Size
                        /\ tail'[r] = (head'[r] + Len(pending'[r])) % Size
      BY DEF TailFollows
    <3>1. CASE r = p
      BY <2>1, <2>2, <2>3, <2>5, <3>1, KeyboardAssumption DEF RingInv, RingType
    <3>2. CASE r # p
      BY <2>1, <3>2 DEF RingInv, RingType, TailFollows
    <3> QED
      BY <3>1, <3>2
  <2>7. RingHoldsPending'
    <3> SUFFICES ASSUME NEW r \in Proc, NEW i \in Index
                 PROVE  buffer'[r][(head'[r] + i) % Size] =
                          IF i < Len(pending'[r]) THEN pending'[r][i + 1] ELSE None
      BY DEF RingHoldsPending
    <3>1. CASE r # p
      BY <2>1, <3>1 DEF RingInv, RingType, RingHoldsPending
    <3>2. CASE r = p
      <4>1. (h + i) % Size \in Index
        BY <2>2, NextSlot, KeyboardAssumption DEF Index
      <4>2. buffer[p][(h + i) % Size] = IF i < n THEN pending[p][i + 1] ELSE None
        BY DEF RingInv, RingHoldsPending
      <4>3. CASE i = n
        BY <2>1, <2>2, <2>5, <3>2, <4>1, <4>3, KeyboardAssumption DEF RingInv, RingType, Index
      <4>4. CASE i # n
        <5>1. (h + i) % Size # tail[p]
          BY <2>2, <4>4, SlotsDiffer
        <5>2. buffer'[p][(h + i) % Size] = buffer[p][(h + i) % Size]
          BY <2>1, <4>1, <5>1 DEF RingInv, RingType
        <5>3. i < n + 1 <=> i < n
          BY <2>2, <4>4, KeyboardAssumption DEF Index
        <5>4. i < n => pending'[p][i + 1] = pending[p][i + 1]
          BY <2>2, <2>5, KeyboardAssumption DEF Index
        <5> QED
          BY <2>1, <2>5, <3>2, <4>2, <5>2, <5>3, <5>4
      <4> QED
        BY <4>3, <4>4
    <3> QED
      BY <3>1, <3>2
  <2> QED
    BY <2>4, <2>6, <2>7 DEF RingInv
<1> QED
  BY <1>1, <1>2

(* The slot at the head holds the oldest unread key, or nothing when there *)
(* is none.                                                                *)
LEMMA HeadIsOldest ==
    ASSUME RingInv, NEW p \in Proc
    PROVE  /\ buffer[p][head[p]] = IF pending[p] = <<>> THEN None ELSE Head(pending[p])
           /\ buffer[p][head[p]] = None <=> pending[p] = <<>>
<1>1. /\ head[p] \in Index /\ pending[p] \in Seq(Char) /\ 0 \in Index /\ 0 \in 0 .. Size
      /\ Size \in Int
  BY KeyboardAssumption DEF RingInv, RingType, Index
<1>2. head[p] + 0 \in 0 .. (2 * Size - 1) /\ head[p] + 0 = head[p] /\ Wrapped(head[p]) = head[p]
  BY <1>1 DEF Index, Wrapped
<1>3. (head[p] + 0) % Size = head[p]
  BY <1>2, Wrap, Zenon
<1>4. buffer[p][(head[p] + 0) % Size] = IF 0 < Len(pending[p]) THEN pending[p][0 + 1] ELSE None
  BY <1>1 DEF RingInv, RingHoldsPending
<1>5. pending[p] # <<>> => 0 < Len(pending[p]) /\ pending[p][1] = Head(pending[p]) /\ Head(pending[p]) \in Char
  BY <1>1
<1>6. None \notin Char
  BY DEF None, Zero, Char
<1> QED
  BY <1>1, <1>3, <1>4, <1>5, <1>6

(* A pop takes the oldest key off what the ring holds. *)
LEMMA PopKeepsRing ==
    ASSUME RingInv, running \in Proc, keyboard_pop
    PROVE  RingInv'
<1> DEFINE p == running
           h == head[p]
           n == Len(pending[p])
<1>1. CASE buffer[p][h] = None
  BY <1>1 DEF keyboard_pop, RingInv, RingType, TailFollows, RingHoldsPending
<1>2. CASE buffer[p][h] # None
  <2>1. /\ buffer' = [buffer EXCEPT ![p][h] = None]
        /\ head' = [head EXCEPT ![p] = (@ + 1) % Size]
        /\ pending' = [pending EXCEPT ![p] = IF @ = <<>> THEN @ ELSE Tail(@)]
        /\ tail' = tail
    BY <1>2 DEF keyboard_pop
  <2>2. /\ h \in Index /\ pending[p] \in Seq(Char) /\ pending[p] # <<>>
        /\ n \in 1 .. Size /\ tail[p] = (h + n) % Size /\ Size \in Nat \ {0}
    BY <1>2, HeadIsOldest, KeyboardAssumption DEF RingInv, RingType, TailFollows
  <2>3. /\ pending'[p] = Tail(pending[p]) /\ pending'[p] \in Seq(Char) /\ Len(pending'[p]) = n - 1
        /\ \A j \in 1 .. (n - 1) : pending'[p][j] = pending[p][j + 1]
    BY <2>1, <2>2 DEF RingInv, RingType
  <2>4. head'[p] = (h + 1) % Size /\ (h + 1) % Size \in Index
    <3>1. 1 \in 0 .. Size
      BY <2>2
    <3> QED
      BY <2>1, <2>2, <3>1, NextSlot DEF RingInv, RingType
  <2>5. RingType'
    <3>1. buffer' \in [Proc -> [Index -> Char \cup {None}]]
      BY <2>1, <2>2 DEF RingInv, RingType
    <3> QED
      BY <2>1, <2>3, <2>4, <3>1 DEF RingInv, RingType
  <2>6. TailFollows'
    <3> SUFFICES ASSUME NEW r \in Proc
                 PROVE  /\ Len(pending'[r]) =< Size
                        /\ tail'[r] = (head'[r] + Len(pending'[r])) % Size
      BY DEF TailFollows
    <3>1. CASE r = p
      <4>1. n - 1 \in 0 .. Size /\ n - 1 < Size /\ (n - 1) + 1 = n
        BY <2>2
      <4>2. (((h + 1) % Size) + (n - 1)) % Size = (h + ((n - 1) + 1)) % Size
        BY <2>2, <4>1, NextSlot
      <4> QED
        BY <2>1, <2>2, <2>3, <2>4, <3>1, <4>1, <4>2
    <3>2. CASE r # p
      BY <2>1, <3>2 DEF RingInv, RingType, TailFollows
    <3> QED
      BY <3>1, <3>2
  <2>7. RingHoldsPending'
    <3> SUFFICES ASSUME NEW r \in Proc, NEW i \in Index
                 PROVE  buffer'[r][(head'[r] + i) % Size] =
                          IF i < Len(pending'[r]) THEN pending'[r][i + 1] ELSE None
      BY DEF RingHoldsPending
    <3>1. CASE r # p
      BY <2>1, <3>1 DEF RingInv, RingType, RingHoldsPending
    <3>2. CASE r = p
      <4>0. i \in 0 .. Size /\ i < Size /\ i + 1 \in 0 .. Size
        BY <2>2 DEF Index
      <4>1. (head'[p] + i) % Size = (h + (i + 1)) % Size /\ (h + (i + 1)) % Size \in Index
        <5>1. (h + (i + 1)) % Size \in Index
          BY <2>2, <4>0, NextSlot
        <5>2. (((h + 1) % Size) + i) % Size = (h + (i + 1)) % Size
          BY <2>2, <4>0, NextSlot
        <5> QED
          BY <2>4, <5>1, <5>2
      <4>2. CASE i + 1 = Size
        <5>1. (h + (i + 1)) % Size = h
          BY <2>2, <4>0, <4>2, NextSlot
        <5>2. ~(i < n - 1)
          BY <2>2, <4>0, <4>2
        <5> QED
          BY <2>1, <2>2, <2>3, <3>2, <4>1, <5>1, <5>2 DEF RingInv, RingType
      <4>3. CASE i + 1 # Size
        <5>1. i + 1 \in Index /\ 0 \in Index /\ 0 \in 0 .. Size
          BY <2>2, <4>0, <4>3 DEF Index
        <5>2. (h + 0) % Size = h
          <6>1. h + 0 \in 0 .. (2 * Size - 1) /\ h + 0 = h /\ Wrapped(h) = h
            BY <2>2 DEF Index, Wrapped
          <6> QED
            BY <6>1, Wrap, Zenon
        <5>3. i + 1 # 0
          BY <4>0
        <5>4. (h + (i + 1)) % Size # h
          BY <2>2, <5>1, <5>2, <5>3, SlotsDiffer
        <5>5. buffer'[p][(h + (i + 1)) % Size] = buffer[p][(h + (i + 1)) % Size]
          BY <2>1, <2>2, <4>1, <5>4 DEF RingInv, RingType
        <5>6. buffer[p][(h + (i + 1)) % Size] = IF i + 1 < n THEN pending[p][(i + 1) + 1] ELSE None
          BY <5>1 DEF RingInv, RingHoldsPending
        <5>7. i + 1 < n <=> i < n - 1
          BY <2>2, <4>0
        <5>8. i < n - 1 => pending'[p][i + 1] = pending[p][(i + 1) + 1]
          BY <2>2, <2>3, <4>0
        <5> QED
          BY <2>3, <3>2, <4>1, <5>5, <5>6, <5>7, <5>8
      <4> QED
        BY <4>2, <4>3
    <3> QED
      BY <3>1, <3>2
  <2> QED
    BY <2>5, <2>6, <2>7 DEF RingInv
<1> QED
  BY <1>1, <1>2

(* process_init() empties the ring of its process. *)
LEMMA NewRing ==
    ASSUME RingInv, NEW p \in Proc, process_init(p)
    PROVE  RingInv'
<1>1. RingType'
  BY KeyboardAssumption DEF RingInv, RingType, process_init, Index
<1>2. TailFollows'
  <2>1. 0 % Size = 0
    BY KeyboardAssumption
  <2> QED
    BY <2>1, KeyboardAssumption DEF RingInv, RingType, TailFollows, process_init
<1>3. RingHoldsPending'
  <2> SUFFICES ASSUME NEW r \in Proc, NEW i \in Index
               PROVE  buffer'[r][(head'[r] + i) % Size] =
                        IF i < Len(pending'[r]) THEN pending'[r][i + 1] ELSE None
    BY DEF RingHoldsPending
  <2>1. CASE r = p
    <3>1. 0 \in Index /\ i \in 0 .. Size /\ ~(i < 0)
      BY KeyboardAssumption DEF Index
    <3>2. (0 + i) % Size \in Index
      BY <3>1, NextSlot
    <3> QED
      BY <2>1, <3>1, <3>2 DEF process_init, RingInv, RingType
  <2>2. CASE r # p
    BY <2>2 DEF RingInv, RingType, RingHoldsPending, process_init
  <2> QED
    BY <2>1, <2>2
<1> QED
  BY <1>1, <1>2, <1>3 DEF RingInv

-----------------------------------------------------------------------------
(* The registers *)

ContextInv == ContextType /\ SavedIsMine

(* A system call that returns, with a new process beside the caller or     *)
(* without: the caller has the result, and the others what they had.       *)
LEMMA CallKeepsContext ==
    ASSUME ContextInv, NEW new \in SUBSET Proc, alive' = alive \cup new,
           NEW n \in {GetKey, Start}, NEW r \in Char \cup {Zero, Error},
           syscall_wrapper(n, r), process_current' \in alive'
    PROVE  ContextInv'
<1>1. /\ registers' = [registers EXCEPT ![running] = [cpu EXCEPT !.eax = n]]
      /\ cpu' = [cpu EXCEPT !.eax = r]
      /\ mine' = [mine EXCEPT ![running].eax = r]
      /\ running' = running
  BY DEF syscall_wrapper, syscall_handler, task_save_state
<1>2. /\ running \in Proc /\ Alike(cpu, mine[running]) /\ cpu \in RegisterFile
      /\ mine[running] \in RegisterFile
  BY DEF ContextInv, ContextType, SavedIsMine
<1>3. cpu' \in RegisterFile /\ [cpu EXCEPT !.eax = n] \in RegisterFile
  BY <1>1, <1>2 DEF RegisterFile
<1>4. /\ mine'[running] = [mine[running] EXCEPT !.eax = r]
      /\ \A p \in Proc \ {running} : mine'[p] = mine[p] /\ registers'[p] = registers[p]
  BY <1>1, <1>2 DEF ContextInv, ContextType
<1>5. mine'[running] \in RegisterFile /\ Alike(cpu', mine'[running])
  BY <1>1, <1>2, <1>4 DEF RegisterFile, Alike
<1>6. mine' \in [Proc -> RegisterFile]
  BY <1>1, <1>2, <1>4, <1>5 DEF ContextInv, ContextType
<1>7. ContextType'
  BY <1>1, <1>2, <1>3, <1>6 DEF ContextInv, ContextType
<1>8. SavedIsMine'
  <2>1. \A p \in new \ alive : Alike(registers'[p], mine'[p])
    BY <1>2, <1>4 DEF ContextInv, ContextType, SavedIsMine, Alike
  <2>2. \A p \in alive \ {running} : Alike(registers'[p], mine'[p])
    BY <1>4 DEF ContextInv, ContextType, SavedIsMine
  <2> QED
    BY <1>1, <1>2, <1>4, <1>5, <2>1, <2>2 DEF ContextInv, ContextType, SavedIsMine
<1> QED
  BY <1>7, <1>8 DEF ContextInv

(* task_return() changes the flags and nothing else. *)
LEMMA FlagsChange ==
    ASSUME NEW a \in RegisterFile, NEW f \in Flags
    PROVE  [a EXCEPT !.flags = f] \in RegisterFile /\ Alike([a EXCEPT !.flags = f], a)
  BY DEF RegisterFile, Alike

(* The processor goes to a process with its registers saved. *)
LEMMA SwitchKeepsContext ==
    ASSUME ContextInv, idt_clock, UNCHANGED process_current
    PROVE  ContextInv'
<1>1. PICK p \in alive, f \in Flags : running' = p /\ cpu' = [registers'[p] EXCEPT !.flags = f]
  BY DEF idt_clock, SwitchTo
<1>2. registers' = [registers EXCEPT ![running] = cpu] /\ alive' = alive /\ mine' = mine
  BY DEF idt_clock, task_save_state
<1>3. registers' \in [Proc -> RegisterFile] /\ \A r \in alive : Alike(registers'[r], mine[r])
  BY <1>2 DEF ContextInv, ContextType, SavedIsMine
<1>4. cpu' \in RegisterFile /\ Alike(cpu', registers'[p])
  BY <1>1, <1>3, FlagsChange DEF ContextInv, ContextType
<1>5. Alike(cpu', mine[p])
  BY <1>1, <1>3, <1>4 DEF Alike
<1> QED
  BY <1>1, <1>2, <1>3, <1>4, <1>5 DEF ContextInv, ContextType, SavedIsMine

(* A new program starts with fresh registers, and its caller's are saved.  *)
LEMMA LaunchKeepsContext ==
    ASSUME ContextInv, NEW p \in Proc, Launch(p), process_current' = p
    PROVE  ContextInv'
<1> DEFINE frame == [cpu EXCEPT !.eax = Start]
<1>1. /\ p \notin alive /\ alive' = alive \cup {p}
      /\ registers' = [registers EXCEPT ![running] = frame, ![p] = Fresh]
      /\ mine' = [mine EXCEPT ![running] = frame, ![p] = cpu']
      /\ running' = p
  BY DEF Launch, SwitchTo
<1>2. frame \in RegisterFile /\ Fresh \in RegisterFile
  BY KeyboardAssumption DEF ContextInv, ContextType, RegisterFile, Fresh, Rest, Zero
<1>3. PICK f \in Flags : cpu' = [Fresh EXCEPT !.flags = f]
  BY <1>1 DEF Launch, SwitchTo, ContextInv, ContextType
<1>4. cpu' \in RegisterFile
  BY <1>2, <1>3, FlagsChange
<1>5. ContextType'
  BY <1>1, <1>2, <1>4 DEF ContextInv, ContextType
<1>6. SavedIsMine'
  <2>1. /\ Alike(registers'[running], mine'[running]) /\ Alike(cpu', mine'[p])
        /\ \A r \in Proc \ {p, running} : registers'[r] = registers[r] /\ mine'[r] = mine[r]
    BY <1>1 DEF Alike, ContextInv, ContextType
  <2> QED
    BY <1>1, <2>1 DEF ContextInv, ContextType, SavedIsMine
<1> QED
  BY <1>5, <1>6 DEF ContextInv

(* A process ends, and another goes on with what was saved for it. *)
LEMMA EndKeepsContext ==
    ASSUME ContextInv, Exit
    PROVE  ContextInv'
<1>1. /\ alive' = alive \ {running}
      /\ registers' = [registers EXCEPT ![running] = Fresh]
      /\ mine' = [mine EXCEPT ![running] = Fresh]
  BY DEF Exit, End
<1>2. PICK p \in alive', f \in Flags : running' = p /\ cpu' = [registers[p] EXCEPT !.flags = f]
  BY DEF Exit, End, SwitchTo
<1>3. process_current' \in alive'
  BY <1>1 DEF Exit, ContextInv, ContextType
<1>4. Fresh \in RegisterFile
  BY KeyboardAssumption DEF RegisterFile, Fresh, Rest, Zero
<1>5. cpu' \in RegisterFile /\ Alike(cpu', registers[p])
  BY <1>1, <1>2, FlagsChange DEF ContextInv, ContextType
<1>6. ContextType'
  BY <1>1, <1>2, <1>3, <1>4, <1>5 DEF ContextInv, ContextType
<1>7. SavedIsMine'
  <2>1. Alike(registers[p], mine[p]) /\ p \in Proc /\ mine'[p] = mine[p]
    BY <1>1, <1>2 DEF ContextInv, ContextType, SavedIsMine
  <2>2. Alike(cpu', mine'[p])
    BY <1>5, <2>1 DEF Alike
  <2> QED
    BY <1>1, <1>2, <2>1, <2>2 DEF ContextInv, ContextType, SavedIsMine
<1> QED
  BY <1>6, <1>7 DEF ContextInv

-----------------------------------------------------------------------------
(* Theorems *)

KInv == RingInv /\ ContextInv

(* The part of it that a typist who does not wait leaves alone. *)
CInv == RingType /\ ContextInv

(* Boot: empty rings, one process with fresh registers. *)
LEMMA InitKInv == Init => KInv
<1> SUFFICES ASSUME Init
             PROVE  KInv
  OBVIOUS
<1>1. 0 \in Index /\ 0 % Size = 0
  BY KeyboardAssumption DEF Index
<1>2. RingType /\ TailFollows
  BY <1>1, KeyboardAssumption DEF Init, RingType, TailFollows
<1>3. RingHoldsPending
  <2> SUFFICES ASSUME NEW p \in Proc, NEW i \in Index
               PROVE  buffer[p][(0 + i) % Size] = None /\ ~(i < 0)
    BY DEF Init, RingHoldsPending
  <2>1. i \in 0 .. Size /\ ~(i < 0)
    BY KeyboardAssumption DEF Index
  <2>2. (0 + i) % Size \in Index
    BY <1>1, <2>1, NextSlot
  <2> QED
    BY <2>1, <2>2 DEF Init
<1>4. Fresh \in RegisterFile
  BY KeyboardAssumption DEF RegisterFile, Fresh, Rest, Zero
<1>5. ContextInv
  BY <1>4 DEF Init, ContextInv, ContextType, SavedIsMine, Alike
<1> QED
  BY <1>2, <1>3, <1>5 DEF KInv, RingInv

(* The indices stay inside the rings, and characters are characters, also  *)
(* when keys are overwritten.                                              *)
LEMMA RingTypeKept ==
    ASSUME RingType, ContextType, [Next]_vars
    PROVE  RingType'
<1>0. running \in Proc /\ process_current \in Proc /\ 1 \in 0 .. Size /\ 0 \in Index
  BY KeyboardAssumption DEF ContextType, Index
<1>1. ASSUME NEW sc \in ScanCode, ps2_handle_interrupt(sc)
      PROVE  RingType'
  <2>1. PICK c \in (IF sc = "released" THEN {None} ELSE ps2_scan_to_char(sc, capslock')) :
          keyboard_push(process_current, c)
    BY <1>1 DEF ps2_handle_interrupt
  <2>2. c \in Char \cup {None} /\ (tail[process_current] + 1) % Size \in Index /\ head' = head
    BY <1>0, <1>1, <2>1, ScanType, NextSlot DEF RingType, ps2_handle_interrupt
  <2>3. CASE c = None
    BY <2>1, <2>2, <2>3 DEF RingType, keyboard_push
  <2>4. CASE c # None
    <3>1. /\ buffer' = [buffer EXCEPT ![process_current][tail[process_current]] = c]
          /\ tail' = [tail EXCEPT ![process_current] = (@ + 1) % Size]
          /\ pending' = [pending EXCEPT ![process_current] = Append(@, c)]
      BY <2>1, <2>4 DEF keyboard_push
    <3> QED
      BY <1>0, <2>2, <2>4, <3>1 DEF RingType
  <2> QED
    BY <2>3, <2>4
<1>2. CASE keyboard_pop
  <2>1. (head[running] + 1) % Size \in Index
    BY <1>0, NextSlot DEF RingType
  <2>2. pending[running] # <<>> => Tail(pending[running]) \in Seq(Char)
    BY <1>0 DEF RingType
  <2>3. tail' = tail
    BY <1>2 DEF keyboard_pop
  <2>4. CASE buffer[running][head[running]] = None
    BY <1>2, <2>3, <2>4 DEF keyboard_pop, RingType
  <2>5. CASE buffer[running][head[running]] # None
    <3>1. /\ buffer' = [buffer EXCEPT ![running][head[running]] = None]
          /\ head' = [head EXCEPT ![running] = (@ + 1) % Size]
          /\ pending' = [pending EXCEPT ![running] = IF @ = <<>> THEN @ ELSE Tail(@)]
      BY <1>2, <2>5 DEF keyboard_pop
    <3> QED
      BY <1>0, <2>1, <2>2, <2>3, <3>1 DEF RingType
  <2> QED
    BY <2>4, <2>5
<1>3. ASSUME NEW p \in Proc, ProcStart(p)
      PROVE  RingType'
  BY <1>0, <1>3 DEF ProcStart, process_init, RingType
<1>4. CASE UNCHANGED ring
  BY <1>4 DEF ring, RingType
<1> QED
  BY <1>1, <1>2, <1>3, <1>4 DEF Next, ProcStartFails, Exit, Outside, vars

(* Every step of the system calls and of the scheduler keeps the registers *)
(* right.                                                                  *)
LEMMA NextContext ==
    ASSUME RingType, ContextInv, [Next]_vars
    PROVE  ContextInv'
<1>0. running \in Proc /\ process_current \in Proc /\ alive \subseteq Proc
  BY DEF ContextInv, ContextType
<1>1. ASSUME NEW sc \in ScanCode, ps2_handle_interrupt(sc)
      PROVE  ContextInv'
  BY <1>1 DEF ps2_handle_interrupt, interrupt_handler, task_save_state, Resume,
              ContextInv, ContextType, SavedIsMine
<1>2. CASE keyboard_pop
  <2>1. buffer[running][head[running]] \in Char \cup {Zero, Error}
    BY <1>0 DEF RingType, None
  <2>2. /\ {} \in SUBSET Proc /\ alive' = alive \cup {} /\ process_current' \in alive'
        /\ syscall_wrapper(GetKey, buffer[running][head[running]])
    BY <1>2 DEF keyboard_pop, ContextInv, ContextType
  <2> QED
    BY <2>1, <2>2, CallKeepsContext
<1>3. ASSUME NEW p \in Proc, ProcStart(p)
      PROVE  ContextInv'
  <2>1. CASE Launch(p)
    BY <1>3, <2>1, LaunchKeepsContext DEF ProcStart
  <2>2. CASE LaunchFails({p})
    <3>1. /\ {p} \in SUBSET Proc /\ alive' = alive \cup {p} /\ process_current' \in alive'
          /\ syscall_wrapper(Start, Error)
      BY <1>3, <2>2 DEF ProcStart, LaunchFails
    <3> QED
      BY <3>1, CallKeepsContext
  <2> QED
    BY <1>3, <2>1, <2>2 DEF ProcStart
<1>4. CASE ProcStartFails
  <2>1. /\ {} \in SUBSET Proc /\ alive' = alive \cup {} /\ process_current' \in alive'
        /\ syscall_wrapper(Start, Error)
    BY <1>4 DEF ProcStartFails, LaunchFails, ContextInv, ContextType
  <2> QED
    BY <2>1, CallKeepsContext
<1>5. CASE Exit
  BY <1>5, EndKeepsContext
<1>6. CASE idt_clock /\ Outside
  BY <1>6, SwitchKeepsContext DEF Outside
<1>7. CASE Compute /\ Outside
  <2>1. cpu' \in RegisterFile /\ process_current' = process_current
    BY <1>7 DEF Compute, Outside, ContextInv, ContextType, RegisterFile
  <2>2. mine' \in [Proc -> RegisterFile] /\ mine'[running] = cpu'
        /\ \A r \in Proc \ {running} : mine'[r] = mine[r]
    BY <1>0, <1>7, <2>1 DEF Compute, ContextInv, ContextType
  <2> QED
    BY <1>0, <1>7, <2>1, <2>2 DEF Compute, ContextInv, ContextType, SavedIsMine, Alike
<1>8. CASE UNCHANGED vars
  BY <1>8 DEF vars, context, ContextInv, ContextType, SavedIsMine
<1> QED
  BY <1>1, <1>2, <1>3, <1>4, <1>5, <1>6, <1>7, <1>8 DEF Next

(* Every step keeps the rings right, when the typist waits. *)
LEMMA NextRing ==
    ASSUME TypistWaits, RingInv, ContextType, [Next]_vars
    PROVE  RingInv'
<1>0. running \in Proc /\ process_current \in Proc
  BY DEF ContextType
<1>1. ASSUME NEW sc \in ScanCode, ps2_handle_interrupt(sc)
      PROVE  RingInv'
  <2>1. PICK c \in (IF sc = "released" THEN {None} ELSE ps2_scan_to_char(sc, capslock')) :
          keyboard_push(process_current, c)
    BY <1>1 DEF ps2_handle_interrupt
  <2>2. c \in Char \cup {None}
    BY <2>1, ScanType
  <2>3. Len(pending[process_current]) < Size
    <3>1. Len(pending[process_current]) \in Nat
      BY <1>0 DEF RingInv, RingType
    <3> QED
      BY <1>1, <3>1, KeyboardAssumption DEF ps2_handle_interrupt, TypistWaits
  <2> QED
    BY <1>0, <1>1, <2>1, <2>2, <2>3, PushKeepsRing DEF ps2_handle_interrupt
<1>2. CASE keyboard_pop
  BY <1>0, <1>2, PopKeepsRing
<1>3. ASSUME NEW p \in Proc, ProcStart(p)
      PROVE  RingInv'
  BY <1>3, NewRing DEF ProcStart
<1>4. CASE UNCHANGED ring
  BY <1>4 DEF ring, RingInv, RingType, TailFollows, RingHoldsPending
<1> QED
  BY <1>1, <1>2, <1>3, <1>4 DEF Next, ProcStartFails, Exit, Outside, vars

(* Characters, indices and registers, however fast somebody types. *)
THEOREM ContextInductive == Spec => []CInv
<1>1. Init => CInv
  BY InitKInv DEF KInv, CInv, RingInv
<1>2. CInv /\ [Next]_vars => CInv'
  BY RingTypeKept, NextContext DEF CInv, ContextInv
<1> QED
  BY <1>1, <1>2, PTL DEF Spec

(* Whoever is preempted, started or ended: the processor has the registers *)
(* of the program it runs, but for the flags.                              *)
THEOREM RegistersStay == Spec => []RegistersAreKept
<1>1. CInv => RegistersAreKept
  BY DEF CInv, ContextInv, SavedIsMine, RegistersAreKept, Alike
<1> QED
  BY <1>1, ContextInductive, PTL

(* The invariant of the rings and the registers. *)
THEOREM KeyboardInductive ==
    ASSUME TypistWaits
    PROVE  Spec => []KInv
<1>1. KInv /\ [Next]_vars => KInv'
  BY NextRing, NextContext DEF KInv, RingInv, ContextInv
<1> QED
  BY <1>1, InitKInv, PTL DEF Spec

(* For every size of the ring: it holds what was typed and not yet read.   *)
THEOREM RingIsRight ==
    ASSUME TypistWaits
    PROVE  Spec => []RingHoldsPending
<1>1. KInv => RingHoldsPending
  BY DEF KInv, RingInv
<1> QED
  BY <1>1, KeyboardInductive, PTL

(* keyboard_pop() gives its caller the oldest unread key of its own. *)
THEOREM PopsOldest ==
    ASSUME TypistWaits
    PROVE  Spec => ReadsOldest
<1> DEFINE Oldest == IF pending[running] = <<>> THEN None ELSE Head(pending[running])
<1>1. KInv /\ [Next]_vars => [keyboard_pop => cpu'.eax = Oldest]_vars
  <2> SUFFICES ASSUME KInv, keyboard_pop
               PROVE  cpu'.eax = Oldest
    OBVIOUS
  <2>1. running \in Proc /\ cpu \in RegisterFile
    BY DEF KInv, ContextInv, ContextType
  <2>2. cpu' = [cpu EXCEPT !.eax = buffer[running][head[running]]]
    BY DEF keyboard_pop, syscall_wrapper
  <2>3. cpu'.eax = buffer[running][head[running]]
    BY <2>1, <2>2 DEF RegisterFile
  <2> QED
    BY <2>1, <2>3, HeadIsOldest DEF KInv
<1> QED
  BY <1>1, KeyboardInductive, PTL DEF Spec, ReadsOldest

=============================================================================
