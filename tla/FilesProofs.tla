---------------------------- MODULE FilesProofs ----------------------------
(***************************************************************************)
(* Proofs about Files and Path, for directories, tables and paths of every *)
(* size.                                                                   *)
(***************************************************************************)
EXTENDS Files, FiniteSetTheorems, WellFoundedInduction, TLAPS

TypeOK ==
    /\ \E n \in 1 .. MaxEntries : root \in [1 .. n -> Name \cup {Deleted}]
    /\ kind \in [Name -> Kind]
    /\ file_descriptors \in [Fd -> Name \cup {NULL, Bad}]
    /\ running \subseteq {fd \in Fd : Usable(fd)}
    /\ loads \in Nat

(* The descriptors taken, but for the last, are those of the programs that *)
(* have been loaded, in their order.                                       *)
EachKeepsOne ==
    result # "lost" => \A fd \in Fd \ {MaxFd} : file_descriptors[fd] # NULL <=> fd =< loads

IInv == TypeOK /\ RunningStayOpen /\ EachKeepsOne

-----------------------------------------------------------------------------
(* Operators *)

(* Min, which picks the first free descriptor and the end of a path, is    *)
(* the least member of its set.                                            *)
LEMMA MinIsLeast ==
    ASSUME NEW S \in SUBSET Nat, S # {}
    PROVE  Min(S) \in S /\ \A y \in S : Min(S) =< y
<1>1. PICK x \in S : \A y \in S : ~(<<y, x>> \in OpToRel(<, Nat))
  BY NatLessThanWellFounded, WFMin
<1>2. \A y \in S : ~(y < x)
  BY <1>1, Zenon DEF OpToRel
<1>3. \A y \in S : x =< y
  BY <1>2
<1> QED
  BY <1>3 DEF Min

(* A path is a sequence of names and separators. *)
LEMMA PathType ==
    ASSUME NEW path \in Paths
    PROVE  /\ path \in Seq(Name \cup {Sep}) /\ Len(path) \in Nat
           /\ \A k \in 1 .. Len(path) : path[k] \in Name \cup {Sep}
           /\ \A k \in 1 .. (Len(path) - 1) : path[k] = Sep \/ path[k + 1] = Sep
<1>1. PICK n \in 0 .. MaxPath : path \in [1 .. n -> Name \cup {Sep}]
  BY DEF Paths
<1>2. n \in Nat
  BY PathAssumption
<1>3. path \in Seq(Name \cup {Sep})
  BY <1>1, <1>2
<1> QED
  BY <1>3 DEF Paths

(* The end path_parse() finds. *)
LEMMA ParseEnds ==
    ASSUME NEW path, Len(path) \in Nat
    PROVE  \E n \in 0 .. Len(path) :
             /\ path_parse(path) = [i \in 1 .. n |-> path[2 * i - 1]]
             /\ 2 * (n + 1) - 1 <= Len(path) => path[2 * (n + 1) - 1] = Sep
             /\ \A m \in 1 .. n : 2 * m - 1 <= Len(path) /\ path[2 * m - 1] # Sep
<1> DEFINE IsPart(n) == path_parse_part(path, n)
           S == {n \in 0 .. Len(path) : ~IsPart(n + 1)}
           n == Min(S)
<1>1. Len(path) \in S
  BY DEF path_parse_part
<1>2. S \in SUBSET Nat /\ S # {}
  BY <1>1
<1>3. n \in S /\ \A y \in S : n =< y
  BY <1>2, MinIsLeast
<1>4. path_parse(path) = [i \in 1 .. n |-> path[2 * i - 1]]
  BY DEF path_parse
<1> HIDE DEF n
<1>5. ASSUME NEW m \in 1 .. n
      PROVE  IsPart(m)
  <2>0. n \in 0 .. Len(path) /\ \A y \in S : y \in Nat
    BY <1>3
  <2>1. m - 1 \in 0 .. Len(path) /\ (m - 1) + 1 = m /\ ~(n =< m - 1)
    BY <2>0
  <2>2. m - 1 \notin S
    BY <1>3, <2>1
  <2> QED
    BY <2>1, <2>2
<1> QED
  BY <1>3, <1>4, <1>5 DEF path_parse_part

(* The parts of a path, as far as fat16_open() looks at them. *)
LEMMA ParseEffect ==
    ASSUME NEW path, path \in Seq(Name \cup {Sep})
    PROVE  LET parts == path_parse(path)
           IN  /\ parts # <<>> => /\ Len(path) >= 1 /\ path[1] # Sep /\ path[1] \in Name
                                  /\ parts[1] = path[1]
               /\ parts # <<>> /\ Len(parts) = 1 /\ Len(path) >= 3 => path[3] = Sep
               /\ Len(path) = 1 /\ path[1] # Sep => parts # <<>> /\ Len(parts) = 1
<1>1. Len(path) \in Nat /\ \A k \in 1 .. Len(path) : path[k] \in Name \cup {Sep}
  OBVIOUS
<1>2. PICK n \in 0 .. Len(path) :
             /\ path_parse(path) = [i \in 1 .. n |-> path[2 * i - 1]]
             /\ 2 * (n + 1) - 1 <= Len(path) => path[2 * (n + 1) - 1] = Sep
             /\ \A m \in 1 .. n : 2 * m - 1 <= Len(path) /\ path[2 * m - 1] # Sep
  BY <1>1, ParseEnds
<1> DEFINE parts == path_parse(path)
           P == {path[2 * i - 1] : i \in 1 .. n}
<1>3. parts \in Seq(P) /\ Len(parts) = n
  <2>1. parts \in [1 .. n -> P] /\ n \in Nat
    BY <1>2
  <2> HIDE DEF parts, P
  <2>2. parts \in Seq(P)
    BY <2>1
  <2> QED
    BY <2>1, <2>2
<1>4. parts = <<>> <=> n = 0
  BY <1>3
<1>5. n >= 1 => Len(path) >= 1 /\ path[1] # Sep /\ path[1] \in Name /\ parts[1] = path[1]
  <2> SUFFICES ASSUME n >= 1
               PROVE  Len(path) >= 1 /\ path[1] # Sep /\ path[1] \in Name /\ parts[1] = path[1]
    OBVIOUS
  <2>1. 1 \in 1 .. n /\ 2 * 1 - 1 = 1
    BY <1>1
  <2>2. 1 <= Len(path) /\ path[1] # Sep /\ parts[1] = path[1]
    BY <1>2, <2>1
  <2> QED
    BY <1>1, <2>2
<1>6. n = 1 /\ Len(path) >= 3 => path[3] = Sep
  BY <1>1, <1>2
<1>7. Len(path) = 1 /\ path[1] # Sep => n = 1
  BY <1>1, <1>2
<1> QED
  BY <1>3, <1>4, <1>5, <1>6, <1>7

(* What the first lookup of a path finds: a name of the directory, or an   *)
(* error.                                                                  *)
LEMMA OpenType ==
    ASSUME NEW path \in Seq(Name \cup {Sep}), NEW memory, path_parse(path) # <<>>
    PROVE  fat16_open(path_parse(path), memory) \in Name \cup {Bad}
  BY ParseEffect DEF fat16_open

-----------------------------------------------------------------------------
(* Loading *)

table == file_descriptors

NewFd == Min(FreeFds(table))

(* The table with the new descriptor. *)
With(file) == [table EXCEPT ![NewFd] = file]

(* The file a path names. *)
File(path) == fat16_open(path_parse(path), TRUE)

(* fopen() gives up: no path, or no descriptor. *)
Refused(path) == path_parse(path) = <<>> \/ FreeFds(table) = {}

(* The descriptor fopen() takes is the first free one. *)
LEMMA NewFdIsFree ==
    ASSUME FreeFds(table) # {}
    PROVE  /\ NewFd \in Fd /\ table[NewFd] = NULL
           /\ \A i \in FreeFds(table) : NewFd =< i
<1>1. FreeFds(table) \in SUBSET Nat
  BY FilesAssumption DEF FreeFds, Fd
<1>2. NewFd \in FreeFds(table) /\ \A i \in FreeFds(table) : NewFd =< i
  BY <1>1, MinIsLeast DEF NewFd
<1> QED
  BY <1>2 DEF FreeFds

(* What fopen() and fclose() make of the table, when there is a descriptor. *)
LEMMA OpenEffect ==
    ASSUME TypeOK, NEW path \in Seq(Name \cup {Sep}), NEW memory \in BOOLEAN, ~Refused(path)
    PROVE  LET file == IF memory THEN File(path) ELSE Bad
           IN  /\ fopen(table, path, memory) = [fd |-> NewFd, table |-> With(file)]
               /\ file \in Name \cup {Bad} /\ With(file)[NewFd] = file
               /\ fclose(With(file), NewFd) = IF NewFd = MaxFd THEN With(file) ELSE table
<1> DEFINE file == fat16_open(path_parse(path), memory)
<1>1. NewFd \in Fd /\ table[NewFd] = NULL /\ table \in [Fd -> Name \cup {NULL, Bad}]
  BY NewFdIsFree DEF Refused, TypeOK, table
<1>2. fopen(table, path, memory) = [fd |-> NewFd, table |-> With(file)]
  BY DEF Refused, fopen, NewFd, With
<1>3. file \in Name \cup {Bad}
  BY OpenType DEF Refused
<1>4. file = IF memory THEN File(path) ELSE Bad
  BY DEF fat16_open, File
<1> HIDE DEF file
<1>5. With(file)[NewFd] = file
  BY <1>1 DEF With
<1>6. Usable(NewFd) <=> NewFd # MaxFd
  BY <1>1, FilesAssumption DEF Usable, Fd
<1>7. [With(file) EXCEPT ![NewFd] = NULL] = table
  BY <1>1 DEF With
<1> QED
  BY <1>2, <1>3, <1>4, <1>5, <1>6, <1>7 DEF fclose

(* elf_load() and process_load_bin() fail and leave the table as it was,   *)
(* but for a descriptor that cannot be closed; or the kernel is lost.      *)
Fails(o) ==
    /\ o.result \notin {"ok", "lost", "EINVFMT"}
    /\ \/ o.table = table
       \/ NewFd = MaxFd /\ FreeFds(table) # {} /\ \E file \in Name \cup {Bad} : o.table = With(file)

Lost(o) == o.result = "lost" /\ FreeFds(table) # {} /\ o.table = With(Bad)

(* The file of path is opened and loaded. *)
Succeeds(o, path) ==
    /\ o = Outcome("ok", With(File(path)), NewFd)
    /\ ~Refused(path) /\ NewFd # MaxFd /\ File(path) \in Name /\ kind[File(path)] \in {"elf", "bin"}

(* There is memory, a descriptor and a program. *)
Can(path, has) ==
    /\ has = Memory /\ ~Refused(path) /\ NewFd # MaxFd
    /\ File(path) # Bad /\ kind[File(path)] \in {"elf", "bin"}

(* What elf_load() does. *)
LEMMA ElfEffect ==
    ASSUME TypeOK, NEW path \in Seq(Name \cup {Sep}), NEW memory \in BOOLEAN, NEW stray \in Stray
    PROVE  LET o == elf_load(table, path, memory, stray)
           IN  /\ \/ Fails(o) \/ Lost(o)
                  \/ Succeeds(o, path) /\ kind[File(path)] = "elf"
                  \/ /\ o.result = "EINVFMT" /\ o.table = table /\ ~Refused(path) /\ NewFd # MaxFd
                     /\ File(path) \in Name /\ kind[File(path)] = "bin"
               /\ memory /\ Can(path, Memory) => o.result \in {"ok", "EINVFMT"}
<1> DEFINE o == elf_load(table, path, memory, stray)
<1>0. MaxFd \in Nat /\ MaxFd >= 1 /\ ~Usable(0) /\ ~Usable(-2)
  BY FilesAssumption DEF Usable
<1>1. CASE Refused(path)
  <2>1. fopen(table, path, memory).fd \in {0, -2} /\ fopen(table, path, memory).table = table
    BY <1>1 DEF Refused, fopen, EINVARG
  <2>2. o = Outcome("EIO", table, 0)
    BY <1>0, <2>1 DEF elf_load, fclose
  <2> QED
    BY <1>1, <2>2 DEF Fails, Can, Outcome
<1>2. CASE ~Refused(path)
  <2> DEFINE file == IF memory THEN File(path) ELSE Bad
  <2>1. /\ fopen(table, path, memory) = [fd |-> NewFd, table |-> With(file)]
        /\ file \in Name \cup {Bad} /\ With(file)[NewFd] = file
        /\ fclose(With(file), NewFd) = IF NewFd = MaxFd THEN With(file) ELSE table
    BY <1>2, OpenEffect
  <2>2. NewFd \in Fd /\ FreeFds(table) # {}
    BY <1>2, NewFdIsFree DEF Refused
  <2>3. (Usable(NewFd) <=> NewFd # MaxFd) /\ ~(NewFd <= 0)
    BY <1>0, <2>2 DEF Usable, Fd
  <2>4. file # Bad => file = File(path) /\ file \in Name /\ kind[file] \in Kind
    BY <2>1 DEF TypeOK
  <2>5. memory => file = File(path)
    OBVIOUS
  <2> HIDE DEF file
  <2>6. CASE NewFd = MaxFd
    <3>1. o = Outcome("EIO", With(file), 0)
      BY <2>1, <2>3, <2>6 DEF elf_load
    <3> QED
      BY <2>1, <2>2, <2>6, <3>1 DEF Fails, Can, Outcome
  <2>7. CASE NewFd # MaxFd /\ file = Bad
    <3>1. o = OfBad(With(file), NewFd, stray)
      BY <2>1, <2>3, <2>7 DEF elf_load
    <3> QED
      BY <2>1, <2>2, <2>5, <2>7, <3>1 DEF OfBad, Stray, Fails, Lost, Can, Outcome
  <2>8. CASE NewFd # MaxFd /\ file # Bad
    <3>1. o = IF kind[file] = "torn" THEN Outcome("EIO", table, 0)
              ELSE IF kind[file] \in {"empty", "dir"} THEN Outcome("EINVARG", table, 0)
              ELSE IF kind[file] = "bin" THEN Outcome("EINVFMT", table, 0)
              ELSE Outcome("ok", With(file), NewFd)
      BY <2>1, <2>3, <2>8 DEF elf_load
    <3> QED
      BY <1>2, <2>4, <2>8, <3>1 DEF Fails, Succeeds, Can, Outcome, Kind
  <2> QED
    BY <2>6, <2>7, <2>8
<1> QED
  BY <1>1, <1>2

(* What process_load_bin() does with a file that elf_load() has opened and *)
(* found not to be for ELF.                                                *)
LEMMA BinEffect ==
    ASSUME TypeOK, NEW path \in Seq(Name \cup {Sep}), NEW memory \in BOOLEAN, NEW room \in BOOLEAN,
           NEW stray \in Stray,
           ~Refused(path), NewFd # MaxFd, File(path) \in Name, kind[File(path)] = "bin"
    PROVE  LET o == process_load_bin(table, path, memory, room, stray)
           IN  /\ Fails(o) \/ Lost(o) \/ Succeeds(o, path)
               /\ memory /\ room => o.result = "ok"
<1> DEFINE o == process_load_bin(table, path, memory, room, stray)
           file == IF memory THEN File(path) ELSE Bad
<1>1. /\ fopen(table, path, memory) = [fd |-> NewFd, table |-> With(file)]
      /\ file \in Name \cup {Bad} /\ With(file)[NewFd] = file
      /\ fclose(With(file), NewFd) = IF NewFd = MaxFd THEN With(file) ELSE table
  BY OpenEffect
<1>2. NewFd \in Fd /\ FreeFds(table) # {}
  BY NewFdIsFree DEF Refused
<1>3. Usable(NewFd)
  BY <1>2, FilesAssumption DEF Usable, Fd
<1>4. /\ memory => file = File(path) /\ file # Bad
      /\ file # Bad => file = File(path)
  BY FilesAssumption
<1> HIDE DEF file
<1>5. CASE file = Bad
  <2>1. o = OfBad(With(file), NewFd, stray)
    BY <1>1, <1>3, <1>5 DEF process_load_bin
  <2> QED
    BY <1>1, <1>2, <1>4, <1>5, <2>1 DEF OfBad, Stray, Fails, Lost, Outcome
<1>6. CASE file # Bad
  <2>1. o = IF ~room THEN Outcome("ENOMEM", table, 0) ELSE Outcome("ok", With(file), NewFd)
    BY <1>1, <1>3, <1>4, <1>6 DEF process_load_bin
  <2> QED
    BY <1>4, <1>6, <2>1 DEF Fails, Succeeds, Outcome
<1> QED
  BY <1>5, <1>6

(* Every outcome of a load, and the table it leaves. *)
LEMMA LoadEffect ==
    ASSUME TypeOK, NEW path \in Seq(Name \cup {Sep}), NEW has \in SUBSET Memory, NEW stray \in Stray
    PROVE  LET o == process_load_data(table, path, has, stray)
           IN  /\ Fails(o) \/ Lost(o) \/ Succeeds(o, path)
               /\ Can(path, has) => o.result = "ok"
<1> DEFINE o == process_load_data(table, path, has, stray)
           e == elf_load(table, path, "elf" \in has, stray)
           b == process_load_bin(table, path, "bin" \in has, "data" \in has, stray)
<1>1. /\ \/ Fails(e) \/ Lost(e)
         \/ Succeeds(e, path) /\ kind[File(path)] = "elf"
         \/ /\ e.result = "EINVFMT" /\ e.table = table /\ ~Refused(path) /\ NewFd # MaxFd
            /\ File(path) \in Name /\ kind[File(path)] = "bin"
      /\ "elf" \in has /\ Can(path, Memory) => e.result \in {"ok", "EINVFMT"}
  <2>1. ("elf" \in has) \in BOOLEAN
    OBVIOUS
  <2> QED
    BY <2>1, ElfEffect
<1>2. e.result = "EINVFMT" /\ e.table = table => o = b
  BY DEF process_load_data
<1>3. e.result # "EINVFMT" => o = e
  BY DEF process_load_data
<1>4. ASSUME ~Refused(path), NewFd # MaxFd, File(path) \in Name, kind[File(path)] = "bin"
      PROVE  /\ Fails(b) \/ Lost(b) \/ Succeeds(b, path)
             /\ "bin" \in has /\ "data" \in has => b.result = "ok"
  <2>1. ("bin" \in has) \in BOOLEAN /\ ("data" \in has) \in BOOLEAN
    OBVIOUS
  <2> QED
    BY <1>4, <2>1, BinEffect
<1>5. Can(path, has) => "elf" \in has /\ "bin" \in has /\ "data" \in has /\ Can(path, Memory)
  BY DEF Can, Memory
<1>6. /\ Fails(e) => e.result # "EINVFMT"
      /\ Lost(e) => e.result # "EINVFMT"
      /\ Succeeds(e, path) => e.result # "EINVFMT" /\ e.result = "ok"
  BY DEF Fails, Lost, Succeeds, Outcome
<1> HIDE DEF e, b
<1>7. Fails(o) \/ Lost(o) \/ Succeeds(o, path)
  BY <1>1, <1>2, <1>3, <1>4, <1>6
<1>8. Can(path, has) => o.result = "ok"
  BY <1>1, <1>2, <1>3, <1>4, <1>5, <1>6
<1> QED
  BY <1>7, <1>8

-----------------------------------------------------------------------------
(* The inductive invariant *)

(* A freshly booted system has every descriptor free. *)
LEMMA InitIInv == Init => IInv
<1> SUFFICES ASSUME Init
             PROVE  IInv
  OBVIOUS
<1>1. PICK n \in 1 .. MaxEntries : root \in [1 .. n -> Name \cup {Deleted}]
  BY DEF Init
<1> QED
  BY <1>1, FilesAssumption DEF Init, IInv, TypeOK, RunningStayOpen, EachKeepsOne, Fd

(* The new descriptor is the next one. *)
LEMMA NewFdIsLoads ==
    ASSUME TypeOK, EachKeepsOne, result # "lost", FreeFds(table) # {}, NewFd # MaxFd
    PROVE  NewFd = loads + 1
<1>1. /\ NewFd \in Fd /\ table[NewFd] = NULL
      /\ \A i \in FreeFds(table) : NewFd =< i
  BY NewFdIsFree
<1>2. loads \in Nat /\ MaxFd \in Nat /\ ~(NewFd =< loads)
  BY <1>1, FilesAssumption DEF TypeOK, EachKeepsOne, table
<1>3. loads + 1 \in Fd \ {MaxFd}
  BY <1>1, <1>2 DEF Fd
<1>4. table[loads + 1] = NULL
  BY <1>2, <1>3 DEF EachKeepsOne, table
<1> QED
  BY <1>1, <1>2, <1>3, <1>4 DEF FreeFds, Fd

(* A load takes a descriptor that nobody has, and frees no other. *)
LEMMA LoadIInv ==
    ASSUME IInv, NEW path \in Seq(Name \cup {Sep}), NEW has \in SUBSET Memory, NEW stray \in Stray,
           Load(path, has, stray)
    PROVE  IInv'
<1> DEFINE o == process_load_data(table, path, has, stray)
<1>1. /\ result # "lost" /\ file_descriptors' = o.table /\ result' = o.result
      /\ running' = IF o.result = "ok" THEN running \cup {o.fd} ELSE running
      /\ loads' = IF o.result = "ok" THEN loads + 1 ELSE loads
      /\ UNCHANGED <<root, kind>>
  BY DEF Load, table
<1>2. TypeOK /\ RunningStayOpen /\ EachKeepsOne /\ table \in [Fd -> Name \cup {NULL, Bad}]
  BY DEF IInv, TypeOK, table
<1>3. Fails(o) \/ Lost(o) \/ Succeeds(o, path)
  BY <1>2, LoadEffect
<1>4. ASSUME FreeFds(table) # {}, NEW file \in Name \cup {Bad}
      PROVE  /\ NewFd \in Fd /\ table[NewFd] = NULL /\ NewFd \notin running
             /\ With(file) \in [Fd -> Name \cup {NULL, Bad}] /\ With(file)[NewFd] = file
             /\ \A fd \in Fd \ {NewFd} : With(file)[fd] = table[fd]
             /\ \A p \in running : With(file)[p] = table[p]
  <2>1. NewFd \in Fd /\ table[NewFd] = NULL
    BY <1>4, NewFdIsFree
  <2>2. NewFd \notin running
    BY <1>2, <2>1, FilesAssumption DEF RunningStayOpen, table
  <2> QED
    BY <1>2, <2>1, <2>2 DEF With, TypeOK
<1> HIDE DEF o
<1>5. CASE Fails(o)
  <2>1. result' # "lost" /\ running' = running /\ loads' = loads
    BY <1>1, <1>5 DEF Fails
  <2>2. CASE o.table = table
    BY <1>1, <1>2, <2>1, <2>2 DEF IInv, TypeOK, RunningStayOpen, EachKeepsOne, table
  <2>3. CASE NewFd = MaxFd /\ FreeFds(table) # {} /\ \E file \in Name \cup {Bad} : o.table = With(file)
    BY <1>1, <1>2, <1>4, <2>1, <2>3 DEF IInv, TypeOK, RunningStayOpen, EachKeepsOne, table
  <2> QED
    BY <1>5, <2>2, <2>3 DEF Fails
<1>6. CASE Lost(o)
  BY <1>1, <1>2, <1>4, <1>6 DEF Lost, IInv, TypeOK, RunningStayOpen, EachKeepsOne, table
<1>7. CASE Succeeds(o, path)
  <2>1. /\ o.result = "ok" /\ o.table = With(File(path)) /\ o.fd = NewFd
        /\ FreeFds(table) # {} /\ NewFd # MaxFd /\ File(path) \in Name
    BY <1>7 DEF Succeeds, Outcome, Refused
  <2>2. Usable(NewFd)
    BY <1>4, <2>1, FilesAssumption DEF Usable, Fd
  <2>3. NewFd = loads + 1
    BY <1>1, <1>2, <2>1, NewFdIsLoads
  <2>4. EachKeepsOne'
    <3>1. /\ loads' = NewFd /\ file_descriptors' = With(File(path)) /\ File(path) # NULL
          /\ \A fd \in Fd : fd \in Nat
      BY <1>1, <2>1, <2>3, FilesAssumption DEF Fd
    <3>2. \A fd \in Fd \ {MaxFd} : table[fd] # NULL <=> fd =< loads
      BY <1>1, <1>2 DEF EachKeepsOne, table
    <3>3. /\ With(File(path))[NewFd] = File(path) /\ NewFd \in Fd
          /\ \A fd \in Fd \ {NewFd} : With(File(path))[fd] = table[fd]
      BY <1>4, <2>1
    <3>4. \A fd \in Fd \ {NewFd} : fd =< loads <=> fd =< NewFd
      BY <2>3, <3>1, <1>2 DEF TypeOK
    <3>5. \A fd \in Fd \ {MaxFd} : file_descriptors'[fd] # NULL <=> fd =< loads'
      BY <3>1, <3>2, <3>3, <3>4
    <3> QED
      BY <3>5 DEF EachKeepsOne
  <2>5. TypeOK' /\ RunningStayOpen'
    BY <1>1, <1>2, <1>4, <2>1, <2>2 DEF TypeOK, RunningStayOpen, table
  <2> QED
    BY <2>4, <2>5 DEF IInv
<1> QED
  BY <1>3, <1>5, <1>6, <1>7

(* Every step keeps the invariant. *)
LEMMA NextIInv ==
    ASSUME IInv, [Next]_vars
    PROVE  IInv'
<1>1. ASSUME NEW path \in Paths, NEW has \in SUBSET Memory, NEW stray \in Stray,
             Load(path, has, stray)
      PROVE  IInv'
  BY <1>1, LoadIInv, PathType
<1>2. ASSUME NEW p \in running, Exit(p)
      PROVE  IInv'
  BY <1>2 DEF Exit, IInv, TypeOK, RunningStayOpen, EachKeepsOne
<1>3. CASE UNCHANGED vars
  BY <1>3 DEF vars, IInv, TypeOK, RunningStayOpen, EachKeepsOne
<1> QED
  BY <1>1, <1>2, <1>3 DEF Next, Hang

(* The invariant of the descriptor table. *)
THEOREM FilesInductive == Spec => []IInv
<1>1. IInv /\ [Next]_vars => IInv'
  BY NextIInv
<1> QED
  BY <1>1, InitIInv, PTL DEF Spec

(* No load, failed or not, closes the file of a program that runs. *)
THEOREM FilesStayOpen == Spec => []RunningStayOpen
<1>1. IInv => RunningStayOpen
  BY DEF IInv
<1> QED
  BY <1>1, FilesInductive, PTL

-----------------------------------------------------------------------------
(* Action properties *)

(* A load that fails gives back the descriptor it took: all but the last,  *)
(* which file_get_descriptor() refuses, and so fclose() cannot close.      *)
THEOREM FailedLoadsClose == Spec => FailedLoadCloses
<1> DEFINE P == result' \notin {"ok", "lost"}
                  => \A fd \in Fd : \/ file_descriptors'[fd] = file_descriptors[fd]
                                    \/ fd = MaxFd /\ FreeFds(file_descriptors) = {MaxFd}
<1>1. IInv /\ [Next]_vars => P
  <2> SUFFICES ASSUME IInv, [Next]_vars, result' \notin {"ok", "lost"}, NEW fd \in Fd
               PROVE  \/ file_descriptors'[fd] = table[fd]
                      \/ fd = MaxFd /\ FreeFds(table) = {MaxFd}
    BY DEF table
  <2>1. ASSUME NEW path \in Paths, NEW has \in SUBSET Memory, NEW stray \in Stray,
               Load(path, has, stray)
        PROVE  \/ file_descriptors'[fd] = table[fd]
               \/ fd = MaxFd /\ FreeFds(table) = {MaxFd}
    <3> DEFINE o == process_load_data(table, path, has, stray)
    <3>1. file_descriptors' = o.table /\ result' = o.result
      BY <2>1 DEF Load, table
    <3>2. path \in Seq(Name \cup {Sep}) /\ TypeOK
      BY PathType DEF IInv
    <3>3. Fails(o) \/ Lost(o) \/ Succeeds(o, path)
      BY <3>2, LoadEffect
    <3>4. Fails(o)
      BY <3>1, <3>3 DEF Lost, Succeeds, Outcome
    <3> HIDE DEF o
    <3>5. CASE o.table = table
      BY <3>1, <3>5
    <3>6. CASE NewFd = MaxFd /\ FreeFds(table) # {} /\ \E file \in Name \cup {Bad} : o.table = With(file)
      <4>1. MaxFd \in FreeFds(table) /\ \A i \in FreeFds(table) : MaxFd =< i /\ i \in Fd
        BY <3>6, NewFdIsFree DEF FreeFds
      <4>2. \A i \in FreeFds(table) : i = MaxFd
        BY <4>1, FilesAssumption DEF Fd
      <4>4. FreeFds(table) = {MaxFd}
        BY <4>1, <4>2
      <4>3. \A file : fd # NewFd => With(file)[fd] = table[fd]
        BY <3>2 DEF With, TypeOK, table
      <4> QED
        BY <3>1, <3>6, <4>3, <4>4
    <3> QED
      BY <3>4, <3>5, <3>6 DEF Fails
  <2>2. ASSUME NEW p \in running, Exit(p)
        PROVE  file_descriptors' = table
    BY <2>2 DEF Exit, table
  <2>3. CASE UNCHANGED vars
    BY <2>3 DEF vars, table
  <2> QED
    BY <2>1, <2>2, <2>3 DEF Next, Hang
<1> QED
  BY <1>1, FilesInductive, PTL DEF FailedLoadCloses, Spec

(* The lookup finds a name with no deleted entry in front of it: as many   *)
(* entries as are not deleted are looked at.                               *)
LEMMA FrontIsFound ==
    ASSUME TypeOK, NEW name \in InFront
    PROVE  fat16_find_item_in_dir(name)
<1> DEFINE S == {i \in DOMAIN root : root[i] # Deleted}
<1>1. PICK n \in 1 .. MaxEntries : root \in [1 .. n -> Name \cup {Deleted}]
  BY DEF TypeOK
<1>2. PICK i \in DOMAIN root : root[i] = name /\ \A j \in 1 .. i : root[j] # Deleted
  BY DEF InFront
<1>3. i \in 1 .. n /\ n \in Nat /\ DOMAIN root = 1 .. n
  BY <1>1, <1>2, FilesAssumption
<1>4. S \in SUBSET (1 .. n) /\ 1 .. i \in SUBSET S
  BY <1>2, <1>3
<1>5. IsFiniteSet(S)
  <2>1. IsFiniteSet(1 .. n)
    BY <1>3, FS_Interval
  <2> QED
    BY <1>4, <2>1, FS_Subset
<1>6. Cardinality(1 .. i) =< Cardinality(S) /\ Cardinality(S) \in Nat
  BY <1>4, <1>5, FS_Subset, FS_CardinalityType
<1>7. Cardinality(1 .. i) = i
  BY <1>3, FS_Interval
<1>8. i \in 1 .. Cardinality(S)
  BY <1>3, <1>6, <1>7
<1> QED
  BY <1>2, <1>8 DEF fat16_find_item_in_dir, fat16_get_dir_items

(* A program in front of the first deleted entry loads, whatever has       *)
(* failed to load before, until as many have been loaded as there are      *)
(* usable descriptors.                                                     *)
THEOREM FrontProgramsLoad == Spec => ListedProgramsLoad
<1> DEFINE P == \A name \in InFront :
                  LoadsProgram(name) => (result' = "ok" <=> loads < MaxFd - 1)
<1>1. IInv => P
  <2> SUFFICES ASSUME IInv, NEW name \in InFront, kind[name] \in {"elf", "bin"},
                      NEW stray \in Stray, Load(<<name>>, Memory, stray)
               PROVE  result' = "ok" <=> loads < MaxFd - 1
    BY DEF LoadsProgram
  <2> DEFINE path == <<name>>
             o == process_load_data(table, path, Memory, stray)
  <2>1. TypeOK /\ EachKeepsOne /\ fat16_find_item_in_dir(name) /\ loads \in Nat
    BY FrontIsFound DEF IInv, TypeOK
  <2>2. name \in Name
    <3>1. PICK n \in 1 .. MaxEntries : root \in [1 .. n -> Name \cup {Deleted}]
      BY <2>1 DEF TypeOK
    <3>2. PICK i \in DOMAIN root : root[i] = name /\ \A j \in 1 .. i : root[j] # Deleted
      BY DEF InFront
    <3>3. i \in 1 .. n /\ i \in 1 .. i
      BY <3>1, <3>2
    <3> QED
      BY <3>1, <3>2, <3>3
  <2>3. path \in Seq(Name \cup {Sep}) /\ Len(path) = 1 /\ path[1] = name /\ name # Sep
    BY <2>2, PathAssumption
  <2>0. result # "lost" /\ result' = o.result
    BY DEF Load, table
  <2> HIDE DEF path
  <2>4. path_parse(path) # <<>> /\ Len(path_parse(path)) = 1 /\ path_parse(path)[1] = name
    BY <2>3, ParseEffect
  <2>5. File(path) = name /\ name # Bad
    BY <2>1, <2>2, <2>4, FilesAssumption DEF fat16_open, File
  <2>6. /\ Fails(o) \/ Lost(o) \/ Succeeds(o, path)
        /\ Can(path, Memory) => o.result = "ok"
    BY <2>1, <2>3, LoadEffect
  <2> HIDE DEF o
  <2>7. ASSUME loads < MaxFd - 1
        PROVE  o.result = "ok"
    <3>1. loads + 1 \in Fd \ {MaxFd}
      BY <2>1, <2>7, FilesAssumption DEF Fd
    <3>2. loads + 1 \in FreeFds(table)
      BY <2>0, <2>1, <3>1 DEF EachKeepsOne, FreeFds, table
    <3>3. NewFd =< loads + 1 /\ NewFd \in Fd
      BY <3>2, NewFdIsFree
    <3>4. ~Refused(path) /\ NewFd # MaxFd
      BY <2>1, <2>4, <2>7, <3>2, <3>3, FilesAssumption DEF Refused, Fd
    <3> QED
      BY <2>5, <2>6, <3>4 DEF Can
  <2>8. ASSUME o.result = "ok"
        PROVE  loads < MaxFd - 1
    <3>1. FreeFds(table) # {} /\ NewFd # MaxFd
      BY <2>6, <2>8 DEF Fails, Lost, Succeeds, Refused
    <3>2. NewFd = loads + 1 /\ NewFd \in Fd
      BY <2>0, <2>1, <3>1, NewFdIsLoads, NewFdIsFree
    <3> QED
      BY <2>1, <3>1, <3>2, FilesAssumption DEF Fd
  <2> QED
    BY <2>0, <2>7, <2>8
<1> QED
  BY <1>1, FilesInductive, PTL DEF ListedProgramsLoad

(* Without repeated separators, the file of a new program is the one its   *)
(* path ends with.                                                         *)
THEOREM NamedProgramRuns == Spec => RunsWhatIsNamed
<1> DEFINE P == \A path \in Paths : RunsOther(path) => RepeatsSep(path)
<1>1. IInv => P
  <2> SUFFICES ASSUME IInv, NEW path \in Paths, NEW fd \in running' \ running,
                      NEW has \in SUBSET Memory, NEW stray \in Stray,
                      Load(path, has, stray), ~RepeatsSep(path)
               PROVE  EndsWith(path, file_descriptors'[fd])
    BY DEF RunsOther
  <2> DEFINE o == process_load_data(table, path, has, stray)
             parts == path_parse(path)
             v == File(path)
  <2>1. o.result = "ok" /\ fd = o.fd /\ file_descriptors' = o.table
    BY DEF Load, table
  <2>2. /\ path \in Seq(Name \cup {Sep}) /\ TypeOK /\ Len(path) \in Nat
        /\ \A k \in 1 .. (Len(path) - 1) : path[k] = Sep \/ path[k + 1] = Sep
    BY PathType DEF IInv
  <2>3. ~Refused(path) /\ v \in Name /\ v # Bad /\ fd = NewFd /\ file_descriptors' = With(v)
    <3>1. Fails(o) \/ Lost(o) \/ Succeeds(o, path)
      BY <2>2, LoadEffect
    <3> QED
      BY <2>1, <3>1, FilesAssumption DEF Fails, Lost, Succeeds, Outcome
  <2>4. v = parts[1] /\ Len(parts) = 1 /\ parts # <<>>
    BY <2>3 DEF fat16_open, File, Refused
  <2>5. /\ Len(path) >= 1 /\ path[1] # Sep /\ v = path[1]
        /\ Len(path) >= 3 => path[3] = Sep
    BY <2>2, <2>4, ParseEffect
  <2>6. Len(path) >= 2 => path[2] = Sep
    BY <2>2, <2>5
  <2>7. ASSUME Len(path) >= 3
        PROVE  FALSE
    <3>1. 2 \in 1 .. (Len(path) - 1) /\ 2 + 1 = 3
      BY <2>2, <2>7
    <3> QED
      BY <2>2, <2>5, <2>6, <2>7, <3>1 DEF RepeatsSep
  <2>8. file_descriptors'[fd] = v
    BY <2>2, <2>3, NewFdIsFree DEF With, TypeOK, Refused, table
  <2>9. 1 \in 1 .. Len(path) /\ \A j \in (1 + 1) .. Len(path) : path[j] = Sep
    BY <2>2, <2>5, <2>6, <2>7
  <2> QED
    BY <2>5, <2>8, <2>9 DEF EndsWith
<1> QED
  BY <1>1, FilesInductive, PTL DEF RunsWhatIsNamed

=============================================================================
