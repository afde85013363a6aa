------------------------------ MODULE Nbi_proofs ------------------------------
(***************************************************************************)
(* Pending reads, for every number of PEs, readers, reads, cells and       *)
(* changes of them: what quiet returns, where elements on their way may    *)
(* go, and that no program ends without its results.                       *)
(***************************************************************************)
EXTENDS Nbi, TLAPS

Reads == UNION {Began(a, b) : a, b \in Cell}
Buffers == UNION {Buffer(a, b) : a, b \in Cell}
Results == UNION {Returned(a, b) : a, b \in Cell}

Types ==
  /\ pc \in [PE -> {"run", "quiet", "end", "panicked", "aborted"}]
  /\ live \in [PE -> SUBSET Id] /\ taken \in [PE -> SUBSET Id]
  /\ read \in [PE -> [Id -> Reads \cup {Nothing}]]
  /\ buf \in [PE -> [Id -> Buffers \cup {Nothing}]]
  /\ got \in [PE -> [Id -> Results \cup {Nothing}]]
  /\ mem \in [PE -> [Cell -> 0..MaxChanges]]
  /\ flight \subseteq PE \X Id \X Cell

Pending(p) == live[p] \cup taken[p]

\* Which handles a PE has, by where it is.
Handles ==
  \A p \in PE :
    /\ pc[p] # "quiet" => taken[p] = {}
    /\ pc[p] \in {"end", "panicked", "aborted"} => live[p] = {}
    /\ live[p] \cap taken[p] = {}

\* A pending read has begun, has its buffer and has no result yet.
Buffered ==
  \A p \in PE : \A i \in Pending(p) :
    /\ read[p][i] # Nothing
    /\ buf[p][i] \in Buffer(read[p][i].first, read[p][i].last)

\* A read has a result, or is pending, unless its PE has panicked; what has not
\* begun has no buffer.
Remembered ==
  \A p \in PE : \A i \in Id :
    /\ got[p][i] # Nothing => read[p][i] # Nothing /\ i \notin Pending(p)
    /\ buf[p][i] # Nothing => read[p][i] # Nothing
    /\ read[p][i] # Nothing /\ i \notin Pending(p) /\ pc[p] \in {"run", "quiet", "end"}
         => got[p][i] # Nothing

\* Elements are on their way for pending reads only, unless their PE has panicked.
Aimed ==
  \A p \in PE : \A i \in Id : \A c \in Cell :
    <<p, i, c>> \in flight => i \in Pending(p) \/ pc[p] = "panicked"

\* An element of r in d, from the time since the read began.
Since(r, d, c) == \E v \in r.since[c]..mem[r.on][c] : d[c] = <<r.on, c, v>>

\* Nothing has been read before its read began, and what has arrived is in the window.
Windows ==
  \A p \in PE : \A i \in Pending(p) : \A c \in read[p][i].first..read[p][i].last :
    /\ read[p][i].since[c] <= mem[read[p][i].on][c]
    /\ <<p, i, c>> \notin flight => Since(read[p][i], buf[p][i], c)

IInv == Types /\ Handles /\ Buffered /\ Remembered /\ Aimed /\ Windows /\ ReadsInWindow

-----------------------------------------------------------------------------

LEMMA Consts == Len \in Nat \ {0} /\ MaxChanges \in Nat /\ MaxReads \in Nat
BY LenAssumption, BoundsAssumption

\* A read that has begun is a record with cells of the array.
LEMMA ReadShape ==
  ASSUME NEW r \in Reads
  PROVE  /\ r # Nothing
         /\ r.on \in PE /\ r.first \in Cell /\ r.last \in Cell
         /\ r.since \in [r.first..r.last -> 0..MaxChanges]
         /\ r.first..r.last \subseteq Cell
<1>1. PICK a \in Cell, b \in Cell : r \in Began(a, b)
  BY DEF Reads
<1>2. r # Nothing
  BY <1>1, NothingAssumption
<1>3. a..b \subseteq Cell
  BY Consts DEF Cell
<1> QED
  BY <1>1, <1>2, <1>3 DEF Began

LEMMA WindowShape ==
  ASSUME NEW r \in Reads, NEW c \in r.first..r.last
  PROVE  c \in Cell /\ r.on \in PE /\ r.since[c] \in Int
<1>1. r.since[c] \in 0..MaxChanges /\ r.on \in PE /\ c \in Cell
  BY ReadShape
<1> QED
  BY <1>1, Consts

LEMMA BufferShape ==
  ASSUME NEW a \in Cell, NEW b \in Cell, NEW d \in Buffer(a, b)
  PROVE  d \in Buffers /\ d # Nothing
BY NothingAssumption DEF Buffers

LEMMA PendingRead ==
  ASSUME Types, Buffered, NEW p \in PE, NEW i \in Pending(p)
  PROVE  i \in Id /\ read[p][i] \in Reads
BY DEF Types, Buffered, Pending

LEMMA InvInit == Init => IInv
<1> SUFFICES ASSUME Init PROVE IInv
  OBVIOUS
<1>1. Types
  BY ReaderAssumption, Consts DEF Init, Types
<1>2. \A p \in PE : Pending(p) = {}
  BY DEF Init, Pending
<1> QED
  BY <1>1, <1>2 DEF Init, IInv, Handles, Buffered, Remembered, Aimed, Windows, ReadsInWindow

-----------------------------------------------------------------------------

(***************************************************************************)
(* A read begins: it is new, and its buffer has room for its elements.     *)
(***************************************************************************)
LEMMA BeginInv ==
  ASSUME IInv, NEW p \in PE, NEW q \in PE, NEW a \in Cell, NEW b \in Cell, Begin(p, q, a, b)
  PROVE  IInv'
<1> DEFINE r == [on |-> q, first |-> a, last |-> b, since |-> Versions(q, a, b)]
           d == [c \in a..b |-> Nothing]
<1>1. PICK i \in Id :
        /\ pc[p] = "run" /\ read[p][i] = Nothing
        /\ read' = [read EXCEPT ![p][i] = r]
        /\ buf' = [buf EXCEPT ![p][i] = d]
        /\ live' = [live EXCEPT ![p] = @ \cup {i}]
        /\ flight' = flight \cup {<<p, i, c>> : c \in a..b}
        /\ UNCHANGED <<pc, taken, mem, got>>
  BY DEF Begin
<1>2. r \in Began(a, b) /\ r \in Reads
  <2>1. a..b \subseteq Cell
    BY Consts DEF Cell
  <2>2. Versions(q, a, b) \in [a..b -> 0..MaxChanges]
    BY <2>1 DEF Versions, IInv, Types
  <2>3. r \in Began(a, b)
    BY <2>2 DEF Began
  <2> QED
    BY <2>3 DEF Reads
<1>3. r # Nothing /\ a..b \subseteq Cell
  BY <1>2, ReadShape, Consts DEF Cell
<1>4. d \in Buffer(a, b) /\ d \in Buffers /\ d # Nothing
  <2>1. d \in Buffer(a, b)
    BY DEF Buffer, Element
  <2> QED
    BY <2>1, BufferShape
<1>5. /\ i \notin Pending(p) /\ got[p][i] = Nothing
      /\ Pending(p)' = Pending(p) \cup {i}
      /\ \A s \in PE : s # p => Pending(s)' = Pending(s)
  BY <1>1 DEF IInv, Types, Buffered, Remembered, Pending
<1>6. /\ read'[p][i] = r /\ buf'[p][i] = d
      /\ \A s \in PE, j \in Id : s # p \/ j # i =>
           read'[s][j] = read[s][j] /\ buf'[s][j] = buf[s][j]
  BY <1>1 DEF IInv, Types
<1>7. Types'
  <2>1. flight' \subseteq PE \X Id \X Cell
    BY <1>1, <1>3 DEF IInv, Types
  <2>2. read' \in [PE -> [Id -> Reads \cup {Nothing}]]
    BY <1>1, <1>2 DEF IInv, Types
  <2>3. buf' \in [PE -> [Id -> Buffers \cup {Nothing}]]
    BY <1>1, <1>4 DEF IInv, Types
  <2>4. live' \in [PE -> SUBSET Id]
    BY <1>1 DEF IInv, Types
  <2> QED
    BY <1>1, <2>1, <2>2, <2>3, <2>4 DEF IInv, Types
<1>8. Handles'
  BY <1>1, <1>5 DEF IInv, Types, Handles, Pending
<1>9. Buffered'
  <2> SUFFICES ASSUME NEW s \in PE, NEW j \in Pending(s)'
               PROVE  /\ read'[s][j] # Nothing
                      /\ buf'[s][j] \in Buffer(read'[s][j].first, read'[s][j].last)
    BY DEF Buffered, Buffer, Element
  <2>1. CASE s = p /\ j = i
    BY <1>3, <1>4, <1>6, <2>1
  <2>2. CASE s # p \/ j # i
    BY <1>5, <1>6, <2>2, PendingRead DEF IInv, Buffered
  <2> QED
    BY <2>1, <2>2
<1>10. Remembered'
  BY <1>1, <1>3, <1>5, <1>6 DEF IInv, Remembered
<1>11. Aimed'
  BY <1>1, <1>5 DEF IInv, Aimed
<1>12. Windows'
  <2> SUFFICES ASSUME NEW s \in PE, NEW j \in Pending(s)',
                      NEW c \in read'[s][j].first..read'[s][j].last
               PROVE  /\ read'[s][j].since[c] <= mem'[read'[s][j].on][c]
                      /\ <<s, j, c>> \notin flight' => Since(read[s][j], buf[s][j], c)'
    BY DEF Windows
  <2>1. CASE s = p /\ j = i
    <3>1. c \in a..b /\ c \in Cell
      BY <1>3, <1>6, <2>1
    <3>2. <<s, j, c>> \in flight'
      BY <1>1, <2>1, <3>1
    <3>3. r.since[c] = mem[q][c] /\ mem[q][c] \in Int
      BY <3>1, Consts DEF Versions, IInv, Types
    <3> QED
      BY <1>1, <1>6, <2>1, <3>2, <3>3
  <2>2. CASE s # p \/ j # i
    <3>1. j \in Pending(s) /\ j \in Id
      BY <1>5, <2>2, PendingRead DEF IInv
    <3>2. read'[s][j] = read[s][j] /\ buf'[s][j] = buf[s][j] /\ mem' = mem
      BY <1>1, <1>6, <2>2, <3>1
    <3>3. <<s, j, c>> \notin flight' => <<s, j, c>> \notin flight
      BY <1>1
    <3>4. /\ read[s][j].since[c] <= mem[read[s][j].on][c]
          /\ <<s, j, c>> \notin flight => Since(read[s][j], buf[s][j], c)
      BY <3>1, <3>2 DEF IInv, Windows
    <3>5. Since(read[s][j], buf[s][j], c) => Since(read[s][j], buf[s][j], c)'
      BY <3>2 DEF Since
    <3> QED
      BY <3>2, <3>3, <3>4, <3>5
  <2> QED
    BY <2>1, <2>2
<1>13. ReadsInWindow'
  <2> SUFFICES ASSUME NEW s \in PE, NEW j \in Id, got[s][j] # Nothing
               PROVE  read'[s][j] = read[s][j]
    BY <1>1 DEF IInv, ReadsInWindow
  <2> QED
    BY <1>5, <1>6
<1> QED
  BY <1>7, <1>8, <1>9, <1>10, <1>11, <1>12, <1>13 DEF IInv

-----------------------------------------------------------------------------

(***************************************************************************)
(* What is said of the pending reads stays true as long as nothing touches *)
(* them, and no element of theirs leaves the network.                      *)
(***************************************************************************)
LEMMA Untouched ==
  ASSUME IInv, UNCHANGED <<read, mem>>,
         \A p \in PE :
           /\ Pending(p)' \subseteq Pending(p)
           /\ \A i \in Pending(p)' :
                /\ buf'[p][i] = buf[p][i]
                /\ \A c \in Cell : <<p, i, c>> \in flight => <<p, i, c>> \in flight'
  PROVE  Buffered' /\ Windows'
<1>1. Buffered'
  BY DEF IInv, Buffered, Buffer, Element
<1>2. Windows'
  <2> SUFFICES ASSUME NEW s \in PE, NEW j \in Pending(s)',
                      NEW c \in read[s][j].first..read[s][j].last
               PROVE  /\ read[s][j].since[c] <= mem[read[s][j].on][c]
                      /\ <<s, j, c>> \notin flight' => Since(read[s][j], buf[s][j], c)'
    BY DEF Windows
  <2>1. j \in Pending(s) /\ c \in Cell
    BY PendingRead, ReadShape DEF IInv
  <2>2. /\ read[s][j].since[c] <= mem[read[s][j].on][c]
        /\ <<s, j, c>> \notin flight => Since(read[s][j], buf[s][j], c)
    BY <2>1 DEF IInv, Windows
  <2>3. Since(read[s][j], buf[s][j], c) => Since(read[s][j], buf[s][j], c)'
    BY DEF Since
  <2> QED
    BY <2>1, <2>2, <2>3
<1> QED
  BY <1>1, <1>2

(***************************************************************************)
(* A panic leaves its PE no handle, and only one PE is touched.            *)
(***************************************************************************)
LEMMA UnwindInv ==
  ASSUME IInv, NEW p \in PE, pc[p] = "run", NEW rest, Unwind(p, rest),
         UNCHANGED <<read, taken, mem, got>>,
         buf' \in [PE -> [Id -> Buffers \cup {Nothing}]],
         \A s \in PE, i \in Id :
           buf'[s][i] = buf[s][i] \/ (s = p /\ buf'[s][i] = Nothing)
  PROVE  IInv'
<1>1. /\ Pending(p)' = {} /\ pc'[p] \in {"panicked", "aborted"}
      /\ \A s \in PE : s # p =>
           Pending(s)' = Pending(s) /\ pc'[s] = pc[s] /\ live'[s] = live[s]
  BY DEF Unwind, Pending, IInv, Types, Handles
<1>2. /\ flight' \subseteq flight
      /\ pc'[p] = "aborted" => \A m \in flight' : m[1] # p
      /\ \A s \in PE, i \in Id, c \in Cell :
           s # p /\ <<s, i, c>> \in flight => <<s, i, c>> \in flight'
  BY DEF Unwind, IInv, Types
<1>3. Types'
  BY <1>2 DEF Unwind, IInv, Types
<1>4. Handles'
  BY <1>1 DEF Unwind, IInv, Types, Handles
<1>5. Buffered' /\ Windows'
  <2>1. ASSUME NEW s \in PE, NEW i \in Pending(s)'
        PROVE  /\ i \in Pending(s) /\ buf'[s][i] = buf[s][i]
               /\ \A c \in Cell : <<s, i, c>> \in flight => <<s, i, c>> \in flight'
    BY <1>1, <1>2, PendingRead DEF IInv
  <2> QED
    BY <2>1, Untouched
<1>6. Remembered'
  BY <1>1 DEF IInv, Remembered
<1>7. Aimed'
  BY <1>1, <1>2 DEF IInv, Aimed
<1>8. ReadsInWindow'
  BY DEF IInv, ReadsInWindow
<1> QED
  BY <1>3, <1>4, <1>5, <1>6, <1>7, <1>8 DEF IInv

LEMMA ReadPanicsInv ==
  ASSUME IInv, NEW p \in PE, NEW r \in Ranges, NEW c, ReadPanics(p, r, c)
  PROVE  IInv'
<1>1. /\ pc[p] = "run" /\ Unwind(p, live[p])
      /\ UNCHANGED <<read, taken, buf, mem, got>>
  BY DEF ReadPanics
<1> QED
  BY <1>1, UnwindInv DEF IInv, Types

LEMMA DropHandleInv ==
  ASSUME IInv, NEW p \in PE, NEW i \in Id, DropHandle(p, i)
  PROVE  IInv'
<1>1. /\ pc[p] = "run" /\ Unwind(p, live[p] \ {i})
      /\ buf' = [buf EXCEPT ![p][i] = Nothing]
      /\ UNCHANGED <<read, taken, mem, got>>
  BY DEF DropHandle
<1>2. buf' \in [PE -> [Id -> Buffers \cup {Nothing}]]
  BY <1>1 DEF IInv, Types
<1>3. \A s \in PE, j \in Id :
        buf'[s][j] = buf[s][j] \/ (s = p /\ buf'[s][j] = Nothing)
  BY <1>1 DEF IInv, Types
<1> QED
  BY <1>1, <1>2, <1>3, UnwindInv

(***************************************************************************)
(* A change of the source only widens the windows.                         *)
(***************************************************************************)
LEMMA ChangeInv ==
  ASSUME IInv, NEW q \in PE, NEW x \in Cell, Change(q, x)
  PROVE  IInv'
<1>1. /\ mem[q][x] < MaxChanges /\ mem' = [mem EXCEPT ![q][x] = @ + 1]
      /\ UNCHANGED <<pc, read, live, taken, buf, flight, got>>
  BY DEF Change
<1>2. Types'
  BY <1>1, Consts DEF IInv, Types
<1>3. \A s \in PE, c \in Cell :
        mem[s][c] \in Int /\ mem'[s][c] \in Int /\ mem[s][c] <= mem'[s][c]
  BY <1>1, Consts DEF IInv, Types
<1>4. Handles' /\ Buffered' /\ Remembered' /\ Aimed'
  BY <1>1 DEF IInv, Handles, Buffered, Remembered, Aimed, Pending, Buffer, Element
<1>5. Windows'
  <2> SUFFICES ASSUME NEW s \in PE, NEW j \in Pending(s),
                      NEW c \in read[s][j].first..read[s][j].last
               PROVE  /\ read[s][j].since[c] <= mem'[read[s][j].on][c]
                      /\ <<s, j, c>> \notin flight => Since(read[s][j], buf[s][j], c)'
    BY <1>1 DEF Windows, Pending
  <2>1. /\ c \in Cell /\ read[s][j].on \in PE /\ read[s][j].since[c] \in Int
    <3>1. read[s][j] \in Reads
      BY PendingRead DEF IInv
    <3> QED
      BY <3>1, WindowShape
  <2>2. /\ read[s][j].since[c] <= mem[read[s][j].on][c]
        /\ <<s, j, c>> \notin flight => Since(read[s][j], buf[s][j], c)
    BY DEF IInv, Windows
  <2>3. mem[read[s][j].on][c] <= mem'[read[s][j].on][c]
    BY <1>3, <2>1
  <2>4. Since(read[s][j], buf[s][j], c) => Since(read[s][j], buf[s][j], c)'
    BY <1>1, <1>3, <2>1, <2>3 DEF Since
  <2> QED
    BY <1>3, <2>1, <2>2, <2>3, <2>4
<1>6. ReadsInWindow'
  BY <1>1 DEF IInv, ReadsInWindow
<1> QED
  BY <1>2, <1>4, <1>5, <1>6 DEF IInv

(***************************************************************************)
(* An element arrives in the buffer of its read: it is the source's at     *)
(* this time, which is in the window.                                      *)
(***************************************************************************)
LEMMA DeliverInv ==
  ASSUME IInv, NEW p \in PE, NEW i \in Id, NEW x \in Cell, Deliver(p, i, x)
  PROVE  IInv'
<1>1. /\ <<p, i, x>> \in flight
      /\ flight' = flight \ {<<p, i, x>>}
      /\ UNCHANGED <<pc, read, live, taken, mem, got>>
  BY DEF Deliver
<1>2. CASE buf[p][i] = Nothing
  <2>1. UNCHANGED buf
    BY <1>2 DEF Deliver
  <2>2. Types' /\ Handles' /\ Remembered' /\ Aimed' /\ ReadsInWindow'
    <3>1. Types' /\ Handles'
      BY <1>1, <2>1 DEF IInv, Types, Handles
    <3>2. Remembered'
      BY <1>1, <2>1 DEF IInv, Remembered, Pending
    <3>3. Aimed' /\ ReadsInWindow'
      BY <1>1, <2>1 DEF IInv, Aimed, ReadsInWindow, Pending
    <3> QED
      BY <3>1, <3>2, <3>3
  <2>3. i \notin Pending(p)
    <3> SUFFICES ASSUME i \in Pending(p) PROVE FALSE
      OBVIOUS
    <3>1. read[p][i] \in Reads /\ buf[p][i] \in Buffer(read[p][i].first, read[p][i].last)
      BY PendingRead DEF IInv, Buffered
    <3> QED
      BY <1>2, <3>1, ReadShape, BufferShape
  <2>4. Buffered' /\ Windows'
    <3>1. ASSUME NEW s \in PE, NEW j \in Pending(s)', NEW c \in Cell,
                 <<s, j, c>> \in flight
          PROVE  <<s, j, c>> \in flight'
      BY <1>1, <2>3, <3>1 DEF Pending
    <3>2. \A s \in PE : Pending(s)' = Pending(s)
      BY <1>1 DEF Pending
    <3> QED
      BY <1>1, <2>1, <3>1, <3>2, Untouched
  <2> QED
    BY <2>2, <2>4 DEF IInv
<1>3. CASE buf[p][i] # Nothing
  <2> DEFINE r == read[p][i]
             d == [buf[p][i] EXCEPT ![x] = Content(r.on, x)]
  <2>1. /\ buf' = [buf EXCEPT ![p][i] = d]
        /\ buf'[p][i] = d
        /\ \A s \in PE, j \in Id : s # p \/ j # i => buf'[s][j] = buf[s][j]
    BY <1>3 DEF Deliver, IInv, Types
  <2>2. r \in Reads
    BY <1>3 DEF IInv, Types, Remembered
  <2>3. Content(r.on, x) \in Element
    BY <2>2, ReadShape DEF Content, Element, IInv, Types
  <2>4. \A a, b \in Cell : buf[p][i] \in Buffer(a, b) => d \in Buffer(a, b)
    BY <2>3 DEF Buffer
  <2>5. d \in Buffers /\ d # Nothing
    <3>1. PICK a \in Cell, b \in Cell : buf[p][i] \in Buffer(a, b)
      BY <1>3 DEF IInv, Types, Buffers
    <3> QED
      BY <2>4, <3>1, BufferShape
  <2>6. Types'
    <3>1. buf' \in [PE -> [Id -> Buffers \cup {Nothing}]]
      BY <2>1, <2>5 DEF IInv, Types
    <3> QED
      BY <1>1, <3>1 DEF IInv, Types
  <2>7. Handles' /\ Aimed' /\ ReadsInWindow'
    BY <1>1 DEF IInv, Handles, Aimed, ReadsInWindow, Pending
  <2>8. Remembered'
    BY <1>1, <1>3, <2>1 DEF IInv, Remembered, Pending
  <2>9. Buffered'
    <3> SUFFICES ASSUME NEW s \in PE, NEW j \in Pending(s)
                 PROVE  /\ read[s][j] # Nothing
                        /\ buf'[s][j] \in Buffer(read[s][j].first, read[s][j].last)
      BY <1>1 DEF Buffered, Buffer, Element, Pending
    <3>1. /\ read[s][j] # Nothing /\ read[s][j] \in Reads /\ j \in Id
          /\ buf[s][j] \in Buffer(read[s][j].first, read[s][j].last)
      BY PendingRead DEF IInv, Buffered
    <3>2. read[s][j].first \in Cell /\ read[s][j].last \in Cell
      BY <3>1, ReadShape
    <3> QED
      BY <2>1, <2>4, <3>1, <3>2
  <2>10. Windows'
    <3> SUFFICES ASSUME NEW s \in PE, NEW j \in Pending(s),
                        NEW c \in read[s][j].first..read[s][j].last
                 PROVE  /\ read[s][j].since[c] <= mem[read[s][j].on][c]
                        /\ <<s, j, c>> \notin flight' => Since(read[s][j], buf[s][j], c)'
      BY <1>1 DEF Windows, Pending
    <3>1. /\ read[s][j].since[c] <= mem[read[s][j].on][c]
          /\ <<s, j, c>> \notin flight => Since(read[s][j], buf[s][j], c)
      BY DEF IInv, Windows
    <3>2. read[s][j] \in Reads /\ j \in Id
      BY PendingRead DEF IInv
    <3>3. c \in Cell /\ read[s][j].on \in PE /\ read[s][j].since[c] \in Int
      BY <3>2, WindowShape
    <3>4. CASE <<s, j, c>> = <<p, i, x>>
      <4>1. buf[s][j] \in Buffer(read[s][j].first, read[s][j].last)
        BY DEF IInv, Buffered
      <4>2. buf'[s][j][c] = <<read[s][j].on, c, mem[read[s][j].on][c]>>
        BY <2>1, <3>4, <4>1 DEF Buffer, Content
      <4>3. mem[read[s][j].on][c] \in read[s][j].since[c]..mem[read[s][j].on][c]
        BY <3>1, <3>3, Consts DEF IInv, Types
      <4> QED
        BY <1>1, <3>1, <4>2, <4>3 DEF Since
    <3>5. CASE <<s, j, c>> # <<p, i, x>>
      <4>1. <<s, j, c>> \notin flight' => <<s, j, c>> \notin flight
        BY <1>1, <3>5
      <4>2. buf'[s][j][c] = buf[s][j][c]
        <5>1. CASE s = p /\ j = i
          <6>1. buf[s][j] \in Buffer(read[s][j].first, read[s][j].last)
            BY DEF IInv, Buffered
          <6> QED
            BY <2>1, <3>5, <5>1, <6>1 DEF Buffer
        <5> QED
          BY <2>1, <3>2, <5>1
      <4> QED
        BY <1>1, <3>1, <4>1, <4>2 DEF Since
    <3> QED
      BY <3>4, <3>5
  <2> QED
    BY <2>6, <2>7, <2>8, <2>9, <2>10 DEF IInv
<1> QED
  BY <1>2, <1>3

LEMMA EnterQuietInv ==
  ASSUME IInv, NEW p \in PE, NEW S \in SUBSET Id, EnterQuiet(p, S)
  PROVE  IInv'
<1>1. /\ pc[p] = "run" /\ S \subseteq live[p]
      /\ pc' = [pc EXCEPT ![p] = "quiet"]
      /\ taken' = [taken EXCEPT ![p] = S]
      /\ live' = [live EXCEPT ![p] = @ \ S]
      /\ UNCHANGED <<read, buf, flight, mem, got>>
  BY DEF EnterQuiet
<1>2. \A s \in PE : Pending(s)' = Pending(s)
  BY <1>1 DEF Pending, IInv, Types, Handles
<1>3. Types'
  BY <1>1 DEF IInv, Types
<1>4. Handles'
  BY <1>1 DEF IInv, Types, Handles
<1>5. Buffered' /\ Windows'
  BY <1>1, <1>2, Untouched
<1>6. Remembered' /\ Aimed' /\ ReadsInWindow'
  <2>1. Remembered'
    BY <1>1, <1>2 DEF IInv, Types, Remembered
  <2>2. Aimed'
    BY <1>1, <1>2 DEF IInv, Types, Aimed
  <2>3. ReadsInWindow'
    BY <1>1 DEF IInv, ReadsInWindow
  <2> QED
    BY <2>1, <2>2, <2>3
<1> QED
  BY <1>3, <1>4, <1>5, <1>6 DEF IInv

(***************************************************************************)
(* quiet returns: nothing of its PE is on its way, so every element of the *)
(* results has arrived.                                                    *)
(***************************************************************************)
LEMMA ReturnQuietInv ==
  ASSUME IInv, NEW p \in PE, ReturnQuiet(p)
  PROVE  IInv'
<1>1. /\ pc[p] = "quiet" /\ (\A m \in flight : m[1] # p)
      /\ got' = [got EXCEPT ![p] = [i \in Id |->
                   IF i \in taken[p] THEN Result(p, i) ELSE @[i]]]
      /\ buf' = [buf EXCEPT ![p] = [i \in Id |-> IF i \in taken[p] THEN Nothing ELSE @[i]]]
      /\ taken' = [taken EXCEPT ![p] = {}]
      /\ pc' = [pc EXCEPT ![p] = "run"]
      /\ UNCHANGED <<read, live, flight, mem>>
  BY DEF ReturnQuiet, Unwrap
<1>2. /\ taken[p] \subseteq Id
      /\ Pending(p)' = Pending(p) \ taken[p]
      /\ \A s \in PE : s # p => Pending(s)' = Pending(s)
  BY <1>1 DEF Pending, IInv, Types, Handles
<1>3. /\ \A i \in taken[p] : got'[p][i] = Result(p, i) /\ buf'[p][i] = Nothing
      /\ \A s \in PE, i \in Id : s # p \/ i \notin taken[p] =>
           got'[s][i] = got[s][i] /\ buf'[s][i] = buf[s][i]
  BY <1>1, <1>2 DEF IInv, Types
<1>4. ASSUME NEW i \in taken[p]
      PROVE  /\ read[p][i] \in Reads
             /\ Result(p, i) \in Results /\ Result(p, i) # Nothing
             /\ Result(p, i).data = buf[p][i]
             /\ \A c \in read[p][i].first..read[p][i].last :
                  Result(p, i).until[c] = mem[read[p][i].on][c]
  <2> DEFINE r == read[p][i]
  <2>1. i \in Pending(p)
    BY DEF Pending
  <2>2. r \in Reads /\ buf[p][i] \in Buffer(r.first, r.last)
    BY <2>1, PendingRead DEF IInv, Buffered
  <2>3. r.on \in PE /\ r.first \in Cell /\ r.last \in Cell /\ r.first..r.last \subseteq Cell
    BY <2>2, ReadShape
  <2>4. Versions(r.on, r.first, r.last) \in [r.first..r.last -> 0..MaxChanges]
    BY <2>3 DEF Versions, IInv, Types
  <2>5. Result(p, i) \in Returned(r.first, r.last)
    BY <2>2, <2>4 DEF Result, Returned
  <2>6. Result(p, i) \in Results /\ Result(p, i) # Nothing
    BY <2>3, <2>5, NothingAssumption DEF Results
  <2> QED
    BY <2>2, <2>6 DEF Result, Versions
<1>5. Types'
  <2>1. got' \in [PE -> [Id -> Results \cup {Nothing}]]
    BY <1>1, <1>4 DEF IInv, Types
  <2>2. buf' \in [PE -> [Id -> Buffers \cup {Nothing}]]
    BY <1>1 DEF IInv, Types
  <2> QED
    BY <1>1, <2>1, <2>2 DEF IInv, Types
<1>6. Handles'
  BY <1>1 DEF IInv, Types, Handles
<1>7. Buffered' /\ Windows'
  <2>1. ASSUME NEW s \in PE, NEW i \in Pending(s)'
        PROVE  i \in Pending(s) /\ buf'[s][i] = buf[s][i]
    BY <1>2, <1>3, PendingRead DEF IInv
  <2> QED
    BY <1>1, <2>1, Untouched
<1>8. Remembered'
  <2> SUFFICES ASSUME NEW s \in PE, NEW i \in Id
               PROVE  /\ got'[s][i] # Nothing => read[s][i] # Nothing /\ i \notin Pending(s)'
                      /\ buf'[s][i] # Nothing => read[s][i] # Nothing
                      /\ read[s][i] # Nothing /\ i \notin Pending(s)'
                           /\ pc'[s] \in {"run", "quiet", "end"} => got'[s][i] # Nothing
    BY <1>1 DEF Remembered
  <2>1. CASE s = p /\ i \in taken[p]
    BY <1>2, <1>3, <1>4, <2>1, ReadShape
  <2>2. CASE s # p \/ i \notin taken[p]
    BY <1>1, <1>2, <1>3, <2>2 DEF IInv, Types, Remembered
  <2> QED
    BY <2>1, <2>2
<1>9. Aimed'
  BY <1>1, <1>2 DEF IInv, Types, Aimed
<1>10. ReadsInWindow'
  <2> SUFFICES ASSUME NEW s \in PE, NEW i \in Id, got'[s][i] # Nothing,
                      NEW c \in read[s][i].first..read[s][i].last
               PROVE  \E v \in read[s][i].since[c]..got'[s][i].until[c] :
                        got'[s][i].data[c] = <<read[s][i].on, c, v>>
    BY <1>1 DEF ReadsInWindow
  <2>1. CASE s = p /\ i \in taken[p]
    <3>1. i \in Pending(p) /\ c \in Cell
      BY <1>4, <2>1, ReadShape DEF Pending
    <3>2. Since(read[p][i], buf[p][i], c)
      BY <1>1, <2>1, <3>1 DEF IInv, Windows
    <3> QED
      BY <1>3, <1>4, <2>1, <3>2 DEF Since
  <2>2. CASE s # p \/ i \notin taken[p]
    BY <1>3, <2>2 DEF IInv, ReadsInWindow
  <2> QED
    BY <2>1, <2>2
<1> QED
  BY <1>5, <1>6, <1>7, <1>8, <1>9, <1>10 DEF IInv

LEMMA FinalizeInv ==
  ASSUME IInv, NEW p \in PE, Finalize(p)
  PROVE  IInv'
<1>1. /\ pc[p] = "run" /\ live[p] = {} /\ pc' = [pc EXCEPT ![p] = "end"]
      /\ UNCHANGED <<read, live, taken, buf, flight, mem, got>>
  BY DEF Finalize
<1>2. Types' /\ Handles'
  BY <1>1 DEF IInv, Types, Handles
<1>3. Buffered' /\ Windows'
  BY <1>1, Untouched DEF Pending
<1>4. Remembered' /\ Aimed' /\ ReadsInWindow'
  <2>1. Remembered'
    BY <1>1 DEF IInv, Types, Remembered, Pending
  <2>2. Aimed'
    BY <1>1 DEF IInv, Types, Aimed, Pending
  <2>3. ReadsInWindow'
    BY <1>1 DEF IInv, ReadsInWindow
  <2> QED
    BY <2>1, <2>2, <2>3
<1> QED
  BY <1>2, <1>3, <1>4 DEF IInv

-----------------------------------------------------------------------------

LEMMA InvNext == IInv /\ [Next]_vars => IInv'
<1> SUFFICES ASSUME IInv, [Next]_vars PROVE IInv'
  OBVIOUS
<1>1. ASSUME NEW p \in Reader, NEW q \in PE, NEW r \in Ranges, ReadNbi(p, q, r)
      PROVE  IInv'
  <2>1. ~ Panics(r, Len) /\ Begin(p, q, StartOf(r), EndOf(r, Len))
    BY <1>1 DEF ReadNbi
  <2>2. EndOf(r, Len) \in Cell /\ StartOf(r) \in Cell
    BY <2>1, RangesAssumption, Consts DEF Cell, Panics
  <2> QED
    BY <2>1, <2>2, ReaderAssumption, BeginInv
<1>2. ASSUME NEW p \in Reader, NEW q \in PE, NEW c \in Cell, GetSingleNbi(p, q, c)
      PROVE  IInv'
  BY <1>2, ReaderAssumption, BeginInv DEF GetSingleNbi
<1>3. ASSUME NEW p \in Reader, NEW r \in Ranges, NEW c \in 0..Len, ReadPanics(p, r, c)
      PROVE  IInv'
  BY <1>3, ReaderAssumption, ReadPanicsInv
<1>4. ASSUME NEW p \in Reader, NEW i \in Id, DropHandle(p, i) PROVE IInv'
  BY <1>4, ReaderAssumption, DropHandleInv
<1>5. ASSUME NEW q \in PE, NEW c \in Cell, Change(q, c) PROVE IInv'
  BY <1>5, ChangeInv
<1>6. ASSUME NEW m \in flight, Deliver(m[1], m[2], m[3]) PROVE IInv'
  <2>1. m[1] \in PE /\ m[2] \in Id /\ m[3] \in Cell
    BY DEF IInv, Types
  <2> QED
    BY <1>6, <2>1, DeliverInv
<1>7. ASSUME NEW p \in Reader, NEW S \in SUBSET Id, EnterQuiet(p, S) PROVE IInv'
  BY <1>7, ReaderAssumption, EnterQuietInv
<1>8. ASSUME NEW p \in Reader, ReturnQuiet(p) \/ Finalize(p) PROVE IInv'
  BY <1>8, ReaderAssumption, ReturnQuietInv, FinalizeInv
<1>9. CASE Done \/ UNCHANGED vars
  <2>1. UNCHANGED vars
    BY <1>9 DEF Done
  <2>2. Buffered' /\ Windows'
    BY <2>1, Untouched DEF vars, Pending
  <2>3. Types' /\ Handles'
    BY <2>1 DEF vars, IInv, Types, Handles
  <2>4. Remembered'
    BY <2>1 DEF vars, IInv, Remembered, Pending
  <2>5. Aimed' /\ ReadsInWindow'
    BY <2>1 DEF vars, IInv, Aimed, ReadsInWindow, Pending
  <2> QED
    BY <2>2, <2>3, <2>4, <2>5 DEF IInv
<1> QED
  BY <1>1, <1>2, <1>3, <1>4, <1>5, <1>6, <1>7, <1>8, <1>9 DEF Next

THEOREM Invariance == Spec => []IInv
BY InvInit, InvNext, PTL DEF Spec

-----------------------------------------------------------------------------

(***************************************************************************)
(* The types of the reader's state: no PE passes a handle to quiet twice,  *)
(* and the buffer of a pending read has room for what will arrive.         *)
(***************************************************************************)
THEOREM TypeCorrect == Spec => []TypeOK
<1>1. IInv => TypeOK
  BY DEF IInv, Types, Handles, Buffered, Pending, TypeOK
<1> QED
  BY <1>1, Invariance, PTL

(***************************************************************************)
(* Every element that quiet returns is one that its source had between the *)
(* call of the read and the return of quiet.                               *)
(***************************************************************************)
THEOREM ReadsAreCurrent == Spec => []ReadsInWindow
<1>1. IInv => ReadsInWindow
  BY DEF IInv
<1> QED
  BY <1>1, Invariance, PTL

(***************************************************************************)
(* The library writes to a freed buffer only after the panic of a dropped  *)
(* handle.                                                                 *)
(***************************************************************************)
THEOREM NoStrayElements == Spec => []TargetsExist
<1>1. ASSUME IInv, NEW m \in flight, buf[m[1]][m[2]] = Nothing
      PROVE  pc[m[1]] = "panicked"
  <2>1. PICK p \in PE, i \in Id, c \in Cell : m = <<p, i, c>>
    BY <1>1 DEF IInv, Types
  <2>2. i \notin Pending(p)
    <3> SUFFICES ASSUME i \in Pending(p) PROVE FALSE
      OBVIOUS
    <3>1. read[p][i] \in Reads /\ buf[p][i] \in Buffer(read[p][i].first, read[p][i].last)
      BY <1>1, PendingRead DEF IInv, Buffered
    <3> QED
      BY <1>1, <2>1, <3>1, ReadShape, BufferShape
  <2> QED
    BY <1>1, <2>1, <2>2 DEF IInv, Aimed
<1>2. IInv => TargetsExist
  BY <1>1 DEF TargetsExist
<1> QED
  BY <1>2, Invariance, PTL

(***************************************************************************)
(* No program comes to its end without the result of a read it began.      *)
(***************************************************************************)
THEOREM NothingForgotten == Spec => []NoReadForgotten
<1>1. IInv => NoReadForgotten
  BY DEF IInv, Types, Handles, Remembered, Pending, NoReadForgotten
<1> QED
  BY <1>1, Invariance, PTL

=============================================================================
