--------------------------- MODULE LevelLogProofs ---------------------------
(***************************************************************************)
(* log::Reader returns nothing but records that were handed to             *)
(* log::Writer, whole, in order and once, from a file that was cut off     *)
(* anywhere, of which any bytes were damaged, and of which any appends     *)
(* failed: for every block size and every number and size of records.      *)
(*                                                                         *)
(* The reader puts fragments together without looking at what record they  *)
(* belong to.  That is right because of how the headers follow each other  *)
(* in the file as it was written (Layout), and because from the end of one *)
(* physical record the reader cannot come to a header other than the next  *)
(* one: what it skips at the end of a block is shorter than a header.      *)
(*                                                                         *)
(* Where no append failed, it also returns all that is left to return, and *)
(* reports what is lost: the file as it was written has a header at every  *)
(* place where the reader may look for one (Dense), so that the reader is  *)
(* never past a record that it could still return (Delivers).              *)
(***************************************************************************)
EXTENDS LevelLog, SequenceTheorems, NaturalsInduction, WellFoundedInduction,
        TLAPS

-----------------------------------------------------------------------------
(***************************************************************************)
(* Facts about sequences.                                                  *)
(***************************************************************************)

\* A function on 1..n is a sequence.
LEMMA FunctionIsSeq ==
  ASSUME NEW S, NEW n \in Nat, NEW f \in [1..n -> S]
  PROVE  f \in Seq(S) /\ Len(f) = n
  OBVIOUS

USE DEF kHeaderSize, kZeroType, kFullType, kFirstType, kMiddleType, kLastType,
        kEof, kBadRecord

Bytes == {"H", "h", "P", "Z", "X"} \X Nat \X Nat \X Nat \X Nat

\* The places of first bytes of headers
Heads(w) == {p \in 1..Len(w) : w[p][1] = "H"}

\* What a header says agrees with the record it is of: the type tells whether
\* the fragment is the first and whether it is the last one
HeaderSound(b, sizes) ==
  /\ b[2] \in 1..Len(sizes)
  /\ b[3] \in {kFullType, kFirstType, kMiddleType, kLastType}
  /\ b[5] + b[4] <= sizes[b[2]]
  /\ b[3] \in {kFullType, kFirstType} => b[5] = 0
  /\ b[3] \in {kFullType, kLastType} => b[5] + b[4] = sizes[b[2]]

HeadersSound(w, sizes, starts) ==
  \A p \in Heads(w) :
    /\ HeaderSound(w[p], sizes)
    /\ w[p][3] \in {kFullType, kFirstType} => starts[w[p][2]] = p - 1

\* A header is longer than what the reader skips at the end of a block
HeadersLong(w) == \A p \in Heads(w), q \in Heads(w) : p < q => p + kHeaderSize <= q

\* Records follow each other; nothing follows the last fragment of one
InOrder(w) ==
  \A p, q \in Heads(w) : p < q =>
    \/ w[p][2] < w[q][2]
    \/ w[p][2] = w[q][2] /\ w[p][3] \in {kFirstType, kMiddleType}

\* A fragment that continues a record follows the one it continues
Continues(w) ==
  \A p, q \in Heads(w) :
    /\ p < q
    /\ w[q][3] \in {kMiddleType, kLastType}
    /\ \A y \in Heads(w) : ~(p < y /\ y < q)
    => w[q][2] = w[p][2] /\ w[q][5] = w[p][5] + w[p][4]

Layout(w, sizes, starts) ==
  HeadersSound(w, sizes, starts) /\ HeadersLong(w) /\ InOrder(w) /\ Continues(w)

ReaderStates ==
  [lo : Nat, hi : Nat, eof : BOOLEAN, initial : Nat, resyncing : BOOLEAN,
   fragmented : BOOLEAN, scratch : Seq(Bytes), prospective : Nat, last : Nat]

Items == [data : Seq(Bytes), offset : Nat]

TypeOK ==
  /\ file \in Seq(Bytes)
  /\ block_offset \in 0..kBlockSize
  /\ size \in Seq(Nat) /\ start \in Seq(Nat) /\ Len(start) = Len(size)
  /\ left \in Nat /\ begin \in BOOLEAN
  /\ phase \in {"idle", "emit", "read", "eof"}
  /\ rd \in ReaderStates
  /\ returned \in Seq(Items)

\* The record that AddRecord is in: what is left of it, and its last fragment
Emitting ==
  /\ Len(size) >= 1
  /\ left <= size[Len(size)]
  /\ begin => /\ left = size[Len(size)]
              /\ \A p \in Heads(file) : file[p][2] < Len(size)
  /\ ~begin =>
       /\ \A p \in Heads(file) :
            file[p][2] = Len(size) => file[p][3] \in {kFirstType, kMiddleType}
       /\ \E p \in Heads(file) :
            /\ file[p][2] = Len(size)
            /\ file[p][5] + file[p][4] = size[Len(size)] - left
            /\ \A y \in Heads(file) : y <= p

Writing ==
  phase \in {"idle", "emit"} =>
    /\ Layout(file, size, start)
    /\ \A p \in Heads(file) : p + 6 <= Len(file)
    /\ returned = <<>> /\ rd.lo = 0 /\ rd.hi = 0 /\ ~rd.fragmented
    /\ phase = "emit" => Emitting

\* The file, as it would be had nothing been damaged, is w
Written(w) ==
  /\ w \in Seq(Bytes) /\ Len(w) = Len(file)
  /\ \A y \in 1..Len(w) : file[y] \in {w[y], Garbage}

\* buffer_ lies in the file
Buffer ==
  /\ rd.lo <= rd.hi
  /\ rd.lo < rd.hi => rd.hi <= Len(file)
  /\ rd.resyncing => ~rd.fragmented

\* scratch is what the record of the header at p has up to the end of that
\* fragment, and the reader has not passed any header since
Gathers(w, p) ==
  LET id == w[p][2]
      done == w[p][5] + w[p][4]
      end == p + 6 + w[p][4]
  IN /\ rd.scratch = Payload(id, 0, done)
     /\ rd.prospective = start[id] /\ rd.prospective >= rd.initial
     /\ end <= rd.lo /\ rd.lo <= end + 6
     /\ \A y \in Heads(w) : ~(p < y /\ y <= end)
     /\ ~rd.eof /\ Buffered < kHeaderSize => rd.lo = end

Gathering(w) == rd.fragmented => \E p \in Heads(w) : Gathers(w, p)

\* ids are the records returned, whose last fragments lie behind the reader
HandedOut(w, ids) ==
  /\ ids \in [1..Len(returned) -> 1..Len(size)]
  /\ \A i \in 1..Len(returned) :
       /\ returned[i].data = Whole(ids[i])
       /\ returned[i].offset = start[ids[i]]
       /\ returned[i].offset >= rd.initial
       /\ \E p \in Heads(w) :
            /\ p <= rd.lo /\ w[p][2] = ids[i]
            /\ w[p][3] \in {kFullType, kLastType}
  /\ \A i, j \in 1..Len(returned) : i < j => ids[i] < ids[j]

Reading ==
  phase \in {"read", "eof"} =>
    \E w : /\ Written(w)
           /\ Layout(w, size, start)
           /\ phase = "read" => Buffer /\ Gathering(w)
           /\ \E ids : HandedOut(w, ids)

Inv == TypeOK /\ Writing /\ Reading

-----------------------------------------------------------------------------
(* Bytes, headers and payloads.                                            *)

LEMMA ByteFacts ==
  /\ \A b \in Bytes : b[2] \in Nat /\ b[3] \in Nat /\ b[4] \in Nat /\ b[5] \in Nat
  /\ Zero \in Bytes /\ Garbage \in Bytes
  /\ Zero[1] # "H" /\ Garbage[1] # "H"
  BY DEF Bytes, Zero, Garbage

\* No header begins in the bytes of x from the given one on
Plain(x, from) == \A i \in from..Len(x) : x[i][1] # "H"

\* The byte of a payload at a place of its record
PayloadByte(id, at) == <<"P", id, at, 0, 0>>

LEMMA PayloadFacts ==
  ASSUME NEW id \in Nat, NEW base \in Nat, NEW n \in Nat
  PROVE  /\ Payload(id, base, n) \in Seq(Bytes)
         /\ Len(Payload(id, base, n)) = n
         /\ \A i \in 1..n : Payload(id, base, n)[i] = PayloadByte(id, base + i)
         /\ Plain(Payload(id, base, n), 1)
  <1>1. \A i \in 1..n : PayloadByte(id, base + i) \in Bytes
    BY DEF Bytes, PayloadByte
  <1>2. Payload(id, base, n) \in [1..n -> Bytes]
    BY <1>1 DEF Payload, PayloadByte
  <1>3. Payload(id, base, n) \in Seq(Bytes) /\ Len(Payload(id, base, n)) = n
    BY <1>2, FunctionIsSeq
  <1>4. \A i \in 1..n : Payload(id, base, n)[i] = PayloadByte(id, base + i)
    BY DEF Payload, PayloadByte
  <1>5. \A i \in 1..n : Payload(id, base, n)[i][1] # "H"
    BY <1>4 DEF PayloadByte
  <1> QED
    BY <1>3, <1>4, <1>5 DEF Plain

\* The payloads of a fragment and of the one that continues it.
LEMMA PayloadsJoin ==
  ASSUME NEW id \in Nat, NEW b \in Nat, NEW n \in Nat
  PROVE  Payload(id, 0, b) \o Payload(id, b, n) = Payload(id, 0, b + n)
  <1>1. PICK s \in Seq(Bytes) : s = Payload(id, 0, b)
    BY PayloadFacts
  <1>2. PICK t \in Seq(Bytes) : t = Payload(id, b, n)
    BY PayloadFacts
  <1>3. b + n \in Nat /\ 0 \in Nat
    OBVIOUS
  <1>4. PICK u \in Seq(Bytes) : u = Payload(id, 0, b + n)
    BY <1>3, PayloadFacts
  <1>5. /\ Len(s) = b /\ \A i \in 1..b : s[i] = PayloadByte(id, 0 + i)
        /\ Len(t) = n /\ \A i \in 1..n : t[i] = PayloadByte(id, b + i)
    BY <1>1, <1>2, PayloadFacts, ZenonT(60)
  <1>6. Len(u) = b + n /\ \A i \in 1..(b + n) : u[i] = PayloadByte(id, 0 + i)
    BY <1>3, <1>4, PayloadFacts, ZenonT(30)
  <1>7. PICK v \in Seq(Bytes) : v = s \o t
    BY ConcatProperties
  <1>8. /\ Len(v) = b + n
        /\ \A i \in 1..(b + n) : v[i] = IF i <= b THEN s[i] ELSE t[i - b]
    <2>1. /\ Len(s \o t) = Len(s) + Len(t)
          /\ \A i \in 1..(Len(s) + Len(t)) :
               (s \o t)[i] = IF i <= Len(s) THEN s[i] ELSE t[i - Len(s)]
      BY ConcatProperties
    <2> QED
      BY <1>5, <1>7, <2>1, Zenon
  <1>9. ASSUME NEW i \in 1..(b + n) PROVE v[i] = u[i]
    <2>1. CASE i <= b
      <3>1. i \in 1..b
        BY <2>1
      <3>2. v[i] = s[i]
        BY <2>1, <1>8
      <3>3. s[i] = PayloadByte(id, 0 + i)
        BY <3>1, <1>5
      <3> QED
        BY <3>2, <3>3, <1>6
    <2>2. CASE ~(i <= b)
      <3>1. i - b \in 1..n /\ b + (i - b) = 0 + i
        BY <2>2
      <3>2. t[i - b] = PayloadByte(id, 0 + i)
        BY <3>1, <1>5
      <3> QED
        BY <2>2, <3>2, <1>6, <1>8
    <2> QED
      BY <2>1, <2>2
  <1>10. v = u
    BY <1>6, <1>8, <1>9, SeqEqual
  <1> QED
    BY <1>1, <1>2, <1>4, <1>7, <1>10

\* The byte of Header that carries what the header says
HeadByte(id, type, n, base) == <<"H", id, type, n, base>>

LEMMA HeaderFacts ==
  ASSUME NEW id \in Nat, NEW type \in Nat, NEW n \in Nat, NEW base \in Nat
  PROVE  /\ Header(id, type, n, base) \in Seq(Bytes)
         /\ Len(Header(id, type, n, base)) = 7
         /\ Header(id, type, n, base)[1] = HeadByte(id, type, n, base)
         /\ Plain(Header(id, type, n, base), 2)
  <1> DEFINE h == Header(id, type, n, base)
  <1>1. <<"H", id, type, n, base>> \in Bytes /\ \A i \in 1..7 : <<"h", id, base, i, 0>> \in Bytes
    BY DEF Bytes
  <1>2. h \in [1..7 -> Bytes]
    BY <1>1 DEF Header
  <1>3. h \in Seq(Bytes) /\ Len(h) = 7
    BY <1>2, FunctionIsSeq
  <1>4. h[1] = <<"H", id, type, n, base>> /\ \A i \in 2..7 : h[i] = <<"h", id, base, i, 0>>
    BY DEF Header
  <1>5. \A i \in 2..7 : h[i][1] # "H"
    BY <1>4
  <1> QED
    BY <1>3, <1>4, <1>5 DEF HeadByte, Plain

-----------------------------------------------------------------------------
(* The layout of the file as it grows and as it is cut off.                *)

\* Cutting off the end, or adding bytes without a header.
LEMMA LayoutOfPart ==
  ASSUME NEW w, NEW v, NEW sizes, NEW starts, Layout(w, sizes, starts),
         \A p \in Heads(v) : p \in Heads(w) /\ v[p] = w[p],
         \A p \in Heads(w), q \in Heads(v) : p < q => p \in Heads(v)
  PROVE  Layout(v, sizes, starts)
  <1>1. HeadersSound(v, sizes, starts)
    BY DEF Layout, HeadersSound
  <1>2. HeadersLong(v)
    BY DEF Layout, HeadersLong
  <1>3. InOrder(v)
    BY DEF Layout, InOrder
  <1>4. Continues(v)
    <2> SUFFICES ASSUME NEW p \in Heads(v), NEW q \in Heads(v), p < q,
                        v[q][3] \in {kMiddleType, kLastType},
                        \A y \in Heads(v) : ~(p < y /\ y < q)
                 PROVE  v[q][2] = v[p][2] /\ v[q][5] = v[p][5] + v[p][4]
      BY DEF Continues
    <2>1. \A y \in Heads(w) : ~(p < y /\ y < q)
      OBVIOUS
    <2>2. p \in Heads(w) /\ q \in Heads(w) /\ v[p] = w[p] /\ v[q] = w[q]
      OBVIOUS
    <2> QED
      BY <2>1, <2>2 DEF Layout, Continues
  <1> QED
    BY <1>1, <1>2, <1>3, <1>4 DEF Layout

\* What AddRecord and the begin of EmitPhysicalRecord change of size and start
\* is of a record that has no header yet.
LEMMA LayoutOfMore ==
  ASSUME NEW w, NEW sizes, NEW starts, NEW sizes2, NEW starts2,
         Layout(w, sizes, starts),
         \A p \in Heads(w) : /\ w[p][2] \in 1..Len(sizes2)
                             /\ sizes2[w[p][2]] = sizes[w[p][2]]
                             /\ starts2[w[p][2]] = starts[w[p][2]]
  PROVE  Layout(w, sizes2, starts2)
  BY DEF Layout, HeadersSound, HeaderSound

\* A header behind all others.
LEMMA LayoutOfHeader ==
  ASSUME NEW w, NEW v, NEW sizes, NEW starts, Layout(w, sizes, starts),
         NEW k \in Nat, Heads(v) = Heads(w) \cup {k},
         \A p \in Heads(w) : v[p] = w[p] /\ p + 7 <= k,
         HeaderSound(v[k], sizes),
         v[k][3] \in {kFullType, kFirstType} => starts[v[k][2]] = k - 1,
         \A p \in Heads(w) :
           \/ w[p][2] < v[k][2]
           \/ w[p][2] = v[k][2] /\ w[p][3] \in {kFirstType, kMiddleType},
         v[k][3] \in {kMiddleType, kLastType} =>
           \A p \in Heads(w) : (\A y \in Heads(w) : y <= p)
             => v[k][2] = w[p][2] /\ v[k][5] = w[p][5] + w[p][4]
  PROVE  Layout(v, sizes, starts)
  <1>0. /\ Heads(w) \subseteq Nat
        /\ \A p \in Heads(w) : p < k /\ ~(k < p) /\ k # p
    BY DEF Heads
  <1>1. HeadersSound(v, sizes, starts)
    BY DEF Layout, HeadersSound
  <1>2. HeadersLong(v)
    BY <1>0 DEF Layout, HeadersLong
  <1>3. InOrder(v)
    BY <1>0 DEF Layout, InOrder
  <1>4. Continues(v)
    <2> SUFFICES ASSUME NEW p \in Heads(v), NEW q \in Heads(v), p < q,
                        v[q][3] \in {kMiddleType, kLastType},
                        \A y \in Heads(v) : ~(p < y /\ y < q)
                 PROVE  v[q][2] = v[p][2] /\ v[q][5] = v[p][5] + v[p][4]
      BY DEF Continues
    <2>1. p \in Heads(w) /\ v[p] = w[p]
      BY <1>0
    <2>2. CASE q = k
      <3>1. \A y \in Heads(w) : y <= p
        BY <1>0, <2>1, <2>2
      <3> QED
        BY <2>1, <2>2, <3>1
    <2>3. CASE q # k
      BY <2>1, <2>3 DEF Layout, Continues
    <2> QED
      BY <2>2, <2>3
  <1> QED
    BY <1>1, <1>2, <1>3, <1>4 DEF Layout

LEMMA AddPlain ==
  ASSUME NEW w \in Seq(Bytes), NEW x \in Seq(Bytes), Plain(x, 1)
  PROVE  /\ w \o x \in Seq(Bytes)
         /\ Len(w \o x) = Len(w) + Len(x)
         /\ Heads(w \o x) = Heads(w)
         /\ \A p \in Heads(w) : (w \o x)[p] = w[p]
  <1>1. PICK v \in Seq(Bytes) : v = w \o x
    BY ConcatProperties
  <1>2. /\ Len(v) = Len(w) + Len(x)
        /\ \A i \in 1..(Len(w) + Len(x)) : v[i] = IF i <= Len(w) THEN w[i] ELSE x[i - Len(w)]
        /\ Len(w) \in Nat /\ Len(x) \in Nat
    BY <1>1, ConcatProperties
  <1>3. ASSUME NEW p \in 1..Len(w)
        PROVE  p \in 1..Len(v) /\ v[p] = w[p]
    BY <1>2
  <1>4. ASSUME NEW p \in 1..Len(v), p \notin 1..Len(w)
        PROVE  v[p][1] # "H"
    <2>1. p - Len(w) \in 1..Len(x) /\ v[p] = x[p - Len(w)]
      BY <1>2, <1>4
    <2> QED
      BY <2>1 DEF Plain
  <1>5. Heads(v) = Heads(w)
    BY <1>3, <1>4 DEF Heads
  <1> QED
    BY <1>1, <1>2, <1>3, <1>5 DEF Heads

LEMMA AddHeaded ==
  ASSUME NEW w \in Seq(Bytes), NEW x \in Seq(Bytes), Len(x) >= 1,
         x[1][1] = "H", Plain(x, 2)
  PROVE  /\ w \o x \in Seq(Bytes)
         /\ Len(w \o x) = Len(w) + Len(x)
         /\ Heads(w \o x) = Heads(w) \cup {Len(w) + 1}
         /\ (w \o x)[Len(w) + 1] = x[1]
         /\ \A p \in Heads(w) : (w \o x)[p] = w[p]
  <1>1. PICK v \in Seq(Bytes) : v = w \o x
    BY ConcatProperties
  <1>2. /\ Len(v) = Len(w) + Len(x)
        /\ \A i \in 1..(Len(w) + Len(x)) : v[i] = IF i <= Len(w) THEN w[i] ELSE x[i - Len(w)]
        /\ Len(w) \in Nat /\ Len(x) \in Nat
    BY <1>1, ConcatProperties
  <1>3. ASSUME NEW p \in 1..Len(w)
        PROVE  p \in 1..Len(v) /\ v[p] = w[p]
    BY <1>2
  <1>4. ASSUME NEW p \in 1..Len(v), p \notin 1..Len(w), p # Len(w) + 1
        PROVE  v[p][1] # "H"
    <2>1. ~(p <= Len(w)) /\ p \in 1..(Len(w) + Len(x)) /\ p - Len(w) \in 2..Len(x)
      BY <1>2, <1>4
    <2>2. v[p] = x[p - Len(w)]
      BY <1>2, <2>1
    <2> QED
      BY <2>1, <2>2 DEF Plain
  <1>5. Len(w) + 1 \in 1..Len(v) /\ v[Len(w) + 1] = x[1]
    <2>1. Len(w) + 1 \in 1..(Len(w) + Len(x)) /\ ~(Len(w) + 1 <= Len(w)) /\ (Len(w) + 1) - Len(w) = 1
      BY <1>2
    <2> QED
      BY <1>2, <2>1
  <1>6. Heads(v) = Heads(w) \cup {Len(w) + 1}
    BY <1>3, <1>4, <1>5 DEF Heads
  <1> QED
    BY <1>1, <1>2, <1>3, <1>5, <1>6 DEF Heads

-----------------------------------------------------------------------------
(* The writer.                                                             *)

LEMMA Init_ == Init => Inv
  <1> SUFFICES ASSUME Init PROVE Inv
    OBVIOUS
  <1>1. Heads(file) = {}
    BY DEF Init, Heads
  <1>2. TypeOK
    <2>1. file \in Seq(Bytes) /\ size \in Seq(Nat) /\ start \in Seq(Nat) /\ returned \in Seq(Items)
      BY DEF Init
    <2>2. rd.scratch \in Seq(Bytes) /\ rd.scratch = <<>>
      BY DEF Init
    <2>3. rd \in ReaderStates
      BY <2>2 DEF Init, ReaderStates
    <2>4. block_offset \in 0..kBlockSize /\ Len(start) = Len(size) /\ left \in Nat
      BY LogAssumption DEF Init
    <2> QED
      BY <2>1, <2>3, <2>4 DEF Init, TypeOK
  <1>3. Layout(file, size, start)
    BY <1>1 DEF Layout, HeadersSound, HeadersLong, InOrder, Continues
  <1>4. Writing
    BY <1>1, <1>3 DEF Init, Writing
  <1>5. Reading
    BY DEF Init, Reading
  <1> QED
    BY <1>2, <1>4, <1>5 DEF Inv

LEMMA AddRecordKeeps ==
  ASSUME Inv, NEW n \in Sizes, AddRecord(n)
  PROVE  Inv'
  <1>0. n \in Nat
    BY LogAssumption
  <1>1. /\ size \in Seq(Nat) /\ start \in Seq(Nat) /\ Len(start) = Len(size)
        /\ file \in Seq(Bytes)
    BY DEF Inv, TypeOK
  <1>2. PICK z \in Seq(Nat) : z = Append(size, n)
    BY <1>0, <1>1, AppendProperties
  <1>3. Len(file) \in Nat
    BY <1>1
  <1>4. PICK t \in Seq(Nat) : t = Append(start, Len(file))
    BY <1>1, <1>3, AppendProperties
  <1>5. /\ Len(z) = Len(size) + 1 /\ z[Len(z)] = n /\ \A i \in 1..Len(size) : z[i] = size[i]
        /\ Len(t) = Len(size) + 1 /\ \A i \in 1..Len(size) : t[i] = start[i]
        /\ Len(size) \in Nat
    BY <1>0, <1>1, <1>2, <1>3, <1>4, AppendProperties
  <1>6. /\ size' = z /\ start' = t /\ left' = n /\ begin' = TRUE /\ phase' = "emit"
        /\ file' = file /\ block_offset' = block_offset /\ rd' = rd /\ returned' = returned
        /\ phase = "idle"
    BY <1>2, <1>4 DEF AddRecord, readerVars
  <1>7. TypeOK'
    BY <1>0, <1>5, <1>6 DEF Inv, TypeOK
  <1>8. Layout(file, size, start) /\ \A p \in Heads(file) : file[p][2] \in 1..Len(size)
    BY <1>6 DEF Inv, Writing, Layout, HeadersSound, HeaderSound
  <1>9. Layout(file, z, t)
    <2>1. \A p \in Heads(file) : /\ file[p][2] \in 1..Len(z)
                                 /\ z[file[p][2]] = size[file[p][2]]
                                 /\ t[file[p][2]] = start[file[p][2]]
      BY <1>5, <1>8, SMTT(30)
    <2> QED
      BY <1>8, <2>1, LayoutOfMore
  <1>10. Emitting'
    <2>1. Heads(file)' = Heads(file)
      BY <1>6 DEF Heads
    <2>2. \A p \in Heads(file) : file[p][2] < Len(z)
      BY <1>5, <1>8
    <2> QED
      BY <1>0, <1>5, <1>6, <2>1, <2>2 DEF Emitting
  <1>11. Writing'
    <2>1. Heads(file)' = Heads(file)
      BY <1>6 DEF Heads
    <2> QED
      BY <1>6, <1>9, <1>10, <2>1 DEF Inv, Writing
  <1>12. Reading'
    BY <1>6 DEF Reading
  <1> QED
    BY <1>7, <1>11, <1>12 DEF Inv

\* What a fragment's header says of the fragment.
LEMMA FragmentFacts ==
  ASSUME TypeOK, Emitting
  PROVE  /\ FragmentLength \in Nat /\ FragmentLength <= left
         /\ BlockStart + kHeaderSize + FragmentLength \in 0..kBlockSize
         /\ FragmentType \in {kFullType, kFirstType, kMiddleType, kLastType}
         /\ FragmentType \in {kFullType, kFirstType} <=> begin
         /\ FragmentType \in {kFullType, kLastType} <=> left = FragmentLength
         /\ Trailer \in Seq(Bytes)
         /\ Plain(Trailer, 1)
  <1>1. block_offset \in 0..kBlockSize /\ kBlockSize \in Nat /\ kBlockSize > 7 /\ left \in Nat
    BY LogAssumption DEF TypeOK
  <1>2. BlockStart \in 0..kBlockSize /\ kBlockSize - BlockStart >= 7
    BY <1>1 DEF BlockStart
  <1>3. /\ FragmentLength \in Nat /\ FragmentLength <= left
        /\ FragmentLength <= kBlockSize - BlockStart - 7
    BY <1>1, <1>2 DEF FragmentLength
  <1>4. /\ FragmentType \in {kFullType, kFirstType, kMiddleType, kLastType}
        /\ FragmentType \in {kFullType, kFirstType} <=> begin
        /\ FragmentType \in {kFullType, kLastType} <=> left = FragmentLength
    <2> DEFINE n == FragmentLength
    <2>1. FragmentType = CASE begin /\ left = n -> kFullType
                           [] begin /\ ~(left = n) -> kFirstType
                           [] ~begin /\ left = n -> kLastType
                           [] OTHER -> kMiddleType
      BY DEF FragmentType
    <2> HIDE DEF n
    <2>2. CASE begin /\ left = n
      BY <2>1, <2>2 DEF n
    <2>3. CASE begin /\ ~(left = n)
      BY <2>1, <2>3 DEF n
    <2>4. CASE ~begin /\ left = n
      BY <2>1, <2>4 DEF n
    <2>5. CASE ~begin /\ ~(left = n)
      BY <2>1, <2>5 DEF n
    <2> QED
      BY <2>2, <2>3, <2>4, <2>5
  <1>5. Trailer \in Seq(Bytes) /\ Plain(Trailer, 1)
    <2>1. PICK m \in Int : m = kBlockSize - block_offset
      BY <1>1
    <2>2. CASE m < 7
      <3>1. m \in Nat
        BY <1>1, <2>1
      <3>2. Trailer = [i \in 1..m |-> Zero]
        BY <2>1, <2>2 DEF Trailer
      <3>3. [i \in 1..m |-> Zero] \in [1..m -> Bytes]
        BY ByteFacts
      <3>4. PICK f \in [1..m -> Bytes] : f = [i \in 1..m |-> Zero]
        BY <3>3
      <3>5. f \in Seq(Bytes) /\ Len(f) = m
        BY <3>1, FunctionIsSeq
      <3>6. \A i \in 1..m : f[i] = Zero
        BY <3>4
      <3> QED
        BY <3>2, <3>4, <3>5, <3>6, ByteFacts DEF Plain
    <2>3. CASE ~(m < 7)
      <3>1. Trailer = <<>>
        BY <2>1, <2>3 DEF Trailer
      <3> QED
        BY <3>1 DEF Plain
    <2> QED
      BY <2>2, <2>3
  <1> QED
    BY <1>1, <1>2, <1>3, <1>4, <1>5

\* A header and as much of its payload as was appended.
Fragment(id, type, n, base, m) == Header(id, type, n, base) \o Payload(id, base, m)

LEMMA FragmentBytes ==
  ASSUME NEW id \in Nat, NEW type \in Nat, NEW n \in Nat, NEW base \in Nat,
         NEW m \in Nat
  PROVE  /\ Fragment(id, type, n, base, m) \in Seq(Bytes)
         /\ Len(Fragment(id, type, n, base, m)) >= 7
         /\ Fragment(id, type, n, base, m)[1] = HeadByte(id, type, n, base)
         /\ Plain(Fragment(id, type, n, base, m), 2)
  <1>h. /\ Header(id, type, n, base) \in Seq(Bytes)
        /\ Len(Header(id, type, n, base)) = 7
        /\ Header(id, type, n, base)[1] = HeadByte(id, type, n, base)
        /\ Plain(Header(id, type, n, base), 2)
    BY HeaderFacts
  <1>1. PICK h \in Seq(Bytes) : h = Header(id, type, n, base)
    BY <1>h
  <1>2. /\ Len(h) = 7 /\ h[1] = HeadByte(id, type, n, base)
        /\ Plain(h, 2)
    BY <1>h, <1>1, Zenon
  <1>3. PICK b \in Seq(Bytes) : b = Payload(id, base, m)
    BY PayloadFacts
  <1>4. Len(b) = m /\ Plain(b, 1)
    BY <1>3, PayloadFacts
  <1>5. PICK f \in Seq(Bytes) : f = h \o b
    BY ConcatProperties
  <1>6. Len(f) = 7 + m /\ \A i \in 1..(7 + m) : f[i] = IF i <= 7 THEN h[i] ELSE b[i - 7]
    <2>1. /\ Len(f) = Len(h) + Len(b)
          /\ \A i \in 1..(Len(h) + Len(b)) : f[i] = IF i <= Len(h) THEN h[i] ELSE b[i - Len(h)]
      BY <1>5, ConcatProperties
    <2>2. Len(h) = 7 /\ Len(b) = m
      BY <1>2, <1>4
    <2> QED
      BY <2>1, <2>2
  <1>7. f[1] = h[1]
    BY <1>6
  <1>8. ASSUME NEW i \in 2..Len(f) PROVE f[i][1] # "H"
    <2>1. CASE i <= 7
      <3>1. i \in 2..7 /\ f[i] = h[i]
        BY <1>6, <2>1
      <3> QED
        BY <3>1, <1>2 DEF Plain
    <2>2. CASE ~(i <= 7)
      <3>1. i - 7 \in 1..m /\ f[i] = b[i - 7]
        BY <1>6, <2>2
      <3> QED
        BY <3>1, <1>4 DEF Plain
    <2> QED
      BY <2>1, <2>2
  <1>9. Len(f) >= 7
    BY <1>6
  <1>11. /\ f \in Seq(Bytes) /\ Len(f) >= 7
         /\ f[1] = HeadByte(id, type, n, base)
         /\ Plain(f, 2)
    BY <1>2, <1>7, <1>8, <1>9, Zenon DEF Plain
  <1>12. f = Fragment(id, type, n, base, m)
    BY <1>1, <1>3, <1>5 DEF Fragment
  <1> QED
    BY <1>11, <1>12, Zenon

\* A part of a trailer, and a header that was not written to its end, have no
\* header in them.
LEMMA TornBytes ==
  /\ \A t \in Seq(Bytes) : \A m \in 0..Len(t) :
        Plain(t, 1) => /\ SubSeq(t, 1, m) \in Seq(Bytes) /\ Len(SubSeq(t, 1, m)) = m
                       /\ Plain(SubSeq(t, 1, m), 1)
  /\ \A id, base, m \in Nat :
        TornHeader(id, base, m) \in Seq(Bytes) /\ Plain(TornHeader(id, base, m), 1)
  <1>1. ASSUME NEW t \in Seq(Bytes), NEW m \in 0..Len(t), Plain(t, 1)
        PROVE  /\ SubSeq(t, 1, m) \in Seq(Bytes) /\ Len(SubSeq(t, 1, m)) = m
               /\ Plain(SubSeq(t, 1, m), 1)
    <2>1. m \in Nat /\ m <= Len(t) /\ Len(t) \in Nat
      OBVIOUS
    <2>2. PICK v : v = SubSeq(t, 1, m)
      OBVIOUS
    <2>3. v = [i \in 1..m |-> t[i]]
      BY <2>1, <2>2
    <2>4. v \in [1..m -> Bytes]
      <3>1. \A i \in 1..m : i \in 1..Len(t)
        BY <2>1
      <3>2. \A i \in 1..m : t[i] \in Bytes
        BY <3>1, ElementOfSeq
      <3> QED
        BY <2>3, <3>2
    <2>5. v \in Seq(Bytes) /\ Len(v) = m
      BY <2>1, <2>4, FunctionIsSeq
    <2>6. \A i \in 1..m : v[i] = t[i] /\ i \in 1..Len(t)
      BY <2>1, <2>3
    <2> QED
      BY <2>2, <2>5, <2>6, <1>1 DEF Plain
  <1>2. ASSUME NEW id \in Nat, NEW base \in Nat, NEW m \in Nat
        PROVE  TornHeader(id, base, m) \in Seq(Bytes) /\ Plain(TornHeader(id, base, m), 1)
    <2>1. \A i \in 1..m : <<"h", id, base, i, 0>> \in Bytes
      BY DEF Bytes
    <2>2. TornHeader(id, base, m) \in [1..m -> Bytes]
      BY <2>1 DEF TornHeader
    <2>3. TornHeader(id, base, m) \in Seq(Bytes) /\ Len(TornHeader(id, base, m)) = m
      BY <2>2, FunctionIsSeq
    <2>4. \A i \in 1..m : TornHeader(id, base, m)[i][1] # "H"
      BY DEF TornHeader
    <2> QED
      BY <2>3, <2>4 DEF Plain
  <1> QED
    BY <1>1, <1>2

LEMMA EmitKeeps ==
  ASSUME Inv, NEW trailer, NEW bytes, NEW ok, EmitPhysicalRecord(trailer, bytes, ok)
  PROVE  Inv'
  <1>1. /\ TypeOK /\ Emitting /\ Layout(file, size, start)
        /\ \A p \in Heads(file) : p + 6 <= Len(file)
        /\ returned = <<>> /\ rd.lo = 0 /\ rd.hi = 0 /\ ~rd.fragmented /\ phase = "emit"
    BY DEF Inv, Writing, EmitPhysicalRecord
  <1>2. PICK id \in Nat : id = Len(size) /\ id >= 1 /\ left <= size[id]
    BY <1>1 DEF TypeOK, Emitting
  <1>3. PICK base \in Nat : base = size[id] - left
    BY <1>1, <1>2 DEF TypeOK
  <1>4. PICK n \in Nat : n = FragmentLength /\ n <= left
    BY <1>1, FragmentFacts
  <1>5. PICK type \in {kFullType, kFirstType, kMiddleType, kLastType} : type = FragmentType
    BY <1>1, FragmentFacts
  <1>6. /\ type \in {kFullType, kFirstType} <=> begin
        /\ type \in {kFullType, kLastType} <=> left = n
        /\ BlockStart + 7 + n \in 0..kBlockSize
    BY <1>1, <1>4, <1>5, FragmentFacts
  <1>t. PICK t \in Seq(Bytes) : t = SubSeq(Trailer, 1, trailer) /\ Len(t) = trailer /\ Plain(t, 1)
    <2>1. trailer \in 0..Len(Trailer)
      BY DEF EmitPhysicalRecord
    <2> QED
      BY <1>1, <2>1, FragmentFacts, TornBytes
  <1>7. PICK w \in Seq(Bytes) : w = file \o t
    BY <1>1, ConcatProperties DEF TypeOK
  <1>8. /\ Len(w) = Len(file) + trailer
        /\ Heads(w) = Heads(file)
        /\ \A p \in Heads(file) : w[p] = file[p]
        /\ Len(w) \in Nat /\ Len(file) <= Len(w)
    <2>1. file \in Seq(Bytes)
      BY <1>1 DEF TypeOK
    <2>2. Len(t) = trailer /\ Plain(t, 1)
      BY <1>t
    <2>3. /\ Len(file \o t) = Len(file) + Len(t)
          /\ Heads(file \o t) = Heads(file)
          /\ \A p \in Heads(file) : (file \o t)[p] = file[p]
      BY <2>1, <2>2, AddPlain
    <2>4. w = file \o t /\ Len(file) \in Nat /\ Len(t) \in Nat /\ Len(w) \in Nat
      BY <1>7, <2>1, <2>2
    <2>5. Len(w) = Len(file) + Len(t) /\ Len(file) <= Len(w)
      BY <2>3, <2>4
    <2> QED
      BY <2>2, <2>3, <2>4, <2>5, Zenon
  <1>9. PICK s \in Seq(Nat) : /\ s = start' /\ Len(s) = Len(size)
                              /\ begin => s[id] = Len(w)
                              /\ \A i \in 1..Len(size) : ~begin \/ i # id => s[i] = start[i]
    <2>1. start' = IF begin THEN [start EXCEPT ![id] = Len(w)] ELSE start
      BY <1>2, <1>8 DEF EmitPhysicalRecord
    <2>2. start \in Seq(Nat) /\ Len(start) = Len(size) /\ id \in 1..Len(start) /\ Len(w) \in Nat
      BY <1>1, <1>2, <1>8 DEF TypeOK
    <2>3. CASE begin
      <3>1. PICK s \in Seq(Nat) : s = [start EXCEPT ![id] = Len(w)]
        BY <2>2, ExceptSeq
      <3>2. Len(s) = Len(start) /\ \A j \in 1..Len(start) : s[j] = IF j = id THEN Len(w) ELSE start[j]
        BY <2>2, <3>1, ExceptSeq
      <3> QED
        BY <2>1, <2>2, <2>3, <3>1, <3>2
    <2>4. CASE ~begin
      BY <2>1, <2>2, <2>4
    <2> QED
      BY <2>3, <2>4
  <1>10. \A p \in Heads(file) : /\ p \in Nat /\ w[p][2] \in 1..id
                                /\ begin => w[p][2] < id
                                /\ ~begin /\ w[p][2] = id => w[p][3] \in {kFirstType, kMiddleType}
                                /\ p + 7 <= Len(w) + 1
    <2>1. \A p \in Heads(file) : p \in Nat /\ file[p][2] \in 1..id
      BY <1>1, <1>2 DEF Layout, HeadersSound, HeaderSound, Heads
    <2>2. Len(file) \in Nat
      BY <1>1 DEF TypeOK
    <2>3. ASSUME NEW p \in Heads(file)
          PROVE  /\ begin => file[p][2] < id
                 /\ ~begin /\ file[p][2] = id => file[p][3] \in {kFirstType, kMiddleType}
      BY <1>1, <1>2, Zenon DEF Emitting
    <2>4. ASSUME NEW p \in Heads(file)
          PROVE  p + 7 <= Len(w) + 1
      BY <1>1, <1>8, <2>1, <2>2
    <2> QED
      BY <1>8, <2>1, <2>3, <2>4
  <1>11. Layout(w, size, s)
    <2>1. Layout(w, size, start)
      BY <1>1, <1>8, LayoutOfPart
    <2>2. \A p \in Heads(w) : /\ w[p][2] \in 1..Len(size)
                              /\ s[w[p][2]] = start[w[p][2]]
      BY <1>2, <1>8, <1>9, <1>10, SMTT(30)
    <2> QED
      BY <2>1, <2>2, LayoutOfMore
  <1>12. /\ size' = size /\ rd' = rd /\ returned' = returned
         /\ left' = left - n /\ begin' = FALSE
         /\ block_offset' = BlockStart + 7 + n
         /\ phase' \in {"emit", "idle"}
         /\ phase' = "emit" => bytes = 7 + n /\ left' > 0
    BY <1>4 DEF EmitPhysicalRecord, readerVars
  <1>13. left' \in Nat /\ left \in Nat /\ size \in Seq(Nat) /\ size[id] \in Nat
    BY <1>1, <1>2, <1>4, <1>12 DEF TypeOK
  <1>14. /\ file' \in Seq(Bytes)
         /\ Layout(file', size, s)
         /\ \A p \in Heads(file') : p + 6 <= Len(file')
         /\ phase' = "emit" => Emitting'
    <2>0. /\ bytes \in 0..(7 + n)
          /\ file' = w \o Stored(id, type, n, base, bytes)
      <3>1. /\ bytes \in 0..(7 + FragmentLength)
            /\ file' = file \o SubSeq(Trailer, 1, trailer)
                            \o Stored(Len(size), FragmentType, FragmentLength,
                                      size[Len(size)] - left, bytes)
        BY DEF EmitPhysicalRecord
      <3>2. PICK y : y = Stored(Len(size), FragmentType, FragmentLength,
                                size[Len(size)] - left, bytes)
        OBVIOUS
      <3>3. y = Stored(id, type, n, base, bytes)
        BY <1>2, <1>3, <1>4, <1>5, <3>2
      <3> QED
        BY <1>4, <1>7, <1>t, <3>1, <3>2, <3>3
    <2>1. CASE bytes < 7
      <3>1. PICK x \in Seq(Bytes) : x = TornHeader(id, base, bytes) /\ Plain(x, 1)
        BY <2>0, TornBytes
      <3>2. file' = w \o x
        BY <2>0, <2>1, <3>1 DEF Stored
      <3>3. /\ Len(w \o x) = Len(w) + Len(x)
            /\ Heads(w \o x) = Heads(w)
            /\ \A p \in Heads(w) : (w \o x)[p] = w[p]
        BY <3>1, AddPlain
      <3>4. PICK v \in Seq(Bytes) : v = w \o x
        BY ConcatProperties
      <3>5. Layout(v, size, s)
        BY <1>11, <3>3, <3>4, LayoutOfPart
      <3>6. Len(w) <= Len(v)
        <4>1. Len(x) \in Nat
          OBVIOUS
        <4> QED
          BY <1>8, <3>3, <3>4, <4>1
      <3>7. \A p \in Heads(v) : p + 6 <= Len(v)
        <4>1. Len(v) \in Nat
          OBVIOUS
        <4> QED
          BY <1>8, <1>10, <3>3, <3>4, <3>6, <4>1
      <3>8. ~(phase' = "emit")
        BY <1>12, <2>1
      <3> QED
        BY <3>2, <3>4, <3>5, <3>7, <3>8
    <2>2. CASE ~(bytes < 7)
      <3>1. PICK x \in Seq(Bytes) : /\ file' = w \o x /\ Len(x) >= 7
                                    /\ x[1] = HeadByte(id, type, n, base)
                                    /\ Plain(x, 2)
        <4>1. type \in Nat /\ bytes - 7 \in Nat
          BY <2>0, <2>2
        <4>2. PICK m \in Nat : m = bytes - 7
          BY <4>1
        <4>3. /\ Fragment(id, type, n, base, m) \in Seq(Bytes)
              /\ Len(Fragment(id, type, n, base, m)) >= 7
              /\ Fragment(id, type, n, base, m)[1] = HeadByte(id, type, n, base)
              /\ Plain(Fragment(id, type, n, base, m), 2)
          BY <4>1, FragmentBytes, Zenon
        <4>4. file' = w \o Fragment(id, type, n, base, m)
          BY <2>0, <2>2, <4>2 DEF Stored, Fragment
        <4> QED
          BY <4>3, <4>4
      <3>2. PICK k \in Nat : k = Len(w) + 1
        BY <1>8
      <3>3. PICK v \in Seq(Bytes) : v = w \o x
        BY ConcatProperties
      <3>4. /\ Len(v) = Len(w) + Len(x)
            /\ Heads(v) = Heads(w) \cup {k}
            /\ v[k] = x[1]
            /\ \A p \in Heads(w) : v[p] = w[p]
        <4>1. x[1][1] = "H" /\ Len(x) >= 1
          BY <3>1 DEF HeadByte
        <4> QED
          BY <3>1, <3>2, <3>3, <4>1, AddHeaded, ZenonT(60)
      <3>5. v[k][2] = id /\ v[k][3] = type /\ v[k][4] = n /\ v[k][5] = base
        BY <3>1, <3>4 DEF HeadByte
      <3>6. HeaderSound(v[k], size)
        <4>1. type \in {kFullType, kFirstType} => base = 0
          BY <1>1, <1>2, <1>3, <1>6, <1>13 DEF Emitting
        <4>2. base + n <= size[id] /\ (left = n => base + n = size[id])
          BY <1>3, <1>4, <1>13, SMTT(30)
        <4> QED
          BY <1>2, <1>5, <1>6, <3>5, <4>1, <4>2 DEF HeaderSound
      <3>7. v[k][3] \in {kFullType, kFirstType} => s[v[k][2]] = k - 1
        BY <1>6, <1>8, <1>9, <3>2, <3>5
      <3>8. \A p \in Heads(w) :
              \/ w[p][2] < v[k][2]
              \/ w[p][2] = v[k][2] /\ w[p][3] \in {kFirstType, kMiddleType}
        <4> SUFFICES ASSUME NEW p \in Heads(w), ~(w[p][2] < v[k][2])
                     PROVE  w[p][2] = v[k][2] /\ w[p][3] \in {kFirstType, kMiddleType}
          OBVIOUS
        <4>1. w[p][2] \in 1..id /\ (begin => w[p][2] < id)
          BY <1>8, <1>10
        <4>2. w[p][2] = id /\ ~begin
          BY <3>5, <4>1, SMTT(30)
        <4> QED
          BY <1>8, <1>10, <3>5, <4>2
      <3>9. v[k][3] \in {kMiddleType, kLastType} =>
              \A p \in Heads(w) : (\A y \in Heads(w) : y <= p)
                => v[k][2] = w[p][2] /\ v[k][5] = w[p][5] + w[p][4]
        <4> SUFFICES ASSUME v[k][3] \in {kMiddleType, kLastType}, NEW p \in Heads(w),
                            \A y \in Heads(w) : y <= p
                     PROVE  v[k][2] = w[p][2] /\ v[k][5] = w[p][5] + w[p][4]
          OBVIOUS
        <4>1. ~begin
          BY <1>6, <3>5
        <4>2. PICK q \in Heads(file) :
                /\ file[q][2] = Len(size)
                /\ file[q][5] + file[q][4] = size[Len(size)] - left
                /\ \A y \in Heads(file) : y <= q
          BY <4>1, <1>1 DEF Emitting
        <4>3. p = q
          <5>1. p \in Nat /\ q \in Nat /\ p <= q /\ q <= p
            BY <1>8, <1>10, <4>2
          <5> QED
            BY <5>1
        <4> QED
          BY <1>2, <1>3, <1>8, <3>5, <4>2, <4>3
      <3>10. Layout(v, size, s)
        <4>1. \A p \in Heads(w) : v[p] = w[p] /\ p + 7 <= k
          BY <1>8, <1>10, <3>2, <3>4
        <4> QED
          BY <1>11, <3>4, <3>6, <3>7, <3>8, <3>9, <4>1, LayoutOfHeader
      <3>11. \A p \in Heads(v) : p + 6 <= Len(v)
        <4>1. Len(x) \in Nat
          OBVIOUS
        <4>2. Len(v) >= Len(w) + 7
          BY <1>8, <3>1, <3>4, <4>1
        <4>3. ASSUME NEW p \in Heads(w) PROVE p + 6 <= Len(v)
          BY <1>8, <1>10, <4>2
        <4>4. k + 6 <= Len(v)
          BY <1>8, <3>2, <4>2
        <4> QED
          BY <3>4, <4>3, <4>4
      <3>12. ASSUME phase' = "emit" PROVE Emitting'
        <4>1. file' = v /\ Heads(file)' = Heads(v)
          BY <3>1, <3>3 DEF Heads
        <4>2. left' <= size'[Len(size')] /\ Len(size') >= 1
          BY <1>2, <1>4, <1>12, <1>13
        <4>3. left # n
          BY <3>12, <1>12, <1>13
        <4>4. \A p \in Heads(v) : v[p][2] = id => v[p][3] \in {kFirstType, kMiddleType}
          <5>1. v[k][3] \in {kFirstType, kMiddleType}
            BY <1>5, <1>6, <3>5, <4>3
          <5>2. ASSUME NEW p \in Heads(w), v[p][2] = id
                PROVE  v[p][3] \in {kFirstType, kMiddleType}
            <6>1. v[p] = w[p]
              BY <5>2, <3>4
            <6>2. PICK i \in Nat : i = id
              BY <1>2
            <6>3. w[p][2] = i
              BY <5>2, <6>1, <6>2
            <6>4. /\ begin => w[p][2] < i
                  /\ ~begin /\ w[p][2] = i => w[p][3] \in {kFirstType, kMiddleType}
              BY <5>2, <6>2, <1>8, <1>10
            <6>5. ~begin
              BY <6>3, <6>4
            <6> QED
              BY <6>1, <6>3, <6>4, <6>5
          <5> QED
            BY <5>1, <5>2, <3>4
        <4>5. v[k][5] + v[k][4] = size[id] - left'
          <5>1. PICK l \in Nat, total \in Nat : l = left /\ total = size[id]
            BY <1>13
          <5>2. base = total - l /\ left' = l - n
            BY <1>3, <1>12, <5>1
          <5>3. base + n = total - (l - n)
            BY <5>2
          <5> QED
            BY <3>5, <5>1, <5>2, <5>3
        <4>6. \A y \in Heads(v) : y <= k
          BY <1>8, <1>10, <3>2, <3>4
        <4> QED
          BY <1>2, <1>12, <3>4, <3>5, <4>1, <4>2, <4>4, <4>5, <4>6 DEF Emitting
      <3> QED
        BY <3>1, <3>3, <3>10, <3>11, <3>12
    <2> QED
      BY <2>1, <2>2
  <1>15. TypeOK'
    BY <1>1, <1>6, <1>9, <1>12, <1>13, <1>14 DEF TypeOK
  <1>16. Writing'
    <2>1. Heads(file)' = Heads(file')
      OBVIOUS
    <2> QED
      BY <1>1, <1>9, <1>12, <1>14, <2>1 DEF Writing
  <1>17. Reading'
    BY <1>12 DEF Reading
  <1> QED
    BY <1>15, <1>16, <1>17 DEF Inv

-----------------------------------------------------------------------------
(* The file as the reader finds it.                                        *)

\* A crash cuts off the end of the file and begins a reader.
LEMMA CrashKeeps ==
  ASSUME Inv, NEW n \in 0..Len(file), NEW initial \in InitialOffsets, Crash(n, initial)
  PROVE  Inv'
  <1>1. /\ TypeOK /\ Layout(file, size, start) /\ file \in Seq(Bytes)
        /\ returned = <<>> /\ rd.lo = 0 /\ rd.hi = 0 /\ ~rd.fragmented
        /\ rd \in ReaderStates /\ initial \in Nat
    BY LogAssumption DEF Inv, Writing, TypeOK, Crash
  <1>2. PICK v \in Seq(Bytes) : /\ v = SubSeq(file, 1, n) /\ Len(v) = n
                                /\ \A i \in 1..n : v[i] = file[i]
    <2>1. n \in Int /\ 1 \in Int /\ \A i \in 1..n : file[i] \in Bytes
      BY <1>1
    <2>2. /\ SubSeq(file, 1, n) \in Seq(Bytes)
          /\ Len(SubSeq(file, 1, n)) = IF 1 <= n THEN n - 1 + 1 ELSE 0
          /\ \A i \in 1..(n - 1 + 1) : SubSeq(file, 1, n)[i] = file[1 + i - 1]
      BY <2>1, SubSeqProperties
    <2>3. PICK v \in Seq(Bytes) : v = SubSeq(file, 1, n)
      BY <2>2
    <2>4. Len(v) = n
      BY <2>2, <2>3
    <2>5. \A i \in 1..n : v[i] = file[1 + i - 1] /\ 1 + i - 1 = i
      BY <2>2, <2>3
    <2>6. \A i \in 1..n : v[i] = file[i]
      BY <2>5
    <2> QED
      BY <2>3, <2>4, <2>6
  <1>3. \A p \in 1..n : p \in 1..Len(file)
    BY <1>1
  <1>4. Layout(v, size, start)
    <2>1. \A p \in Heads(v) : p \in Heads(file) /\ v[p] = file[p]
      BY <1>2, <1>3 DEF Heads
    <2>2. \A p \in Heads(file), q \in Heads(v) : p < q => p \in Heads(v)
      <3> SUFFICES ASSUME NEW p \in Heads(file), NEW q \in Heads(v), p < q
                   PROVE  p \in Heads(v)
        OBVIOUS
      <3>1. p \in 1..Len(file) /\ q \in 1..n /\ file[p][1] = "H"
        BY <1>2 DEF Heads
      <3>2. p \in 1..n
        BY <3>1
      <3> QED
        BY <1>2, <3>1, <3>2 DEF Heads
    <2> QED
      BY <1>1, <2>1, <2>2, LayoutOfPart
  <1>5. /\ file' = v /\ size' = size /\ start' = start /\ returned' = <<>>
        /\ phase' = "read" /\ block_offset' = block_offset /\ left' = left /\ begin' = begin
        /\ rd' = [rd EXCEPT !.initial = initial, !.resyncing = initial > 0]
    BY <1>1, <1>2 DEF Crash, writerVars
  <1>6. rd' \in ReaderStates /\ rd'.lo = 0 /\ rd'.hi = 0 /\ ~rd'.fragmented
    <2>0. (initial > 0) = TRUE \/ (initial > 0) = FALSE
      OBVIOUS
    <2>1. PICK b \in BOOLEAN : b = (initial > 0)
      BY <2>0, Zenon
    <2>2. rd' = [rd EXCEPT !.initial = initial, !.resyncing = b]
      BY <1>5, <2>1
    <2> QED
      BY <1>1, <2>2 DEF ReaderStates
  <1>7. TypeOK'
    BY <1>1, <1>5, <1>6 DEF TypeOK
  <1>8. Writing'
    BY <1>5 DEF Writing
  <1>9. Written(v)'
    BY <1>5 DEF Written
  <1>10. Buffer' /\ Gathering(v)'
    BY <1>6 DEF Buffer, Gathering
  <1>11. HandedOut(v, <<>>)'
    <2>1. Len(returned') = 0 /\ <<>> \in [1..0 -> 1..Len(size')]
      BY <1>5
    <2>2. 1..0 = {}
      OBVIOUS
    <2> QED
      BY <2>1, <2>2 DEF HandedOut
  <1>12. Reading'
    BY <1>4, <1>5, <1>9, <1>10, <1>11 DEF Reading
  <1> QED
    BY <1>7, <1>8, <1>12 DEF Inv

\* Damage changes nothing of the file as it was written.
LEMMA DamageKeeps ==
  ASSUME Inv, NEW p \in 1..Len(file), Damage(p)
  PROVE  Inv'
  <1>1. /\ TypeOK /\ file \in Seq(Bytes) /\ phase = "read"
        /\ file' = [file EXCEPT ![p] = Garbage]
        /\ size' = size /\ start' = start /\ returned' = returned /\ rd' = rd
        /\ phase' = phase /\ block_offset' = block_offset /\ left' = left /\ begin' = begin
    BY DEF Inv, TypeOK, Damage, writerVars, readerVars
  <1>2. /\ file' \in Seq(Bytes) /\ Len(file') = Len(file)
        /\ \A y \in 1..Len(file) : file'[y] = IF y = p THEN Garbage ELSE file[y]
    BY <1>1, ByteFacts, ExceptSeq
  <1>3. PICK w : /\ Written(w) /\ Layout(w, size, start)
                 /\ Buffer /\ Gathering(w) /\ \E ids : HandedOut(w, ids)
    BY <1>1 DEF Inv, Reading
  <1>4. Written(w)'
    BY <1>2, <1>3 DEF Written
  <1>5. Buffer' /\ Gathering(w)' /\ \E ids : HandedOut(w, ids)'
    <2>1. Buffer'
      BY <1>1, <1>2, <1>3 DEF Buffer
    <2>2. Gathering(w)'
      BY <1>1, <1>3 DEF Gathering, Gathers, Buffered
    <2>3. PICK ids : HandedOut(w, ids)
      BY <1>3
    <2>4. HandedOut(w, ids)'
      BY <1>1, <2>3 DEF HandedOut, Whole
    <2> QED
      BY <2>1, <2>2, <2>4
  <1>6. TypeOK'
    BY <1>1, <1>2 DEF TypeOK
  <1>7. Writing'
    BY <1>1 DEF Writing
  <1>8. Reading'
    BY <1>1, <1>3, <1>4, <1>5 DEF Reading
  <1> QED
    BY <1>6, <1>7, <1>8 DEF Inv

-----------------------------------------------------------------------------
(* The reader.                                                             *)

\* Records already returned stay behind a reader that only goes on.
LEMMA HandedStays ==
  ASSUME TypeOK, NEW w, NEW ids, HandedOut(w, ids),
         UNCHANGED <<returned, size, start>>,
         rd'.lo \in Nat, rd'.lo >= rd.lo, rd'.initial = rd.initial
  PROVE  HandedOut(w, ids)'
  <1>1. rd.lo \in Nat /\ \A p \in Heads(w) : p \in Int
    BY DEF TypeOK, ReaderStates, Heads
  <1>2. ASSUME NEW i \in 1..Len(returned)
        PROVE  \E p \in Heads(w) : /\ p <= rd'.lo /\ w[p][2] = ids[i]
                                   /\ w[p][3] \in {kFullType, kLastType}
    <2>1. PICK p \in Heads(w) : /\ p <= rd.lo /\ w[p][2] = ids[i]
                                /\ w[p][3] \in {kFullType, kLastType}
      BY DEF HandedOut
    <2>2. p <= rd'.lo
      BY <1>1, <2>1
    <2> QED
      BY <2>1, <2>2
  <1>3. \A i \in 1..Len(returned) : /\ returned[i].data = Whole(ids[i])
                                    /\ returned[i].offset = start[ids[i]]
                                    /\ returned[i].offset >= rd.initial
    BY DEF HandedOut
  <1>4. /\ ids \in [1..Len(returned) -> 1..Len(size)]
        /\ \A i, j \in 1..Len(returned) : i < j => ids[i] < ids[j]
    BY DEF HandedOut
  <1>5. \A id : Whole(id)' = Whole(id)
    BY DEF Whole
  <1> QED
    BY <1>2, <1>3, <1>4, <1>5 DEF HandedOut

LEMMA Remainder ==
  ASSUME NEW o \in Nat, NEW a \in Nat \ {0}, NEW m, m = o % a
  PROVE  m \in 0..o
  <1>1. o \div a \in Nat /\ m \in Nat /\ o = a * (o \div a) + m
    OBVIOUS
  <1>2. PICK d \in Nat : d = o \div a
    BY <1>1
  <1>3. PICK e \in Nat : e = a * d
    OBVIOUS
  <1> QED
    BY <1>1, <1>2, <1>3

\* The place of the block that holds the initial offset, or of the next one.
LEMMA InitialBlock ==
  ASSUME TypeOK
  PROVE  SkipToInitialBlock \in Nat
  <1>1. rd.initial \in Nat /\ kBlockSize \in Nat \ {0}
    BY LogAssumption DEF TypeOK, ReaderStates
  <1>2. PICK m : m = rd.initial % kBlockSize
    OBVIOUS
  <1>3. m \in 0..rd.initial
    BY <1>1, <1>2, Remainder
  <1> QED
    BY <1>1, <1>2, <1>3 DEF SkipToInitialBlock

\* Only what is shorter than a header is skipped at the end of a block, and
\* nothing of a record: a new block does not lose the fragments read.
LEMMA RefillKeeps ==
  ASSUME Inv, Refill
  PROVE  Inv'
  <1>1. /\ TypeOK /\ phase = "read" /\ rd \in ReaderStates /\ file \in Seq(Bytes)
        /\ rd.hi - rd.lo < 7 /\ ~rd.eof
        /\ file' = file /\ size' = size /\ start' = start /\ returned' = returned
        /\ phase' = phase /\ block_offset' = block_offset /\ left' = left /\ begin' = begin
    BY DEF Inv, TypeOK, Refill, writerVars, Buffered
  <1>2. PICK w : /\ Written(w) /\ Layout(w, size, start)
                 /\ Buffer /\ Gathering(w) /\ \E ids : HandedOut(w, ids)
    BY <1>1 DEF Inv, Reading
  <1>3. rd.lo \in Nat /\ rd.hi \in Nat /\ rd.lo <= rd.hi /\ kBlockSize > 7 /\ kBlockSize \in Nat
        /\ Len(file) \in Nat
    BY <1>1, <1>2, LogAssumption DEF ReaderStates, Buffer
  <1> DEFINE skips == rd.last < rd.initial /\ rd.hi = 0
             from == IF skips THEN SkipToInitialBlock ELSE rd.hi
             to == IF from + kBlockSize > Len(file)
                   THEN (IF from > Len(file) THEN from ELSE Len(file))
                   ELSE from + kBlockSize
  <1>4. rd' = [rd EXCEPT !.lo = from, !.hi = to, !.eof = to - from < kBlockSize]
    BY DEF Refill
  <1>5. /\ from \in Nat /\ rd.lo <= from
        /\ rd.hi # 0 => from = rd.hi
    <2> HIDE DEF skips
    <2>1. SkipToInitialBlock \in Nat
      BY <1>1, InitialBlock
    <2> QED
      BY <1>3, <2>1 DEF skips
  <1> HIDE DEF skips, from
  <1>6. /\ to \in Nat /\ from <= to
        /\ from < to => to <= Len(file)
    BY <1>3, <1>5
  <1> HIDE DEF to
  <1>7. PICK b \in BOOLEAN : b = (to - from < kBlockSize)
    <2>1. (to - from < kBlockSize) = TRUE \/ (to - from < kBlockSize) = FALSE
      OBVIOUS
    <2> QED
      BY <2>1, Zenon
  <1>8. /\ rd' \in ReaderStates
        /\ rd'.lo = from /\ rd'.hi = to /\ rd'.eof = b /\ rd'.initial = rd.initial
        /\ rd'.resyncing = rd.resyncing /\ rd'.fragmented = rd.fragmented
        /\ rd'.scratch = rd.scratch /\ rd'.prospective = rd.prospective
    <2>1. rd' = [rd EXCEPT !.lo = from, !.hi = to, !.eof = b]
      BY <1>4, <1>7
    <2> QED
      BY <1>1, <1>5, <1>6, <2>1 DEF ReaderStates
  <1>9. TypeOK'
    BY <1>1, <1>8 DEF TypeOK
  <1>10. Writing'
    BY <1>1 DEF Writing
  <1>11. Buffer'
    BY <1>1, <1>2, <1>6, <1>8 DEF Buffer
  <1>12. Gathering(w)'
    <2> SUFFICES ASSUME rd'.fragmented
                 PROVE  \E p \in Heads(w) : Gathers(w, p)'
      BY DEF Gathering
    <2>1. PICK p \in Heads(w) : Gathers(w, p)
      BY <1>2, <1>8 DEF Gathering
    <2>2. PICK n \in Nat : n = w[p][4]
      BY <1>2, ByteFacts DEF Written, Heads
    <2>3. p \in Nat /\ p >= 1
      BY <1>2 DEF Written, Heads
    <2>4. p + 6 + n = rd.lo /\ rd.lo <= p + 6 + n + 6
      BY <1>1, <1>3, <2>1, <2>2 DEF Gathers, Buffered
    <2>5. from = rd.hi
      BY <1>3, <1>5, <2>3, <2>4
    <2>6. p + 6 + n <= rd'.lo /\ rd'.lo <= p + 6 + n + 6
      BY <1>1, <1>3, <1>8, <2>3, <2>4, <2>5
    <2>7. rd'.eof \/ ~(Buffered' < 7)
      <3>1. ~b => to - from >= kBlockSize
        <4>1. ~b => ~(to - from < kBlockSize)
          BY <1>7, Zenon
        <4> QED
          BY <1>3, <1>5, <1>6, <4>1
      <3>2. Buffered' = to - from
        BY <1>8 DEF Buffered
      <3>3. ~b => ~(to - from < 7)
        BY <1>3, <1>5, <1>6, <3>1
      <3> QED
        BY <1>8, <3>2, <3>3
    <2> QED
      BY <1>1, <1>8, <2>1, <2>2, <2>6, <2>7 DEF Gathers
  <1>13. \E ids : HandedOut(w, ids)'
    <2>1. PICK ids : HandedOut(w, ids)
      BY <1>2
    <2> QED
      BY <1>1, <1>3, <1>5, <1>8, <2>1, HandedStays
  <1>14. Reading'
    BY <1>1, <1>2, <1>11, <1>12, <1>13 DEF Reading, Written
  <1> QED
    BY <1>9, <1>10, <1>14 DEF Inv

LEMMA RefillFailsKeeps ==
  ASSUME Inv, RefillFails
  PROVE  Inv'
  <1>1. /\ TypeOK /\ phase = "read" /\ rd \in ReaderStates /\ file \in Seq(Bytes)
        /\ rd.hi - rd.lo < 7 /\ ~rd.eof
        /\ rd' = [rd EXCEPT !.lo = rd.hi, !.eof = TRUE]
        /\ file' = file /\ size' = size /\ start' = start /\ returned' = returned
        /\ phase' = phase /\ block_offset' = block_offset /\ left' = left /\ begin' = begin
    BY DEF Inv, TypeOK, RefillFails, Buffered
  <1>2. PICK w : /\ Written(w) /\ Layout(w, size, start)
                 /\ Buffer /\ Gathering(w) /\ \E ids : HandedOut(w, ids)
    BY <1>1 DEF Inv, Reading
  <1>3. rd.lo \in Nat /\ rd.hi \in Nat /\ rd.lo <= rd.hi
    BY <1>1, <1>2 DEF ReaderStates, Buffer
  <1>4. /\ rd' \in ReaderStates
        /\ rd'.lo = rd.hi /\ rd'.hi = rd.hi /\ rd'.eof /\ rd'.initial = rd.initial
        /\ rd'.resyncing = rd.resyncing /\ rd'.fragmented = rd.fragmented
        /\ rd'.scratch = rd.scratch /\ rd'.prospective = rd.prospective
    BY <1>1, <1>3 DEF ReaderStates
  <1>5. TypeOK'
    BY <1>1, <1>4 DEF TypeOK
  <1>6. Writing'
    BY <1>1 DEF Writing
  <1>7. Buffer'
    BY <1>2, <1>3, <1>4 DEF Buffer
  <1>8. Gathering(w)'
    <2> SUFFICES ASSUME rd'.fragmented
                 PROVE  \E p \in Heads(w) : Gathers(w, p)'
      BY DEF Gathering
    <2>1. PICK p \in Heads(w) : Gathers(w, p)
      BY <1>2, <1>4 DEF Gathering
    <2>2. PICK n \in Nat : n = w[p][4]
      BY <1>2, ByteFacts DEF Written, Heads
    <2>3. p \in Nat
      BY <1>2 DEF Written, Heads
    <2>4. p + 6 + n = rd.lo
      BY <1>1, <2>1, <2>2 DEF Gathers, Buffered
    <2>5. p + 6 + n <= rd'.lo /\ rd'.lo <= p + 6 + n + 6
      BY <1>1, <1>3, <1>4, <2>3, <2>4
    <2> QED
      BY <1>1, <1>4, <2>1, <2>2, <2>5 DEF Gathers
  <1>9. \E ids : HandedOut(w, ids)'
    <2>1. PICK ids : HandedOut(w, ids)
      BY <1>2
    <2> QED
      BY <1>1, <1>3, <1>4, <2>1, HandedStays
  <1>10. Reading'
    BY <1>1, <1>2, <1>7, <1>8, <1>9 DEF Reading, Written
  <1> QED
    BY <1>5, <1>6, <1>10 DEF Inv

\* What ReadPhysicalRecord found is the physical record at the reader's place
Found(w, o) ==
  LET b == w[rd.lo + 1]
  IN /\ rd.lo + 1 \in Heads(w)
     /\ o.type = b[3] /\ o.data = Payload(b[2], b[5], b[4])
     /\ o.lo = rd.lo + 7 + b[4]
     /\ rd.lo >= rd.initial
     /\ \A y \in Heads(w) : ~(rd.lo + 1 < y /\ y <= o.lo)

\* A record that passes the checks is as it was written: its header is where a
\* header was written, its payload is the header's, and no other header is in it.
LEMMA IntactRecord ==
  ASSUME TypeOK, Buffer, NEW w, Written(w),
         Buffered >= 7, HeaderIntact, NEW len, len = At(1)[4],
         ~(7 + len > Buffered), ChecksumOk(len)
  PROVE  LET b == w[rd.lo + 1]
             data == SubSeq(file, rd.lo + 7 + 1, rd.lo + 7 + len)
         IN /\ rd.lo + 1 \in Heads(w) /\ b = At(1) /\ len \in Nat
            /\ data = Payload(b[2], b[5], len)
            /\ \A y \in Heads(w) : ~(rd.lo + 1 < y /\ y <= rd.lo + 7 + len)
            /\ rd.lo + 7 + len <= rd.hi
  <1>1. PICK lo \in Nat : lo = rd.lo
    BY DEF TypeOK, ReaderStates
  <1>2. /\ rd.hi \in Nat /\ lo + 7 <= rd.hi /\ rd.hi <= Len(file) /\ Len(file) \in Nat
        /\ file \in Seq(Bytes)
    BY <1>1 DEF TypeOK, ReaderStates, Buffer, Buffered
  <1>3. w \in Seq(Bytes) /\ Len(w) = Len(file) /\ \A y \in 1..Len(file) : file[y] \in {w[y], Garbage}
    BY DEF Written
  <1>4. Garbage[1] = "X"
    BY DEF Garbage
  <1>5. ASSUME NEW y \in 1..Len(file), file[y][1] # "X"
        PROVE  w[y] = file[y]
    BY <1>3, <1>4, <1>5
  <1>6. PICK b : b = file[lo + 1]
    OBVIOUS
  <1>7. b[1] = "H" /\ At(1) = b
    BY <1>1, <1>6 DEF HeaderIntact, At
  <1>8. w[lo + 1] = b /\ lo + 1 \in Heads(w)
    <2>1. lo + 1 \in 1..Len(file)
      BY <1>2
    <2> QED
      BY <2>1, <1>3, <1>5, <1>6, <1>7 DEF Heads
  <1>9. len \in Nat /\ b[2] \in Nat /\ b[5] \in Nat /\ len = b[4]
    <2>1. b \in Bytes
      BY <1>3, <1>8 DEF Heads
    <2> QED
      BY <2>1, <1>7, ByteFacts
  <1>10. lo + 7 + len <= rd.hi
    <2>1. PICK hi \in Nat : hi = rd.hi
      BY <1>2
    <2>2. PICK l \in Nat : l = len
      BY <1>9
    <2>3. Buffered = hi - lo
      BY <1>1, <2>1 DEF Buffered
    <2>4. ~(7 + l > hi - lo)
      BY <2>2, <2>3
    <2>5. lo + 7 + l <= hi
      BY <2>4
    <2> QED
      BY <2>1, <2>2, <2>5
  <1>11. ASSUME NEW i \in 2..7
         PROVE  w[lo + i][1] # "H"
    <2>1. file[lo + i] = <<"h", b[2], b[5], i, 0>>
      BY <1>1, <1>7 DEF HeaderIntact, At
    <2>2. file[lo + i][1] = "h"
      BY <2>1
    <2>3. lo + i \in 1..Len(file)
      BY <1>2
    <2>4. w[lo + i] = file[lo + i]
      BY <2>2, <2>3, <1>5
    <2> QED
      BY <2>2, <2>4
  <1>12. ASSUME NEW i \in 1..len
         PROVE  /\ file[lo + 7 + i] = <<"P", b[2], b[5] + i, 0, 0>>
                /\ w[lo + 7 + i][1] # "H"
    <2>1. file[rd.lo + (7 + i)] = <<"P", b[2], b[5] + i, 0, 0>>
      BY <1>7 DEF ChecksumOk, At
    <2>2. rd.lo + (7 + i) = lo + 7 + i
      BY <1>1, <1>9
    <2>3. file[lo + 7 + i] = <<"P", b[2], b[5] + i, 0, 0>>
      BY <2>1, <2>2
    <2>4. file[lo + 7 + i][1] = "P"
      BY <2>3
    <2>5. lo + 7 + i \in 1..Len(file)
      BY <1>2, <1>9, <1>10, SMTT(30)
    <2>6. w[lo + 7 + i] = file[lo + 7 + i]
      BY <2>4, <2>5, <1>5
    <2> QED
      BY <2>3, <2>4, <2>6
  <1>13. ASSUME NEW y \in Heads(w), lo + 1 < y, y <= lo + 7 + len
         PROVE  FALSE
    <2>1. y \in Nat /\ w[y][1] = "H"
      BY <1>3 DEF Heads
    <2>2. CASE y <= lo + 7
      <3>1. PICK i \in 2..7 : y = lo + i
        <4>1. y - lo \in 2..7 /\ y = lo + (y - lo)
          BY <1>13, <2>1, <2>2
        <4> QED
          BY <4>1
      <3> QED
        BY <3>1, <2>1, <1>11
    <2>3. CASE ~(y <= lo + 7)
      <3>1. PICK i \in 1..len : y = lo + 7 + i
        <4>1. y - (lo + 7) \in 1..len /\ y = lo + 7 + (y - (lo + 7))
          BY <1>9, <1>13, <2>1, <2>3
        <4> QED
          BY <4>1
      <3> QED
        BY <3>1, <2>1, <1>12
    <2> QED
      BY <2>2, <2>3
  <1>14. SubSeq(file, lo + 7 + 1, lo + 7 + len) = Payload(b[2], b[5], len)
    <2>1. PICK m \in Int : m = lo + 7 + 1
      OBVIOUS
    <2>2. PICK n \in Int : n = lo + 7 + len
      BY <1>9
    <2>3. \A i \in m..n : file[i] \in Bytes
      BY <1>2, <1>10, <2>1, <2>2
    <2>4. PICK d \in Seq(Bytes) : d = SubSeq(file, m, n)
      BY <2>3, SubSeqProperties
    <2>5. Len(d) = len /\ \A i \in 1..len : d[i] = file[m + i - 1]
      <3>1. /\ Len(d) = IF m <= n THEN n - m + 1 ELSE 0
            /\ \A i \in 1..(n - m + 1) : d[i] = file[m + i - 1]
        BY <2>3, <2>4, SubSeqProperties
      <3>2. len \in Nat
        BY <1>9
      <3>3. n - m + 1 = len /\ (~(m <= n) => len = 0)
        BY <2>1, <2>2, <3>2, SMTT(30)
      <3> QED
        BY <3>1, <3>3
    <2>6. PICK id \in Nat, base \in Nat : id = b[2] /\ base = b[5]
      BY <1>9
    <2>7. ASSUME NEW i \in 1..len
          PROVE  d[i] = PayloadByte(id, base + i)
      <3>1. m + i - 1 = lo + 7 + i
        BY <2>1
      <3>2. d[i] = file[lo + 7 + i]
        BY <3>1, <2>5
      <3>3. file[lo + 7 + i] = PayloadByte(id, base + i)
        BY <1>12, <2>6 DEF PayloadByte
      <3> QED
        BY <3>2, <3>3
    <2>l. PICK l \in Nat : l = len
      BY <1>9
    <2>8. PICK e \in Seq(Bytes) : e = Payload(id, base, len)
      BY <2>l, PayloadFacts
    <2>9. Len(e) = len /\ \A i \in 1..len : e[i] = PayloadByte(id, base + i)
      <3>1. e = Payload(id, base, l)
        BY <2>l, <2>8
      <3>2. Len(e) = l /\ \A i \in 1..l : e[i] = PayloadByte(id, base + i)
        BY <3>1, PayloadFacts, ZenonT(60)
      <3> QED
        BY <2>l, <3>2
    <2>10. \A i \in 1..len : d[i] = e[i]
      BY <2>7, <2>9, Zenon
    <2>11. d = e
      BY <2>5, <2>9, <2>10, SeqEqual
    <2> QED
      BY <2>1, <2>2, <2>4, <2>6, <2>8, <2>11
  <1> QED
    BY <1>1, <1>7, <1>8, <1>9, <1>10, <1>13, <1>14

\* Whatever the bytes in the buffer are, ReadPhysicalRecord goes forward within
\* it, and returns only fragments that were written.
LEMMA PhysicalRecord ==
  ASSUME TypeOK, Buffer, NEW w, Written(w), Layout(w, size, start),
         NEW o \in ReadPhysicalRecord
  PROVE  /\ o.lo \in Nat /\ rd.lo <= o.lo /\ o.lo <= rd.hi
         /\ o.type \in {kBadRecord, kEof} \/ Found(w, o)
  <1>1. rd.lo \in Nat /\ rd.hi \in Nat /\ rd.lo <= rd.hi
    BY DEF TypeOK, ReaderStates, Buffer
  <1>2. ASSUME o \in {BadLength, Mismatch, Preallocated, Outcome(kEof, <<>>, rd.hi, 0)}
        PROVE  o.lo = rd.hi /\ o.type \in {kBadRecord, kEof}
    BY <1>2 DEF BadLength, Mismatch, Preallocated, Outcome
  <1>3. CASE Buffered < 7
    <2>1. o = Outcome(kEof, <<>>, rd.hi, 0)
      BY <1>3 DEF ReadPhysicalRecord
    <2> QED
      BY <1>1, <1>2, <2>1
  <1>4. CASE ~(Buffered < 7)
    <2>1. o \in Parsed
      BY <1>4 DEF ReadPhysicalRecord
    <2>2. Buffered >= 7
      BY <1>1, <1>4 DEF Buffered
    <2>3. CASE ~HeaderIntact
      BY <1>1, <1>2, <2>1, <2>3 DEF Parsed
    <2>4. CASE HeaderIntact
      <3>1. PICK len : len = At(1)[4]
        OBVIOUS
      <3>2. o \in IF 7 + len > Buffered THEN {BadLength}
                  ELSE IF ~ChecksumOk(len) THEN {Mismatch}
                  ELSE IF rd.lo < rd.initial
                       THEN {Outcome(kBadRecord, <<>>, rd.lo + 7 + len, 0)}
                  ELSE {Outcome(At(1)[3],
                          SubSeq(file, rd.lo + 7 + 1, rd.lo + 7 + len), rd.lo + 7 + len, 0)}
        BY <2>1, <2>4, <3>1 DEF Parsed
      <3>3. CASE 7 + len > Buffered \/ ~ChecksumOk(len)
        BY <1>1, <1>2, <3>2, <3>3
      <3>4. CASE ~(7 + len > Buffered) /\ ChecksumOk(len)
        <4>1. PICK b : b = w[rd.lo + 1]
          OBVIOUS
        <4>2. PICK data : data = SubSeq(file, rd.lo + 7 + 1, rd.lo + 7 + len)
          OBVIOUS
        <4>3. /\ rd.lo + 1 \in Heads(w) /\ b = At(1) /\ len \in Nat
              /\ data = Payload(b[2], b[5], len)
              /\ \A y \in Heads(w) : ~(rd.lo + 1 < y /\ y <= rd.lo + 7 + len)
              /\ rd.lo + 7 + len <= rd.hi
          BY <2>2, <2>4, <3>1, <3>4, <4>1, <4>2, IntactRecord
        <4>4. CASE rd.lo < rd.initial
          <5>1. o = Outcome(kBadRecord, <<>>, rd.lo + 7 + len, 0)
            BY <3>2, <3>4, <4>4
          <5>2. o.lo = rd.lo + 7 + len /\ o.type = kBadRecord
            BY <5>1 DEF Outcome
          <5> QED
            BY <1>1, <4>3, <5>2
        <4>5. CASE ~(rd.lo < rd.initial)
          <5>1. o = Outcome(b[3], data, rd.lo + 7 + len, 0)
            BY <3>2, <3>4, <4>2, <4>3, <4>5
          <5>2. o.lo = rd.lo + 7 + len /\ o.type = b[3] /\ o.data = data
            BY <5>1 DEF Outcome
          <5>3. rd.lo >= rd.initial
            BY <1>1, <4>5 DEF TypeOK, ReaderStates
          <5>4. Found(w, o)
            BY <3>1, <4>1, <4>3, <5>2, <5>3 DEF Found
          <5>5. o.lo \in Nat /\ rd.lo <= o.lo /\ o.lo <= rd.hi
            BY <1>1, <4>3, <5>2
          <5> QED
            BY <5>4, <5>5
        <4> QED
          BY <4>4, <4>5
      <3> QED
        BY <3>3, <3>4
    <2> QED
      BY <2>3, <2>4
  <1> QED
    BY <1>3, <1>4

\* What was found belongs to the record whose header lies there.
LEMMA FoundFacts ==
  ASSUME TypeOK, NEW w, Written(w), Layout(w, size, start), NEW o, Found(w, o)
  PROVE  \E id \in 1..Len(size), base \in Nat, n \in Nat :
           /\ rd.lo + 1 \in Heads(w)
           /\ id = w[rd.lo + 1][2] /\ base = w[rd.lo + 1][5] /\ n = w[rd.lo + 1][4]
           /\ o.type = w[rd.lo + 1][3]
           /\ o.data = Payload(id, base, n) /\ o.data \in Seq(Bytes)
           /\ o.lo = rd.lo + 7 + n /\ o.lo - 7 - Len(o.data) = rd.lo
           /\ o.type \in {kFullType, kFirstType} => base = 0 /\ start[id] = rd.lo
           /\ o.type \in {kFullType, kLastType} => base + n = size[id]
           /\ \A y \in Heads(w) : ~(rd.lo + 1 < y /\ y <= rd.lo + 7 + n)
           /\ rd.lo >= rd.initial
  <1>1. PICK lo \in Nat : lo = rd.lo
    BY DEF TypeOK, ReaderStates
  <1>2. PICK b : b = w[lo + 1]
    OBVIOUS
  <1>3. lo + 1 \in Heads(w) /\ w \in Seq(Bytes) /\ size \in Seq(Nat)
    BY <1>1 DEF Found, Written, TypeOK
  <1>4. b \in Bytes
    BY <1>2, <1>3 DEF Heads
  <1>5. HeaderSound(b, size) /\ (b[3] \in {kFullType, kFirstType} => start[b[2]] = lo + 1 - 1)
    BY <1>2, <1>3 DEF Layout, HeadersSound
  <1>6. PICK id \in 1..Len(size), base \in Nat, n \in Nat : id = b[2] /\ base = b[5] /\ n = b[4]
    BY <1>4, <1>5, ByteFacts DEF HeaderSound
  <1>7. id \in Nat
    BY <1>3
  <1>8. o.data = Payload(id, base, n) /\ o.type = b[3] /\ o.lo = lo + 7 + n
    BY <1>1, <1>2, <1>6 DEF Found
  <1>9. o.data \in Seq(Bytes) /\ Len(o.data) = n
    <2>1. PICK k \in Nat : k = id
      BY <1>7
    <2>2. PICK d \in Seq(Bytes) : d = Payload(k, base, n)
      BY PayloadFacts
    <2>3. Len(d) = n
      BY <2>2, PayloadFacts
    <2>4. o.data = d
      BY <1>8, <2>1, <2>2
    <2> QED
      BY <2>3, <2>4
  <1>10. o.lo - 7 - Len(o.data) = lo
    BY <1>8, <1>9
  <1>11. /\ b[3] \in {kFullType, kFirstType} => base = 0 /\ start[id] = lo
         /\ b[3] \in {kFullType, kLastType} => base + n = size[id]
    BY <1>1, <1>5, <1>6 DEF HeaderSound
  <1>12. \A y \in Heads(w) : ~(lo + 1 < y /\ y <= lo + 7 + n)
    BY <1>1, <1>8 DEF Found
  <1>13. rd.lo >= rd.initial
    BY DEF Found
  <1> QED
    BY <1>1, <1>2, <1>3, <1>6, <1>8, <1>9, <1>10, <1>11, <1>12, <1>13

\* A fragment that does not begin a record, found behind the fragments gathered,
\* continues them: between the two there is no place for another header.
LEMMA NextHead ==
  ASSUME TypeOK, NEW w, Written(w), Layout(w, size, start),
         NEW p \in Heads(w), Gathers(w, p), rd.lo + 1 \in Heads(w),
         w[rd.lo + 1][3] \in {kMiddleType, kLastType}
  PROVE  w[rd.lo + 1][2] = w[p][2] /\ w[rd.lo + 1][5] = w[p][5] + w[p][4]
  <1>1. PICK lo \in Nat : lo = rd.lo
    BY DEF TypeOK, ReaderStates
  <1>2. w \in Seq(Bytes) /\ \A y \in Heads(w) : y \in Nat
    BY DEF Written, Heads
  <1>3. PICK n \in Nat : n = w[p][4]
    BY <1>2, ByteFacts DEF Heads
  <1>4. /\ p + 6 + n <= lo /\ lo <= p + 6 + n + 6
        /\ \A y \in Heads(w) : ~(p < y /\ y <= p + 6 + n)
    BY <1>1, <1>3 DEF Gathers
  <1>5. ASSUME NEW y \in Heads(w), p < y, y < lo + 1
        PROVE  FALSE
    <2>1. y > p + 6 + n
      BY <1>2, <1>3, <1>4, <1>5
    <2>2. y + 7 <= lo + 1
      BY <1>1, <1>5 DEF Layout, HeadersLong
    <2> QED
      BY <1>2, <1>3, <1>4, <2>1, <2>2
  <1>6. p < lo + 1
    BY <1>2, <1>3, <1>4
  <1>7. lo + 1 \in Heads(w) /\ w[lo + 1][3] \in {kMiddleType, kLastType}
    BY <1>1
  <1>8. w[lo + 1][2] = w[p][2] /\ w[lo + 1][5] = w[p][5] + w[p][4]
    BY <1>5, <1>6, <1>7 DEF Layout, Continues
  <1> QED
    BY <1>1, <1>8

\* The record of a header at the reader's place was not returned yet.
LEMMA NewerId ==
  ASSUME TypeOK, NEW w, Written(w), Layout(w, size, start),
         NEW ids, HandedOut(w, ids), rd.lo + 1 \in Heads(w)
  PROVE  \A i \in 1..Len(returned) : ids[i] < w[rd.lo + 1][2]
  <1>1. PICK lo \in Nat : lo = rd.lo
    BY DEF TypeOK, ReaderStates
  <1> SUFFICES ASSUME NEW i \in 1..Len(returned) PROVE ids[i] < w[lo + 1][2]
    BY <1>1
  <1>2. PICK p \in Heads(w) : /\ p <= lo /\ w[p][2] = ids[i]
                              /\ w[p][3] \in {kFullType, kLastType}
    BY <1>1 DEF HandedOut
  <1>3. p \in Nat
    BY DEF Heads, Written
  <1>4. p < lo + 1 /\ lo + 1 \in Heads(w)
    BY <1>1, <1>2, <1>3
  <1>5. ~(w[p][3] \in {kFirstType, kMiddleType})
    BY <1>2
  <1> QED
    BY <1>2, <1>4, <1>5 DEF Layout, InOrder

\* A whole record whose last fragment lies at the reader's place may be returned.
LEMMA ReturnKeeps ==
  ASSUME TypeOK, NEW w, Written(w), Layout(w, size, start), NEW ids, HandedOut(w, ids),
         NEW q \in Nat, q = rd.lo + 1, q \in Heads(w), w[q][3] \in {kFullType, kLastType},
         NEW id \in 1..Len(size), id = w[q][2],
         NEW item \in Items, item.data = Whole(id), item.offset = start[id],
         item.offset >= rd.initial, returned' = Append(returned, item),
         rd'.lo \in Nat, rd'.lo >= q, rd'.initial = rd.initial,
         size' = size, start' = start
  PROVE  /\ returned' \in Seq(Items)
         /\ \E f : HandedOut(w, f)'
  <1>1. PICK n \in Nat : n = Len(returned)
    BY DEF TypeOK
  <1>2. returned \in Seq(Items)
    BY DEF TypeOK
  <1>3. /\ returned' \in Seq(Items) /\ Len(returned') = n + 1
        /\ \A i \in 1..n : returned'[i] = returned[i]
        /\ returned'[n + 1] = item
    <2>1. PICK r \in Seq(Items) : r = Append(returned, item)
      BY <1>2, AppendProperties
    <2>2. Len(r) = n + 1 /\ (\A i \in 1..n : r[i] = returned[i]) /\ r[n + 1] = item
      BY <1>1, <1>2, <2>1, AppendProperties
    <2> QED
      BY <2>1, <2>2
  <1>4. ids \in [1..n -> 1..Len(size)] /\ \A i, j \in 1..n : i < j => ids[i] < ids[j]
    BY <1>1 DEF HandedOut
  <1>5. \A i \in 1..n : ids[i] < id
    BY <1>1, NewerId
  <1> DEFINE f == [i \in 1..(n + 1) |-> IF i <= n THEN ids[i] ELSE id]
  <1>6. f \in [1..(n + 1) -> 1..Len(size)]
    BY <1>4
  <1>7. f[n + 1] = id /\ \A i \in 1..n : f[i] = ids[i]
    OBVIOUS
  <1> HIDE DEF f
  <1>8. ASSUME NEW i \in 1..(n + 1), NEW j \in 1..(n + 1), i < j
        PROVE  f[i] < f[j]
    <2>1. i \in 1..n
      BY <1>8
    <2>2. CASE j = n + 1
      BY <1>5, <1>7, <2>1, <2>2
    <2>3. CASE j # n + 1
      <3>1. j \in 1..n
        BY <2>3
      <3> QED
        BY <1>4, <1>7, <1>8, <2>1, <3>1
    <2> QED
      BY <2>2, <2>3
  <1> DEFINE Sound(i) == /\ returned'[i].data = Whole(f[i])'
                         /\ returned'[i].offset = start'[f[i]]
                         /\ returned'[i].offset >= rd'.initial
                         /\ \E p \in Heads(w) :
                              /\ p <= rd'.lo /\ w[p][2] = f[i]
                              /\ w[p][3] \in {kFullType, kLastType}
  <1>9. \A x : Whole(x)' = Whole(x)
    BY DEF Whole
  <1>10. Sound(n + 1)
    BY <1>3, <1>7, <1>9
  <1>11. ASSUME NEW i \in 1..n PROVE Sound(i)
    <2>1. /\ returned[i].data = Whole(ids[i])
          /\ returned[i].offset = start[ids[i]]
          /\ returned[i].offset >= rd.initial
      BY <1>1 DEF HandedOut
    <2>2. PICK p \in Heads(w) : /\ p <= rd.lo /\ w[p][2] = ids[i]
                                /\ w[p][3] \in {kFullType, kLastType}
      BY <1>1 DEF HandedOut
    <2>3. p \in Int /\ rd.lo \in Int
      BY DEF Heads, Written, TypeOK, ReaderStates
    <2>4. p <= rd'.lo
      BY <2>2, <2>3
    <2>5. returned'[i] = returned[i] /\ f[i] = ids[i]
      BY <1>3, <1>7
    <2> QED
      BY <1>9, <2>1, <2>2, <2>4, <2>5
  <1>12. \A i \in 1..(n + 1) : Sound(i)
    <2> HIDE DEF Sound
    <2>1. \A i \in 1..(n + 1) : i = n + 1 \/ i \in 1..n
      OBVIOUS
    <2> QED
      BY <1>10, <1>11, <2>1, Zenon
  <1>13. HandedOut(w, f)'
    <2>1. f \in [1..Len(returned') -> 1..Len(size')]
      BY <1>3, <1>6
    <2>2. \A i \in 1..Len(returned') : Sound(i)
      BY <1>3, <1>12, SMTT(30)
    <2>3. \A i, j \in 1..Len(returned') : i < j => f[i] < f[j]
      BY <1>3, <1>8
    <2> QED
      BY <2>1, <2>2, <2>3, Zenon DEF HandedOut
  <1> QED
    BY <1>3, <1>13

\* What ReadRecord does with a physical record.
LEMMA ReadRecordKeeps ==
  ASSUME Inv, ReadRecord
  PROVE  Inv'
  <1>1. /\ TypeOK /\ phase = "read" /\ rd \in ReaderStates
        /\ file' = file /\ size' = size /\ start' = start
        /\ block_offset' = block_offset /\ left' = left /\ begin' = begin
    BY DEF Inv, TypeOK, ReadRecord, writerVars
  <1>2. PICK w : /\ Written(w) /\ Layout(w, size, start)
                 /\ Buffer /\ Gathering(w) /\ \E ids : HandedOut(w, ids)
    BY <1>1 DEF Inv, Reading
  <1>3. PICK ids : HandedOut(w, ids)
    BY <1>2
  <1>4. PICK o \in ReadPhysicalRecord :
          \/ ReadFull(o, o.lo - 7 - Len(o.data)) \/ ReadFirst(o, o.lo - 7 - Len(o.data))
          \/ ReadMiddle(o) \/ ReadLast(o) \/ ReadResyncing(o) \/ ReadBad(o) \/ ReadEof(o)
    BY DEF ReadRecord
  <1>5. /\ o.lo \in Nat /\ rd.lo <= o.lo /\ o.lo <= rd.hi
        /\ o.type \in {kBadRecord, kEof} \/ Found(w, o)
    BY <1>1, <1>2, PhysicalRecord
  <1>6. /\ rd.lo \in Nat /\ rd.hi \in Nat /\ rd.initial \in Nat
        /\ rd.scratch \in Seq(Bytes) /\ rd.prospective \in Nat
        /\ rd.resyncing \in BOOLEAN /\ rd.fragmented \in BOOLEAN
        /\ rd.resyncing => ~rd.fragmented
    BY <1>1, <1>2 DEF ReaderStates, Buffer
  <1>7. ASSUME rd' \in ReaderStates, rd'.lo = o.lo, rd'.hi = rd.hi,
               rd'.resyncing => ~rd'.fragmented,
               returned' \in Seq(Items), \E f : HandedOut(w, f)',
               phase' \in {"read", "eof"}, phase' = "read" => Gathering(w)'
        PROVE  Inv'
    <2>1. TypeOK'
      BY <1>1, <1>7 DEF TypeOK
    <2>2. Writing'
      BY <1>7 DEF Writing
    <2>3. Buffer'
      BY <1>1, <1>2, <1>5, <1>6, <1>7 DEF Buffer
    <2>4. Written(w)' /\ Layout(w, size, start)'
      BY <1>1, <1>2 DEF Written
    <2>5. Reading'
      BY <1>7, <2>3, <2>4 DEF Reading
    <2> QED
      BY <2>1, <2>2, <2>5 DEF Inv
  <1>8. ASSUME returned' = returned, rd'.lo = o.lo, rd'.initial = rd.initial
        PROVE  returned' \in Seq(Items) /\ \E f : HandedOut(w, f)'
    <2>1. HandedOut(w, ids)'
      BY <1>1, <1>3, <1>5, <1>8, HandedStays
    <2> QED
      BY <1>1, <1>8, <2>1 DEF TypeOK
  <1>9. CASE ReadFull(o, o.lo - 7 - Len(o.data))
    <2>1. o.type = kFullType /\ Found(w, o)
      BY <1>5, <1>9 DEF ReadFull
    <2>2. PICK id \in 1..Len(size), base \in Nat, n \in Nat :
            /\ rd.lo + 1 \in Heads(w) /\ id = w[rd.lo + 1][2] /\ w[rd.lo + 1][3] = kFullType
            /\ o.data = Payload(id, base, n) /\ o.data \in Seq(Bytes)
            /\ o.lo = rd.lo + 7 + n /\ o.lo - 7 - Len(o.data) = rd.lo
            /\ base = 0 /\ start[id] = rd.lo /\ base + n = size[id] /\ rd.lo >= rd.initial
      BY <1>1, <1>2, <2>1, FoundFacts
    <2>3. /\ rd' = [rd EXCEPT !.lo = o.lo, !.resyncing = FALSE, !.scratch = <<>>,
                              !.fragmented = FALSE, !.last = rd.lo]
          /\ returned' = Append(returned, [data |-> o.data, offset |-> rd.lo])
          /\ phase' = phase
      BY <1>9, <2>2 DEF ReadFull, Return
    <2>4. PICK item \in Items : item = [data |-> o.data, offset |-> rd.lo]
      BY <1>6, <2>2 DEF Items
    <2>5. n = size[id]
      BY <2>2
    <2>6. item.data = Whole(id) /\ item.offset = start[id]
      BY <2>2, <2>4, <2>5 DEF Whole
    <2>7. PICK s \in Seq(Bytes) : s = <<>>
      BY EmptySeq
    <2>8. /\ rd' \in ReaderStates /\ rd'.lo = o.lo /\ rd'.hi = rd.hi
          /\ rd'.initial = rd.initial /\ ~rd'.fragmented
      BY <1>1, <1>5, <1>6, <2>3, <2>7 DEF ReaderStates
    <2>9. returned' \in Seq(Items) /\ \E f : HandedOut(w, f)'
      <3>1. PICK q \in Nat : q = rd.lo + 1
        BY <1>6
      <3>2. q \in Heads(w) /\ w[q][3] \in {kFullType, kLastType} /\ id = w[q][2]
        BY <2>2, <3>1
      <3>3. rd'.lo \in Nat /\ rd'.lo >= q
        BY <1>5, <1>6, <2>2, <2>8, <3>1
      <3>4. item.offset >= rd.initial /\ returned' = Append(returned, item)
        BY <2>2, <2>3, <2>4
      <3> QED
        BY <1>1, <1>2, <1>3, <2>6, <2>8, <3>1, <3>2, <3>3, <3>4, ReturnKeeps
    <2> QED
      BY <1>1, <1>7, <2>3, <2>8, <2>9 DEF Gathering
  <1>10. CASE ReadFirst(o, o.lo - 7 - Len(o.data))
    <2>1. o.type = kFirstType /\ Found(w, o)
      BY <1>5, <1>10 DEF ReadFirst
    <2>2. PICK id \in 1..Len(size), base \in Nat, n \in Nat :
            /\ rd.lo + 1 \in Heads(w) /\ id = w[rd.lo + 1][2]
            /\ base = w[rd.lo + 1][5] /\ n = w[rd.lo + 1][4]
            /\ o.data = Payload(id, base, n) /\ o.data \in Seq(Bytes)
            /\ o.lo = rd.lo + 7 + n /\ o.lo - 7 - Len(o.data) = rd.lo
            /\ base = 0 /\ start[id] = rd.lo /\ rd.lo >= rd.initial
            /\ \A y \in Heads(w) : ~(rd.lo + 1 < y /\ y <= rd.lo + 7 + n)
      BY <1>1, <1>2, <2>1, FoundFacts
    <2>3. /\ rd' = [rd EXCEPT !.lo = o.lo, !.resyncing = FALSE, !.scratch = o.data,
                              !.fragmented = TRUE, !.prospective = rd.lo]
          /\ returned' = returned /\ phase' = phase
      BY <1>10, <2>2 DEF ReadFirst
    <2>4. /\ rd' \in ReaderStates /\ rd'.lo = o.lo /\ rd'.hi = rd.hi
          /\ rd'.initial = rd.initial /\ ~rd'.resyncing
          /\ rd'.scratch = o.data /\ rd'.prospective = rd.lo
      BY <1>1, <1>5, <1>6, <2>2, <2>3 DEF ReaderStates
    <2>p. PICK q \in Nat : q = rd.lo + 1
      BY <1>6
    <2>q. q = rd.lo + 1 /\ q \in Heads(w)
      BY <2>p, <2>2, Zenon
    <2>5. Gathers(w, q)'
      <3>1. id = w[q][2] /\ w[q][5] + w[q][4] = n /\ w[q][4] = n
        <4>1. id = w[q][2] /\ base = w[q][5] /\ n = w[q][4]
          BY <2>2, <2>q, Zenon
        <4>2. base = 0
          BY <2>2
        <4>3. base + n = n
          BY <4>2
        <4> QED
          BY <4>1, <4>3
      <3>2. q + 6 + n = rd'.lo
        BY <1>6, <2>2, <2>4, <2>q
      <3>3. rd'.scratch = Payload(id, 0, n)
        BY <2>2, <2>4
      <3>4. rd'.prospective = start'[id] /\ rd'.prospective >= rd'.initial
        BY <1>1, <2>2, <2>4
      <3>5. \A y \in Heads(w) : ~(q < y /\ y <= rd'.lo)
        BY <2>2, <2>4, <2>q
      <3>6. rd'.lo \in Nat
        BY <1>5, <2>4
      <3> QED
        BY <3>1, <3>2, <3>3, <3>4, <3>5, <3>6 DEF Gathers
    <2>6. Gathering(w)'
      BY <2>5, <2>q DEF Gathering
    <2> QED
      BY <1>1, <1>7, <1>8, <2>3, <2>4, <2>6
  <1>11. CASE ReadMiddle(o)
    <2>1. /\ o.type = kMiddleType /\ Found(w, o)
          /\ returned' = returned /\ phase' = phase /\ ~rd.resyncing
      BY <1>5, <1>11 DEF ReadMiddle
    <2>2. CASE ~rd.fragmented
      <3>1. rd' = [rd EXCEPT !.lo = o.lo, !.scratch = rd.scratch]
        BY <1>11, <2>2 DEF ReadMiddle
      <3>2. /\ rd' \in ReaderStates /\ rd'.lo = o.lo /\ rd'.hi = rd.hi
            /\ rd'.initial = rd.initial /\ ~rd'.fragmented
        BY <1>1, <1>5, <1>6, <2>2, <3>1 DEF ReaderStates
      <3> QED
        BY <1>1, <1>7, <1>8, <2>1, <3>2 DEF Gathering
    <2>3. CASE rd.fragmented
      <3>1. PICK p \in Heads(w) : Gathers(w, p)
        BY <1>2, <2>3 DEF Gathering
      <3>2. PICK id \in 1..Len(size), base \in Nat, n \in Nat :
              /\ rd.lo + 1 \in Heads(w) /\ id = w[rd.lo + 1][2]
              /\ base = w[rd.lo + 1][5] /\ n = w[rd.lo + 1][4]
              /\ w[rd.lo + 1][3] = kMiddleType
              /\ o.data = Payload(id, base, n)
              /\ o.lo = rd.lo + 7 + n
              /\ \A y \in Heads(w) : ~(rd.lo + 1 < y /\ y <= rd.lo + 7 + n)
        BY <1>1, <1>2, <2>1, FoundFacts
      <3>3. id = w[p][2] /\ base = w[p][5] + w[p][4]
        BY <1>1, <1>2, <3>1, <3>2, NextHead
      <3>4. rd.scratch = Payload(id, 0, base) /\ rd.prospective = start[id]
            /\ rd.prospective >= rd.initial
        BY <3>1, <3>3 DEF Gathers
      <3>5. PICK s \in Seq(Bytes) : s = Payload(id, 0, base + n) /\ rd.scratch \o o.data = s
        <4>1. PICK k \in Nat : k = id
          BY <1>1 DEF TypeOK
        <4>2. PICK m \in Nat : m = base + n
          OBVIOUS
        <4>3. PICK s \in Seq(Bytes) : s = Payload(k, 0, m)
          BY PayloadFacts
        <4>4. Payload(k, 0, base) \o Payload(k, base, n) = Payload(k, 0, m)
          BY <4>2, PayloadsJoin
        <4> QED
          BY <3>2, <3>4, <4>1, <4>2, <4>3, <4>4
      <3>6. rd' = [rd EXCEPT !.lo = o.lo, !.scratch = s]
        BY <1>11, <2>3, <3>5 DEF ReadMiddle
      <3>7. /\ rd' \in ReaderStates /\ rd'.lo = o.lo /\ rd'.hi = rd.hi
            /\ rd'.initial = rd.initial /\ ~rd'.resyncing
            /\ rd'.scratch = s /\ rd'.prospective = rd.prospective
        BY <1>1, <1>5, <1>6, <2>1, <3>6 DEF ReaderStates
      <3>p. PICK q \in Nat : q = rd.lo + 1
        BY <1>6
      <3>q. q = rd.lo + 1 /\ q \in Heads(w)
        BY <3>p, <3>2, Zenon
      <3>8. Gathers(w, q)'
        <4>2. /\ id = w[q][2] /\ w[q][5] + w[q][4] = base + n /\ w[q][4] = n
              /\ q + 6 + n = rd'.lo
          BY <1>6, <3>2, <3>7, <3>q
        <4>3. rd'.scratch = Payload(id, 0, base + n)
          BY <3>5, <3>7
        <4>4. rd'.prospective = start'[id] /\ rd'.prospective >= rd'.initial
          BY <1>1, <3>4, <3>7
        <4>5. \A y \in Heads(w) : ~(q < y /\ y <= rd'.lo)
          BY <3>2, <3>7, <3>q
        <4>6. rd'.lo \in Nat
          BY <1>5, <3>7
        <4> QED
          BY <4>2, <4>3, <4>4, <4>5, <4>6 DEF Gathers
      <3>9. Gathering(w)'
        BY <3>8, <3>q DEF Gathering
      <3> QED
        BY <1>1, <1>7, <1>8, <2>1, <3>7, <3>9
    <2> QED
      BY <2>2, <2>3
  <1>12. CASE ReadLast(o)
    <2>1. /\ o.type = kLastType /\ Found(w, o) /\ phase' = phase /\ ~rd.resyncing
          /\ rd' = [rd EXCEPT !.lo = o.lo, !.fragmented = FALSE, !.scratch = <<>>,
                      !.last = IF rd.fragmented THEN rd.prospective ELSE rd.last]
      BY <1>5, <1>12 DEF ReadLast
    <2>2. PICK s \in Seq(Bytes) : s = <<>>
      BY EmptySeq
    <2>3. /\ rd' \in ReaderStates /\ rd'.lo = o.lo /\ rd'.hi = rd.hi
          /\ rd'.initial = rd.initial /\ ~rd'.fragmented
      <3>1. PICK l \in Nat : l = IF rd.fragmented THEN rd.prospective ELSE rd.last
        BY <1>1, <1>6 DEF ReaderStates
      <3>2. rd' = [rd EXCEPT !.lo = o.lo, !.fragmented = FALSE, !.scratch = s, !.last = l]
        BY <2>1, <2>2, <3>1
      <3> QED
        BY <1>1, <1>5, <1>6, <3>2 DEF ReaderStates
    <2>4. CASE ~rd.fragmented
      <3>1. returned' = returned
        BY <1>12, <2>4 DEF ReadLast
      <3> QED
        BY <1>1, <1>7, <1>8, <2>1, <2>3, <3>1 DEF Gathering
    <2>5. CASE rd.fragmented
      <3>1. PICK p \in Heads(w) : Gathers(w, p)
        BY <1>2, <2>5 DEF Gathering
      <3>2. PICK id \in 1..Len(size), base \in Nat, n \in Nat :
              /\ rd.lo + 1 \in Heads(w) /\ id = w[rd.lo + 1][2]
              /\ base = w[rd.lo + 1][5] /\ n = w[rd.lo + 1][4]
              /\ o.type = w[rd.lo + 1][3]
              /\ o.data = Payload(id, base, n) /\ o.lo = rd.lo + 7 + n
              /\ base + n = size[id]
        BY <1>1, <1>2, <2>1, FoundFacts
      <3>3. id = w[p][2] /\ base = w[p][5] + w[p][4]
        <4>1. w[rd.lo + 1][3] \in {kMiddleType, kLastType}
          BY <2>1, <3>2
        <4> QED
          BY <1>1, <1>2, <3>1, <3>2, <4>1, NextHead
      <3>4. rd.scratch = Payload(id, 0, base) /\ rd.prospective = start[id]
            /\ rd.prospective >= rd.initial
        BY <3>1, <3>3 DEF Gathers
      <3>5. PICK d \in Seq(Bytes) : d = Whole(id) /\ rd.scratch \o o.data = d
        <4>1. PICK k \in Nat : k = id
          BY <1>1 DEF TypeOK
        <4>2. PICK m \in Nat : m = base + n
          OBVIOUS
        <4>3. PICK d \in Seq(Bytes) : d = Payload(k, 0, m)
          BY PayloadFacts
        <4>4. Payload(k, 0, base) \o Payload(k, base, n) = Payload(k, 0, m)
          BY <4>2, PayloadsJoin, ZenonT(60)
        <4>5. d = Whole(id)
          BY <3>2, <4>1, <4>2, <4>3 DEF Whole
        <4> QED
          BY <3>2, <3>4, <4>1, <4>3, <4>4, <4>5
      <3>6. PICK item \in Items : item = [data |-> d, offset |-> rd.prospective]
        BY <1>6 DEF Items
      <3>7. returned' = Append(returned, item)
        BY <1>12, <2>5, <3>5, <3>6 DEF ReadLast, Return
      <3>8. returned' \in Seq(Items) /\ \E f : HandedOut(w, f)'
        <4>1. PICK q \in Nat : q = rd.lo + 1
          BY <1>6
        <4>2. q \in Heads(w) /\ w[q][3] \in {kFullType, kLastType} /\ id = w[q][2]
          BY <2>1, <3>2, <4>1
        <4>3. rd'.lo \in Nat /\ rd'.lo >= q
          BY <1>5, <1>6, <2>3, <3>2, <4>1, SMTT(30)
        <4>4. item.data = Whole(id) /\ item.offset = start[id] /\ item.offset >= rd.initial
          BY <3>4, <3>5, <3>6
        <4> QED
          BY <1>1, <1>2, <1>3, <2>3, <3>7, <4>1, <4>2, <4>3, <4>4, ReturnKeeps
      <3> QED
        BY <1>1, <1>7, <2>1, <2>3, <3>8 DEF Gathering
    <2> QED
      BY <2>4, <2>5
  <1>13. CASE ReadResyncing(o)
    <2>1. /\ rd.resyncing /\ ~rd.fragmented /\ returned' = returned /\ phase' = phase
          /\ rd' = [rd EXCEPT !.lo = o.lo, !.resyncing = o.type = kMiddleType]
      BY <1>6, <1>13 DEF ReadResyncing
    <2>2. PICK b \in BOOLEAN : b = (o.type = kMiddleType)
      <3>1. (o.type = kMiddleType) = TRUE \/ (o.type = kMiddleType) = FALSE
        OBVIOUS
      <3> QED
        BY <3>1, Zenon
    <2>3. rd' = [rd EXCEPT !.lo = o.lo, !.resyncing = b]
      BY <2>1, <2>2
    <2>4. /\ rd' \in ReaderStates /\ rd'.lo = o.lo /\ rd'.hi = rd.hi
          /\ rd'.initial = rd.initial /\ ~rd'.fragmented
      BY <1>1, <1>5, <1>6, <2>1, <2>3 DEF ReaderStates
    <2> QED
      BY <1>1, <1>7, <1>8, <2>1, <2>4 DEF Gathering
  <1>14. CASE ReadBad(o)
    <2>1. /\ returned' = returned /\ phase' = phase
          /\ rd' = [rd EXCEPT !.lo = o.lo, !.resyncing = FALSE,
                              !.fragmented = FALSE, !.scratch = <<>>]
      BY <1>14 DEF ReadBad
    <2>2. PICK s \in Seq(Bytes) : s = <<>>
      BY EmptySeq
    <2>3. /\ rd' \in ReaderStates /\ rd'.lo = o.lo /\ rd'.hi = rd.hi
          /\ rd'.initial = rd.initial /\ ~rd'.fragmented
      BY <1>1, <1>5, <1>6, <2>1, <2>2 DEF ReaderStates
    <2> QED
      BY <1>1, <1>7, <1>8, <2>1, <2>3 DEF Gathering
  <1>15. CASE ReadEof(o)
    <2>1. /\ returned' = returned /\ phase' = "eof"
          /\ rd' = [rd EXCEPT !.lo = o.lo, !.scratch = <<>>]
      BY <1>15 DEF ReadEof
    <2>2. PICK s \in Seq(Bytes) : s = <<>>
      BY EmptySeq
    <2>3. /\ rd' \in ReaderStates /\ rd'.lo = o.lo /\ rd'.hi = rd.hi
          /\ rd'.initial = rd.initial /\ (rd'.resyncing => ~rd'.fragmented)
      BY <1>1, <1>5, <1>6, <2>1, <2>2 DEF ReaderStates
    <2> QED
      BY <1>7, <1>8, <2>1, <2>3
  <1> QED
    BY <1>4, <1>9, <1>10, <1>11, <1>12, <1>13, <1>14, <1>15

-----------------------------------------------------------------------------
(* Every behaviour.                                                        *)

LEMMA NextKeeps ==
  ASSUME Inv, [Next]_vars
  PROVE  Inv'
  <1>1. CASE UNCHANGED vars
    <2>1. TypeOK'
      BY <1>1 DEF vars, Inv, TypeOK
    <2>2. Writing'
      BY <1>1 DEF vars, Inv, Writing, Emitting
    <2>3. Reading'
      <3> SUFFICES ASSUME phase \in {"read", "eof"}
                   PROVE  \E w : /\ Written(w)' /\ Layout(w, size, start)
                                 /\ phase = "read" => Buffer' /\ Gathering(w)'
                                 /\ \E ids : HandedOut(w, ids)'
        BY <1>1 DEF vars, Reading
      <3>1. PICK w : /\ Written(w) /\ Layout(w, size, start)
                     /\ phase = "read" => Buffer /\ Gathering(w)
                     /\ \E ids : HandedOut(w, ids)
        BY DEF Inv, Reading
      <3>2. Written(w)' /\ (phase = "read" => Buffer' /\ Gathering(w)')
        BY <1>1, <3>1 DEF vars, Written, Buffer, Gathering, Gathers, Buffered
      <3>3. PICK ids : HandedOut(w, ids)
        BY <3>1
      <3>4. HandedOut(w, ids)'
        BY <1>1, <3>3 DEF vars, HandedOut, Whole
      <3> QED
        BY <3>1, <3>2, <3>4
    <2> QED
      BY <2>1, <2>2, <2>3 DEF Inv
  <1>2. ASSUME NEW n \in Sizes, AddRecord(n) PROVE Inv'
    BY <1>2, AddRecordKeeps
  <1>3. ASSUME NEW trailer \in 0..(kHeaderSize - 1), NEW bytes \in 0..kBlockSize,
               NEW ok \in BOOLEAN, EmitPhysicalRecord(trailer, bytes, ok)
        PROVE  Inv'
    BY <1>3, EmitKeeps
  <1>4. ASSUME NEW n \in 0..Len(file), NEW initial \in InitialOffsets, Crash(n, initial)
        PROVE  Inv'
    BY <1>4, CrashKeeps
  <1>5. ASSUME NEW p \in 1..Len(file), Damage(p) PROVE Inv'
    BY <1>5, DamageKeeps
  <1> QED
    BY <1>1, <1>2, <1>3, <1>4, <1>5, RefillKeeps, RefillFailsKeeps, ReadRecordKeeps
       DEF Next, Stopped

\* The inductive invariant: the file as it was written has the layout of
\* AddRecord, the reader's buffer lies in it, scratch_ is what the file holds of
\* one record up to the reader's place, and what was returned lies behind it.
THEOREM Invariance == Spec => []Inv
  <1>1. Init => Inv
    BY Init_
  <1>2. Inv /\ [Next]_vars => Inv'
    BY NextKeeps
  <1> QED
    BY <1>1, <1>2, PTL DEF Spec

\* ReadRecord returns only records that were handed to AddRecord, whole, with
\* their offsets, in order and once, whatever was cut off, damaged or not written.
THEOREM OnlyRecordsReturned == Spec => []ReturnsOnlyRecords
  <1>1. Inv => ReturnsOnlyRecords
    <2> SUFFICES ASSUME Inv PROVE ReturnsOnlyRecords
      OBVIOUS
    <2>1. phase \in {"idle", "emit"} \/ phase \in {"read", "eof"}
      BY DEF Inv, TypeOK
    <2>2. CASE phase \in {"idle", "emit"}
      <3>1. Len(returned) = 0
        BY <2>2 DEF Inv, Writing
      <3>2. <<>> \in [1..Len(returned) -> 1..Len(size)] /\ 1..Len(returned) = {}
        BY <3>1
      <3> QED
        BY <3>2 DEF ReturnsOnlyRecords
    <2>3. CASE phase \in {"read", "eof"}
      <3>1. PICK w, ids : HandedOut(w, ids)
        BY <2>3 DEF Inv, Reading
      <3> QED
        BY <3>1 DEF HandedOut, ReturnsOnlyRecords
    <2> QED
      BY <2>1, <2>2, <2>3
  <1> QED
    BY <1>1, Invariance, PTL

\* A multiple of a positive number, but for the first, is not less than it.
LEMMA Multiple ==
  ASSUME NEW k \in Nat, NEW a \in Nat
  PROVE  k * a \in Nat /\ (k >= 1 => k * a >= a)
  <1>1. k * a \in Nat
    OBVIOUS
  <1>2. CASE k >= 1
    <2>1. PICK j \in Nat : k = j + 1
      <3>1. k - 1 \in Nat /\ k = (k - 1) + 1
        BY <1>2
      <3> QED
        BY <3>1
    <2>2. PICK m \in Nat : m = j * a
      OBVIOUS
    <2>3. k * a = m + a
      BY <2>1, <2>2
    <2> QED
      BY <1>1, <2>2, <2>3
  <1> QED
    BY <1>1, <1>2

\* A number is written in one way as a multiple and a remainder.
LEMMA OneRemainder ==
  ASSUME NEW a \in Nat \ {0}, NEW q \in Nat, NEW r \in 0..(a - 1),
         NEW s \in Nat, NEW t \in 0..(a - 1), q * a + r = s * a + t
  PROVE  q = s /\ r = t
  <1>1. ASSUME NEW x \in Nat, NEW y \in Nat, x < y, NEW u \in 0..(a - 1), NEW v \in 0..(a - 1),
               x * a + u = y * a + v
        PROVE  FALSE
    <2>1. PICK k \in Nat : k >= 1 /\ y = x + k
      <3>1. y - x \in Nat /\ y - x >= 1 /\ y = x + (y - x)
        BY <1>1
      <3> QED
        BY <3>1
    <2>2. k * a \in Nat /\ k * a >= a
      BY <2>1, Multiple
    <2>3. y * a = x * a + k * a
      BY <2>1
    <2>4. PICK m \in Nat, n \in Nat : m = x * a /\ n = k * a /\ n >= a
      BY <2>2, Multiple
    <2>5. m + u = m + n + v
      BY <1>1, <2>3, <2>4
    <2> QED
      BY <2>4, <2>5
  <1>2. q = s
    <2>1. q < s \/ s < q \/ q = s
      OBVIOUS
    <2> QED
      BY <1>1, <2>1
  <1>3. PICK m \in Nat : m = q * a
    BY Multiple
  <1> QED
    BY <1>2, <1>3

\* Division: the quotient and the remainder are what makes up the number.
LEMMA Divided ==
  ASSUME NEW x \in Nat, NEW a \in Nat \ {0}, NEW d, d = x \div a, NEW m, m = x % a
  PROVE  /\ d \in Nat /\ m \in 0..(a - 1) /\ d * a \in Nat /\ x = d * a + m
         /\ \A q \in Nat, r \in 0..(a - 1) : x = q * a + r => d = q /\ m = r
  <1>1. x \div a \in Nat /\ m \in Nat /\ m < a /\ x = a * (x \div a) + m
    OBVIOUS
  <1>2. PICK e \in Nat : e = d
    BY <1>1
  <1>3. PICK f \in Nat : f = e * a
    OBVIOUS
  <1>4. a * e = f
    BY <1>3
  <1>5. x = f + m
    BY <1>1, <1>2, <1>4
  <1>6. m \in 0..(a - 1)
    BY <1>1
  <1>7. x = e * a + m
    BY <1>3, <1>5
  <1>8. ASSUME NEW q \in Nat, NEW r \in 0..(a - 1), x = q * a + r
        PROVE  e = q /\ m = r
    <2>1. e * a + m = q * a + r
      BY <1>7, <1>8
    <2> QED
      BY <1>6, <2>1, OneRemainder
  <1> QED
    BY <1>2, <1>3, <1>6, <1>7, <1>8

-----------------------------------------------------------------------------
(* Blocks.                                                                 *)

InBlock(x) == x % kBlockSize
BlockAt(x) == x - InBlock(x)

LEMMA BlockSize == kBlockSize \in Nat /\ kBlockSize >= 8 /\ kBlockSize \in Nat \ {0}
  BY LogAssumption

LEMMA Places ==
  ASSUME NEW x \in Nat
  PROVE  /\ InBlock(x) \in 0..(kBlockSize - 1)
         /\ BlockAt(x) \in Nat /\ BlockAt(x) <= x /\ x < BlockAt(x) + kBlockSize
         /\ x = BlockAt(x) + InBlock(x)
         /\ BlockAt(x) = (x \div kBlockSize) * kBlockSize
  <1>1. PICK a \in Nat \ {0} : a = kBlockSize
    BY BlockSize
  <1>2. PICK d, m : d = x \div a /\ m = x % a
    OBVIOUS
  <1>3. d \in Nat /\ m \in 0..(a - 1) /\ d * a \in Nat /\ x = d * a + m
    BY <1>2, Divided
  <1>4. PICK f \in Nat : f = d * a
    BY <1>3
  <1> QED
    BY <1>1, <1>2, <1>3, <1>4 DEF InBlock, BlockAt

\* From a place in a block some bytes on, in the same block or at its end.
LEMMA Onwards ==
  ASSUME NEW x \in Nat, NEW n \in Nat
  PROVE  /\ InBlock(x) + n < kBlockSize =>
              InBlock(x + n) = InBlock(x) + n /\ BlockAt(x + n) = BlockAt(x)
         /\ InBlock(x) + n = kBlockSize =>
              InBlock(x + n) = 0 /\ BlockAt(x + n) = x + n
  <1>1. PICK a \in Nat \ {0} : a = kBlockSize
    BY BlockSize
  <1>2. PICK d, m : d = x \div a /\ m = x % a
    OBVIOUS
  <1>3. d \in Nat /\ m \in 0..(a - 1) /\ d * a \in Nat /\ x = d * a + m
    BY <1>2, Divided
  <1>4. PICK f \in Nat : f = d * a
    BY <1>3
  <1>5. PICK y \in Nat : y = x + n
    OBVIOUS
  <1>6. PICK e, k : e = y \div a /\ k = y % a
    OBVIOUS
  <1>7. \A q \in Nat, r \in 0..(a - 1) : y = q * a + r => e = q /\ k = r
    BY <1>6, Divided
  <1>8. InBlock(x) = m /\ InBlock(x + n) = k /\ BlockAt(x) = x - m /\ BlockAt(x + n) = y - k
    BY <1>1, <1>2, <1>5, <1>6 DEF InBlock, BlockAt
  <1>9. CASE m + n < a
    <2>1. PICK r \in 0..(a - 1) : r = m + n
      BY <1>3, <1>9
    <2>2. y = d * a + r
      BY <1>3, <1>4, <1>5, <2>1
    <2>3. k = r
      BY <1>3, <1>7, <2>2
    <2> QED
      BY <1>1, <1>3, <1>4, <1>5, <1>8, <1>9, <2>1, <2>3
  <1>10. CASE m + n = a
    <2>1. (d + 1) * a = d * a + a
      BY <1>3
    <2>2. y = (d + 1) * a + 0
      BY <1>3, <1>4, <1>5, <1>10, <2>1
    <2>3. d + 1 \in Nat /\ 0 \in 0..(a - 1)
      BY <1>3
    <2>4. k = 0
      BY <1>7, <2>2, <2>3
    <2> QED
      BY <1>1, <1>3, <1>4, <1>5, <1>8, <1>10, <2>4
  <1>11. CASE m + n > a
    BY <1>1, <1>3, <1>8, <1>11
  <1> QED
    BY <1>3, <1>9, <1>10, <1>11

\* A block begins at a multiple of the block size.
LEMMA BlockBegins ==
  ASSUME NEW x \in Nat
  PROVE  InBlock(BlockAt(x)) = 0 /\ BlockAt(BlockAt(x)) = BlockAt(x)
  <1>1. PICK a \in Nat \ {0} : a = kBlockSize
    BY BlockSize
  <1>2. PICK d, m : d = x \div a /\ m = x % a
    OBVIOUS
  <1>3. d \in Nat /\ m \in 0..(a - 1) /\ d * a \in Nat /\ x = d * a + m
    BY <1>2, Divided
  <1>4. PICK f \in Nat : f = d * a
    BY <1>3
  <1>5. BlockAt(x) = f
    BY <1>1, <1>2, <1>3, <1>4 DEF InBlock, BlockAt
  <1>6. PICK e, k : e = f \div a /\ k = f % a
    OBVIOUS
  <1>7. \A q \in Nat, r \in 0..(a - 1) : f = q * a + r => e = q /\ k = r
    BY <1>6, Divided
  <1>8. f = d * a + 0 /\ 0 \in 0..(a - 1)
    BY <1>4
  <1>9. k = 0
    BY <1>3, <1>7, <1>8
  <1> QED
    BY <1>1, <1>5, <1>6, <1>9 DEF InBlock, BlockAt

\* What lies between the ends of a block is in it.
LEMMA InSameBlock ==
  ASSUME NEW x \in Nat, NEW y \in Nat, BlockAt(x) <= y, y < BlockAt(x) + kBlockSize
  PROVE  BlockAt(y) = BlockAt(x)
  <1>1. PICK s \in Nat : s = BlockAt(x)
    BY Places
  <1>2. InBlock(s) = 0 /\ BlockAt(s) = s
    BY <1>1, BlockBegins
  <1>3. PICK n \in Nat : y = s + n /\ n < kBlockSize
    <2>1. y - s \in Nat /\ y = s + (y - s) /\ y - s < kBlockSize
      BY <1>1, BlockSize
    <2> QED
      BY <2>1
  <1>4. BlockAt(s + n) = BlockAt(s)
    <2>1. InBlock(s) + n < kBlockSize
      BY <1>2, <1>3
    <2> QED
      BY <2>1, Onwards
  <1> QED
    BY <1>1, <1>2, <1>3, <1>4

\* The blocks of two places are the same or apart.
LEMMA BlocksOrdered ==
  ASSUME NEW x \in Nat, NEW y \in Nat
  PROVE  /\ x <= y => BlockAt(x) <= BlockAt(y)
         /\ BlockAt(x) < BlockAt(y) => BlockAt(x) + kBlockSize <= BlockAt(y)
         /\ x \div kBlockSize < y \div kBlockSize => x < BlockAt(y)
         /\ x \div kBlockSize > y \div kBlockSize => x >= BlockAt(y) + kBlockSize
  <1>1. PICK a \in Nat \ {0} : a = kBlockSize
    BY BlockSize
  <1>2. ASSUME NEW u \in Nat, NEW v \in Nat
        PROVE  /\ u <= v => BlockAt(u) <= BlockAt(v)
               /\ BlockAt(u) < BlockAt(v) => BlockAt(u) + kBlockSize <= BlockAt(v)
               /\ u \div kBlockSize < v \div kBlockSize => BlockAt(u) + kBlockSize <= BlockAt(v)
    <2>1. PICK s \in Nat, t \in Nat : s = BlockAt(u) /\ t = BlockAt(v)
      BY Places
    <2>2. u < s + a /\ v < t + a /\ s <= u /\ t <= v
      BY <1>1, <2>1, Places
    <2>3. s <= t /\ t < s + a => s = t
      BY <1>1, <2>1, InSameBlock, BlockBegins
    <2>4. t <= s /\ s < t + a => s = t
      BY <1>1, <2>1, InSameBlock, BlockBegins
    <2>5. /\ u <= v => s <= t
          /\ s < t => s + a <= t
      BY <2>2, <2>3, <2>4
    <2>6. PICK d \in Nat, e \in Nat : d = u \div a /\ e = v \div a
      BY Divided
    <2>7. s = d * a /\ t = e * a
      BY <1>1, <2>1, <2>6, Places
    <2>8. ASSUME d < e PROVE s + a <= t
      <3>1. PICK j \in Nat : e = (d + 1) + j
        <4>1. e - (d + 1) \in Nat /\ e = (d + 1) + (e - (d + 1))
          BY <2>8
        <4> QED
          BY <4>1
      <3>2. e * a = (d + 1) * a + j * a
        BY <3>1
      <3>3. (d + 1) * a = d * a + a
        OBVIOUS
      <3>4. j * a \in Nat
        BY Multiple
      <3> QED
        BY <2>7, <3>2, <3>3, <3>4
    <2> QED
      BY <1>1, <2>1, <2>5, <2>6, <2>8
  <1>3. PICK s \in Nat, t \in Nat : s = BlockAt(x) /\ t = BlockAt(y)
    BY Places
  <1>4. x < s + a /\ y < t + a /\ s <= x /\ t <= y
    BY <1>1, <1>3, Places
  <1>5. /\ x \div kBlockSize < y \div kBlockSize => s + a <= t
        /\ y \div kBlockSize < x \div kBlockSize => t + a <= s
    BY <1>1, <1>2, <1>3
  <1>6. x \div kBlockSize \in Nat /\ y \div kBlockSize \in Nat
    BY <1>1, Divided
  <1>7. /\ x \div kBlockSize < y \div kBlockSize => x < t
        /\ x \div kBlockSize > y \div kBlockSize => x >= t + a
    BY <1>4, <1>5, <1>6
  <1> QED
    BY <1>1, <1>2, <1>3, <1>7

-----------------------------------------------------------------------------
(* Where a record ends.                                                    *)

\* The naturals are well founded under <.
LEMMA NatLess == IsWellFoundedOn({p \in Nat \X Nat : p[1] < p[2]}, Nat)
  BY NatLessThanWellFounded DEF OpToRel

\* Every nonempty set of naturals has a least element.
LEMMA LeastNatural ==
  ASSUME NEW T \in SUBSET Nat, T # {}
  PROVE  \E m \in T : \A y \in T : m <= y
  <1> DEFINE R == {p \in Nat \X Nat : p[1] < p[2]}
  <1>1. PICK m \in T : \A y \in T : ~(<<y, m>> \in R)
    <2>1. IsWellFoundedOn(R, Nat)
      BY NatLess
    <2> HIDE DEF R
    <2> QED
      BY <2>1, WFMin
  <1>2. ASSUME NEW y \in T PROVE m <= y
    <2>1. ~(y < m)
      BY <1>1
    <2>2. y \in Nat /\ m \in Nat
      OBVIOUS
    <2> QED
      BY <2>1, <2>2
  <1> QED
    BY <1>2

\* Extent is the function its definition says: there is one, that counts the
\* blocks that are filled.
LEMMA ExtentUnfolds ==
  ASSUME NEW n \in Nat
  PROVE  Extent[n] = IF n <= kBlockSize - 7 THEN 7 + n
                     ELSE kBlockSize + Extent[n - (kBlockSize - 7)]
  <1> DEFINE c == kBlockSize - 7
             Body(f, k) == IF k <= c THEN 7 + k ELSE kBlockSize + f[k - c]
             g == [k \in Nat |-> IF k = 0 THEN 7
                                 ELSE ((k - 1) \div c) * kBlockSize + 8 + ((k - 1) % c)]
  <1>1. Extent = CHOOSE f : f = [k \in Nat |-> Body(f, k)]
    BY DEF Extent
  <1>2. c \in Nat \ {0} /\ kBlockSize \in Nat
    BY BlockSize
  <1> HIDE DEF c
  <1>3. ASSUME NEW k \in Nat PROVE g[k] = Body(g, k)
    <2>1. CASE k = 0
      BY <1>2, <2>1
    <2>2. CASE k >= 1 /\ k <= c
      <3>1. PICK j \in 0..(c - 1) : j = k - 1
        BY <1>2, <2>2
      <3>2. PICK d, m : d = j \div c /\ m = j % c
        OBVIOUS
      <3>3. j = 0 * c + j /\ 0 \in Nat /\ j \in Nat
        BY <1>2
      <3>4. d = 0 /\ m = j
        BY <1>2, <3>2, <3>3, Divided
      <3>5. g[k] = d * kBlockSize + 8 + m
        BY <2>2, <3>1, <3>2
      <3>6. 0 * kBlockSize = 0
        BY <1>2
      <3>7. g[k] = 8 + (k - 1)
        BY <3>1, <3>3, <3>4, <3>5, <3>6
      <3> QED
        BY <2>2, <3>7
    <2>3. CASE k > c
      <3>1. PICK i \in Nat \ {0} : i = k - c
        BY <1>2, <2>3
      <3>2. PICK j \in Nat : j = i - 1 /\ k - 1 = j + c
        BY <1>2, <3>1
      <3>3. PICK d, m : d = j \div c /\ m = j % c
        OBVIOUS
      <3>0. PICK x \in Nat : x = j + c
        BY <1>2
      <3>4. PICK e, l : e = x \div c /\ l = x % c
        OBVIOUS
      <3>5. d \in Nat /\ m \in 0..(c - 1) /\ d * c \in Nat /\ j = d * c + m
        BY <1>2, <3>3, Divided
      <3>6. (d + 1) * c = d * c + c
        BY <1>2, <3>5
      <3>7. x = (d + 1) * c + m /\ d + 1 \in Nat
        BY <1>2, <3>0, <3>5, <3>6
      <3>14. \A q \in Nat, r \in 0..(c - 1) : x = q * c + r => e = q /\ l = r
        BY <1>2, <3>4, Divided
      <3>8. e = d + 1 /\ l = m
        BY <3>5, <3>7, <3>14
      <3>9. (d + 1) * kBlockSize = d * kBlockSize + kBlockSize
        BY <1>2, <3>5
      <3>10. PICK z \in Nat : z = d * kBlockSize
        BY <1>2, <3>5, Multiple
      <3>11. g[i] = z + 8 + m
        BY <3>1, <3>2, <3>3, <3>10
      <3>12. g[k] = e * kBlockSize + 8 + l
        BY <1>2, <2>3, <3>0, <3>2, <3>4
      <3>13. g[k] = kBlockSize + g[i]
        BY <1>2, <3>5, <3>8, <3>9, <3>10, <3>11, <3>12
      <3> QED
        BY <1>2, <2>3, <3>1, <3>13
    <2> QED
      BY <1>2, <2>1, <2>2, <2>3
  <1>4. g = [k \in Nat |-> Body(g, k)]
    <2> DEFINE h == [k \in Nat |-> Body(g, k)]
    <2>1. \A k \in Nat : g[k] = h[k]
      BY <1>3
    <2> QED
      BY <2>1
  <1> HIDE DEF g
  <1>5. Extent = [k \in Nat |-> Body(Extent, k)]
    BY <1>1, <1>4, Zenon
  <1> QED
    BY <1>5 DEF c

LEMMA ExtentLong ==
  ASSUME NEW n \in Nat
  PROVE  Extent[n] \in Nat /\ Extent[n] >= 7
  <1> DEFINE T == {k \in Nat : ~(Extent[k] \in Nat /\ Extent[k] >= 7)}
  <1>1. T = {}
    <2> SUFFICES ASSUME T # {} PROVE FALSE
      OBVIOUS
    <2>1. PICK k \in T : \A y \in T : k <= y
      BY LeastNatural
    <2>2. CASE k <= kBlockSize - 7
      BY <2>2, ExtentUnfolds, BlockSize
    <2>3. CASE ~(k <= kBlockSize - 7)
      <3>1. PICK j \in Nat : j = k - (kBlockSize - 7) /\ j < k
        BY <2>3, BlockSize
      <3>2. Extent[j] \in Nat /\ Extent[j] >= 7
        BY <2>1, <3>1
      <3>3. Extent[k] = kBlockSize + Extent[j]
        BY <2>3, <3>1, ExtentUnfolds
      <3> QED
        BY <3>2, <3>3, BlockSize
    <2> QED
      BY <2>2, <2>3
  <1> QED
    BY <1>1

\* A record put at a place takes up what is left of the block, and then is as
\* if the rest of it had been put at the start of the next one.
LEMMA ReachFacts ==
  ASSUME NEW at \in Nat, NEW n \in Nat,
         NEW room, room = kBlockSize - InBlock(at) - 7
  PROVE  /\ Reach(at, n) \in Nat /\ Reach(at, n) >= at + 7
         /\ room < 0 => Reach(at, n) = Reach(BlockAt(at) + kBlockSize, n)
         /\ room >= 0 /\ n <= room => Reach(at, n) = at + 7 + n
         /\ \A k \in Nat \ {0} : room >= 0 /\ n = room + k =>
              Reach(at, n) = Reach(BlockAt(at) + kBlockSize, k)
  <1>2. PICK b \in Nat : b = kBlockSize /\ b >= 8
    BY BlockSize
  <1>1. PICK s \in Nat, m \in 0..(b - 1) :
          s = BlockAt(at) /\ m = InBlock(at) /\ at = s + m
    <2>1. BlockAt(at) \in Nat /\ InBlock(at) \in 0..(b - 1) /\ at = BlockAt(at) + InBlock(at)
      BY <1>2, Places
    <2> QED
      BY <2>1
  <1>11. at = s + m
    BY <1>1
  <1>3. PICK next \in Nat : next = s + b
    OBVIOUS
  <1>12. room = b - m - 7
    BY <1>1, <1>2
  <1>4. InBlock(next) = 0
    <2>1. next = at + (b - m) /\ b - m \in Nat /\ m + (b - m) = b
      BY <1>11, <1>3
    <2>2. InBlock(at) + (b - m) = kBlockSize
      BY <1>1, <1>2, <2>1
    <2> QED
      BY <2>1, <2>2, Onwards
  <1>5. ASSUME NEW k \in Nat
        PROVE  Reach(next, k) = next + Extent[k]
    <2>1. next % kBlockSize = 0
      BY <1>4 DEF InBlock
    <2>2. Reach(next, k) = IF b - 0 - 7 < 0 THEN next + b - 0 + Extent[k]
                           ELSE IF k <= b - 0 - 7 THEN next + 7 + k
                           ELSE next + b - 0 + Extent[k - (b - 0 - 7)]
      BY <1>2, <2>1 DEF Reach
    <2>3. CASE k <= b - 7
      <3>1. Extent[k] = 7 + k
        BY <1>2, <2>3, ExtentUnfolds
      <3> QED
        BY <1>2, <2>2, <2>3, <3>1
    <2>4. CASE ~(k <= b - 7)
      <3>1. PICK j \in Nat : j = k - (b - 7) /\ j = k - (b - 0 - 7)
        BY <1>2, <2>4
      <3>2. Extent[k] = b + Extent[j]
        BY <1>2, <2>4, <3>1, ExtentUnfolds
      <3>3. Extent[j] \in Nat
        BY ExtentLong
      <3> QED
        BY <1>2, <2>2, <2>4, <3>1, <3>2, <3>3
    <2> QED
      BY <2>3, <2>4
  <1>6. Reach(at, n) = IF room < 0 THEN next + Extent[n]
                       ELSE IF n <= room THEN at + 7 + n
                       ELSE next + Extent[n - room]
    <2>1. at % kBlockSize = m
      BY <1>1 DEF InBlock
    <2>2. next = at + b - m
      BY <1>11, <1>3
    <2> QED
      BY <1>2, <1>12, <2>1, <2>2 DEF Reach
  <1>7. room \in Int /\ (room >= 0 => next >= at + 7) /\ next >= at
    BY <1>11, <1>3, <1>12
  <1>13. BlockAt(at) + kBlockSize = next
    BY <1>1, <1>2, <1>3
  <1>8. CASE room < 0
    <2>1. Extent[n] \in Nat /\ Extent[n] >= 7
      BY ExtentLong
    <2>2. Reach(at, n) = next + Extent[n]
      BY <1>6, <1>8
    <2>3. Reach(at, n) = Reach(next, n)
      BY <1>5, <2>2
    <2> QED
      BY <1>7, <1>8, <1>13, <2>1, <2>2, <2>3
  <1>9. CASE room >= 0 /\ n <= room
    BY <1>6, <1>7, <1>9
  <1>10. ASSUME NEW k \in Nat \ {0}, room >= 0, n = room + k
         PROVE  /\ Reach(at, n) >= at + 7 /\ Reach(at, n) \in Nat
                /\ Reach(at, n) = Reach(BlockAt(at) + kBlockSize, k)
    <2>1. k = n - room /\ ~(n <= room)
      BY <1>7, <1>10
    <2>2. Extent[k] \in Nat /\ Extent[k] >= 7
      BY ExtentLong
    <2>3. Reach(at, n) = next + Extent[k]
      BY <1>6, <1>7, <1>10, <2>1
    <2>4. Reach(at, n) = Reach(next, k)
      BY <1>5, <2>3
    <2> QED
      BY <1>7, <1>10, <1>13, <2>1, <2>2, <2>3, <2>4
  <1>14. \/ room < 0 \/ (room >= 0 /\ n <= room)
         \/ \E k \in Nat \ {0} : room >= 0 /\ n = room + k
    <2>1. ASSUME room >= 0, n > room
          PROVE  n - room \in Nat \ {0} /\ n = room + (n - room)
      BY <1>7, <2>1
    <2> QED
      BY <1>7, <2>1
  <1>15. Reach(at, n) \in Nat /\ Reach(at, n) >= at + 7
    BY <1>8, <1>9, <1>10, <1>14
  <1> QED
    BY <1>7, <1>8, <1>9, <1>10, <1>15

-----------------------------------------------------------------------------
(***************************************************************************)
(* A file to which every append has succeeded.                             *)
(***************************************************************************)

\* The offset behind the fragment of the header at p
Behind(w, p) == p + 6 + w[p][4]

\* Where the writer goes on from there: in the next block, if what is left of
\* this one is too short for a header
Onward(e) == IF InBlock(e) + 7 > kBlockSize THEN BlockAt(e) + kBlockSize ELSE e

\* The header c comes next after the header b
Follows(b, c) ==
  IF b[3] \in {kFirstType, kMiddleType}
  THEN c[2] = b[2] /\ c[3] \in {kMiddleType, kLastType}
  ELSE c[3] \in {kFullType, kFirstType}

\* Every block begins with a header, no fragment goes beyond its block or into
\* the next one, and where the writer goes on there is a header
Tiled(w) ==
  /\ \A x \in Nat : x < Len(w) /\ InBlock(x) = 0 => x + 1 \in Heads(w)
  /\ \A p \in Heads(w) : InBlock(p - 1) + 7 + w[p][4] <= kBlockSize
  /\ \A p \in Heads(w), q \in Heads(w) : p < q => Behind(w, p) < q
  /\ \A p \in Heads(w) : Onward(Behind(w, p)) < Len(w) => Onward(Behind(w, p)) + 1 \in Heads(w)

\* A record's fragments are next to each other, and all but the last one fill
\* their blocks
Linked(w) ==
  /\ \A p \in Heads(w), q \in Heads(w) :
       q = Onward(Behind(w, p)) + 1 => Follows(w[p], w[q])
  /\ \A p \in Heads(w) :
       w[p][3] \in {kFirstType, kMiddleType} => InBlock(Behind(w, p)) = 0
  /\ 1 \in Heads(w) => w[1][3] \in {kFullType, kFirstType}

\* The bytes of a fragment are what its header says
Truthful(w) ==
  \A p \in Heads(w) :
    /\ \A i \in 2..7 : p + i - 1 <= Len(w) =>
         w[p + i - 1] = <<"h", w[p][2], w[p][5], i, 0>>
    /\ \A i \in 1..w[p][4] : p + 6 + i <= Len(w) =>
         w[p + 6 + i] = PayloadByte(w[p][2], w[p][5] + i)

\* A record begins where start says and ends where Reach says
Placed(w, sizes, starts) ==
  /\ \A id \in 1..Len(sizes) : starts[id] < Len(w) =>
       /\ starts[id] + 1 \in Heads(w)
       /\ w[starts[id] + 1][2] = id
       /\ w[starts[id] + 1][3] \in {kFullType, kFirstType}
  /\ \A p \in Heads(w) :
       /\ starts[w[p][2]] <= p - 1
       /\ Behind(w, p) <= Reach(starts[w[p][2]], sizes[w[p][2]])
       /\ w[p][3] \in {kFullType, kLastType} =>
            Behind(w, p) = Reach(starts[w[p][2]], sizes[w[p][2]])
       /\ w[p][3] \in {kFirstType, kMiddleType} =>
            Behind(w, p) < Reach(starts[w[p][2]], sizes[w[p][2]])

Dense(w, sizes, starts) ==
  Tiled(w) /\ Linked(w) /\ Truthful(w) /\ Placed(w, sizes, starts)

\* The last fragment ends at the end of the file
Ended(w) ==
  \A p \in Heads(w) :
    /\ Behind(w, p) <= Len(w)
    /\ Behind(w, p) = Len(w) \/ Onward(Behind(w, p)) < Len(w)

LEMMA HeadFacts ==
  ASSUME NEW w \in Seq(Bytes), NEW p \in Heads(w)
  PROVE  /\ p \in Nat /\ p >= 1 /\ p <= Len(w) /\ p - 1 \in Nat /\ w[p] \in Bytes
         /\ w[p][2] \in Nat /\ w[p][3] \in Nat /\ w[p][4] \in Nat /\ w[p][5] \in Nat
         /\ Behind(w, p) \in Nat /\ Behind(w, p) >= p + 6 /\ w[p][1] = "H"
  <1>1. p \in 1..Len(w) /\ w[p][1] = "H" /\ Len(w) \in Nat
    BY DEF Heads
  <1>2. w[p] \in Bytes
    BY <1>1
  <1>3. w[p][2] \in Nat /\ w[p][3] \in Nat /\ w[p][4] \in Nat /\ w[p][5] \in Nat
    BY <1>2, ByteFacts
  <1> QED
    BY <1>1, <1>2, <1>3 DEF Behind

LEMMA OnwardFacts ==
  ASSUME NEW e \in Nat
  PROVE  /\ Onward(e) \in Nat /\ Onward(e) >= e
         /\ InBlock(e) + 7 <= kBlockSize => Onward(e) = e
         /\ InBlock(e) = 0 => Onward(e) = e
         /\ InBlock(Onward(e)) + 7 <= kBlockSize
         /\ \A x \in Nat : e <= x /\ x < Onward(e) => InBlock(x) # 0
  <1>1. PICK b \in Nat : b = kBlockSize /\ b >= 8
    BY BlockSize
  <1>2. /\ BlockAt(e) \in Nat /\ InBlock(e) \in 0..(b - 1) /\ e = BlockAt(e) + InBlock(e)
    BY <1>1, Places
  <1>3. PICK s \in Nat, m \in 0..(b - 1) : s = BlockAt(e) /\ m = InBlock(e)
    BY <1>2
  <1>4. e = s + m
    BY <1>2, <1>3
  <1>5. Onward(e) = IF m + 7 > b THEN s + b ELSE e
    BY <1>1, <1>3 DEF Onward
  <1>6. CASE m + 7 <= b
    BY <1>1, <1>3, <1>4, <1>5, <1>6
  <1>7. CASE m + 7 > b
    <2>1. PICK y \in Nat : y = s + b
      OBVIOUS
    <2>2. y = e + (b - m) /\ b - m \in Nat /\ m + (b - m) = b
      BY <1>4, <2>1
    <2>3. InBlock(e) + (b - m) = kBlockSize
      BY <1>1, <1>3, <2>2
    <2>4. InBlock(y) = 0
      BY <2>2, <2>3, Onwards
    <2>5. ASSUME NEW x \in Nat, e <= x, x < y PROVE InBlock(x) # 0
      <3>1. PICK d \in Nat : x = e + d /\ m + d < b
        <4>1. x - e \in Nat /\ x = e + (x - e) /\ m + (x - e) < b
          BY <1>4, <2>1, <2>5
        <4> QED
          BY <4>1
      <3>2. InBlock(e) + d < kBlockSize
        BY <1>1, <1>3, <3>1
      <3>3. InBlock(x) = InBlock(e) + d
        BY <3>1, <3>2, Onwards
      <3>4. m >= 1
        BY <1>1, <1>7
      <3> QED
        BY <1>3, <3>3, <3>4
    <2>6. Onward(e) = y /\ y >= e
      BY <1>4, <1>5, <1>7, <2>1
    <2> QED
      BY <1>1, <1>3, <1>7, <2>4, <2>5, <2>6
  <1> QED
    BY <1>6, <1>7

\* What is left of such a file when its end is cut off.
LEMMA DensePart ==
  ASSUME NEW w \in Seq(Bytes), NEW v \in Seq(Bytes), NEW sizes, NEW starts \in Seq(Nat),
         Len(v) <= Len(w), \A i \in 1..Len(v) : v[i] = w[i],
         Len(starts) = Len(sizes), HeadersSound(w, sizes, starts),
         Dense(w, sizes, starts)
  PROVE  Dense(v, sizes, starts)
  <1>1. Len(v) \in Nat /\ Len(w) \in Nat
    OBVIOUS
  <1>2. \A p : p \in Heads(v) <=> p \in Heads(w) /\ p <= Len(v)
    BY <1>1 DEF Heads
  <1>3. ASSUME NEW p \in Heads(v)
        PROVE  p \in Heads(w) /\ v[p] = w[p] /\ Behind(v, p) = Behind(w, p) /\ Behind(w, p) \in Nat
    <2>1. p \in Heads(w) /\ v[p] = w[p]
      BY <1>2 DEF Heads
    <2> QED
      BY <2>1, HeadFacts DEF Behind
  <1>4. Tiled(v)
    <2>1. ASSUME NEW x \in Nat, x < Len(v), InBlock(x) = 0 PROVE x + 1 \in Heads(v)
      BY <1>1, <1>2, <2>1 DEF Dense, Tiled
    <2>2. ASSUME NEW p \in Heads(v) PROVE InBlock(p - 1) + 7 + v[p][4] <= kBlockSize
      BY <1>3 DEF Dense, Tiled
    <2>3. ASSUME NEW p \in Heads(v), NEW q \in Heads(v), p < q PROVE Behind(v, p) < q
      BY <1>3, <2>3 DEF Dense, Tiled
    <2>4. ASSUME NEW p \in Heads(v), Onward(Behind(v, p)) < Len(v)
          PROVE  Onward(Behind(v, p)) + 1 \in Heads(v)
      <3>1. PICK x \in Nat : x = Onward(Behind(v, p))
        BY <1>3, OnwardFacts
      <3>2. x = Onward(Behind(w, p)) /\ x < Len(w) /\ x + 1 <= Len(v)
        BY <1>1, <1>3, <2>4, <3>1
      <3> QED
        BY <1>2, <1>3, <3>1, <3>2 DEF Dense, Tiled
    <2> QED
      BY <2>1, <2>2, <2>3, <2>4 DEF Tiled
  <1>5. Linked(v)
    <2>1. ASSUME NEW p \in Heads(v), NEW q \in Heads(v), q = Onward(Behind(v, p)) + 1
          PROVE  Follows(v[p], v[q])
      BY <1>3, <2>1, Zenon DEF Dense, Linked
    <2>2. ASSUME NEW p \in Heads(v), v[p][3] \in {kFirstType, kMiddleType}
          PROVE  InBlock(Behind(v, p)) = 0
      BY <1>3, <2>2 DEF Dense, Linked
    <2>3. 1 \in Heads(v) => v[1][3] \in {kFullType, kFirstType}
      BY <1>3 DEF Dense, Linked
    <2> QED
      BY <2>1, <2>2, <2>3, Zenon DEF Linked
  <1>6. Truthful(v)
    <2> SUFFICES ASSUME NEW p \in Heads(v)
                 PROVE  /\ \A i \in 2..7 : p + i - 1 <= Len(v) =>
                             v[p + i - 1] = <<"h", v[p][2], v[p][5], i, 0>>
                        /\ \A i \in 1..v[p][4] : p + 6 + i <= Len(v) =>
                             v[p + 6 + i] = PayloadByte(v[p][2], v[p][5] + i)
      BY Zenon DEF Truthful
    <2>1. p \in Heads(w) /\ v[p] = w[p] /\ p \in Nat /\ p >= 1 /\ w[p][4] \in Nat
      BY <1>3, HeadFacts
    <2>2. ASSUME NEW i \in 2..7, p + i - 1 <= Len(v)
          PROVE  v[p + i - 1] = <<"h", v[p][2], v[p][5], i, 0>>
      <3>1. p + i - 1 \in 1..Len(v) /\ p + i - 1 <= Len(w)
        BY <1>1, <2>1, <2>2
      <3>2. w[p + i - 1] = <<"h", w[p][2], w[p][5], i, 0>>
        BY <2>1, <3>1 DEF Dense, Truthful
      <3> QED
        BY <2>1, <3>1, <3>2
    <2>3. ASSUME NEW i \in 1..v[p][4], p + 6 + i <= Len(v)
          PROVE  v[p + 6 + i] = PayloadByte(v[p][2], v[p][5] + i)
      <3>1. p + 6 + i \in 1..Len(v) /\ p + 6 + i <= Len(w) /\ i \in 1..w[p][4]
        BY <1>1, <2>1, <2>3
      <3>2. w[p + 6 + i] = PayloadByte(w[p][2], w[p][5] + i)
        BY <2>1, <3>1 DEF Dense, Truthful
      <3> QED
        BY <2>1, <3>1, <3>2
    <2> QED
      BY <2>2, <2>3
  <1>7. Placed(v, sizes, starts)
    <2>1. ASSUME NEW id \in 1..Len(sizes), starts[id] < Len(v)
          PROVE  /\ starts[id] + 1 \in Heads(v)
                 /\ v[starts[id] + 1][2] = id
                 /\ v[starts[id] + 1][3] \in {kFullType, kFirstType}
      <3>1. PICK x \in Nat : x = starts[id]
        OBVIOUS
      <3>2. x < Len(w) /\ x + 1 <= Len(v)
        BY <1>1, <2>1, <3>1
      <3>3. x + 1 \in Heads(w) /\ w[x + 1][2] = id /\ w[x + 1][3] \in {kFullType, kFirstType}
        BY <3>1, <3>2 DEF Dense, Placed
      <3>4. x + 1 \in Heads(v)
        BY <1>2, <3>2, <3>3
      <3> QED
        BY <1>3, <3>1, <3>3, <3>4
    <2>2. ASSUME NEW p \in Heads(v)
          PROVE  /\ starts[v[p][2]] <= p - 1
                 /\ Behind(v, p) <= Reach(starts[v[p][2]], sizes[v[p][2]])
                 /\ v[p][3] \in {kFullType, kLastType} =>
                      Behind(v, p) = Reach(starts[v[p][2]], sizes[v[p][2]])
                 /\ v[p][3] \in {kFirstType, kMiddleType} =>
                      Behind(v, p) < Reach(starts[v[p][2]], sizes[v[p][2]])
      BY <1>3, Zenon DEF Dense, Placed
    <2> QED
      BY <2>1, <2>2, Zenon DEF Placed
  <1> QED
    BY <1>4, <1>5, <1>6, <1>7 DEF Dense

\* v is w with a trailer up to the offset at and a fragment of n bytes there
Extended(w, v, at, id, type, n, base) ==
  /\ Len(w) <= at /\ at = Onward(Len(w)) /\ Len(v) = at + 7 + n
  /\ Heads(v) = Heads(w) \cup {at + 1}
  /\ \A i \in 1..Len(w) : v[i] = w[i]
  /\ v[at + 1] = HeadByte(id, type, n, base)
  /\ \A i \in 2..7 : v[at + i] = <<"h", id, base, i, 0>>
  /\ \A i \in 1..n : v[at + 7 + i] = PayloadByte(id, base + i)

\* The tiling goes on.
LEMMA FragmentTiles ==
  ASSUME NEW w \in Seq(Bytes), NEW v \in Seq(Bytes), Tiled(w), Ended(w),
         NEW at \in Nat, NEW id \in Nat, NEW type \in Nat, NEW n \in Nat, NEW base \in Nat,
         Extended(w, v, at, id, type, n, base),
         InBlock(at) + 7 + n <= kBlockSize
  PROVE  Tiled(v) /\ Ended(v)
  <1>1. PICK l \in Nat, m \in Nat : l = Len(w) /\ m = Len(v) /\ l <= at /\ m = at + 7 + n
    BY DEF Extended
  <1>2. /\ \A p \in Heads(w) : p \in Heads(v) /\ v[p] = w[p] /\ Behind(v, p) = Behind(w, p)
        /\ at + 1 \in Heads(v) /\ v[at + 1][4] = n /\ Behind(v, at + 1) = m
        /\ at = Onward(l)
    <2>1. ASSUME NEW p \in Heads(w)
          PROVE  p \in Heads(v) /\ v[p] = w[p] /\ Behind(v, p) = Behind(w, p)
      <3>1. p \in 1..Len(w) /\ p \in Heads(v)
        BY DEF Heads, Extended
      <3> QED
        BY <3>1 DEF Extended, Behind
    <2>2. at + 1 \in Heads(v) /\ v[at + 1][4] = n /\ at = Onward(l)
      BY <1>1 DEF Extended, HeadByte
    <2>3. Behind(v, at + 1) = m
      BY <1>1, <2>2 DEF Behind
    <2> QED
      BY <2>1, <2>2, <2>3
  <1>3. \A p \in Heads(v) : p \in Heads(w) \/ p = at + 1
    BY DEF Extended
  <1>4. \A p \in Heads(w) : /\ p \in Nat /\ p >= 1 /\ p <= l /\ p - 1 \in Nat
                            /\ Behind(w, p) \in Nat
                            /\ Behind(w, p) <= l
                            /\ Behind(w, p) = l \/ Onward(Behind(w, p)) < l
    BY <1>1, HeadFacts DEF Ended
  <1>5. ASSUME NEW x \in Nat, x < m, InBlock(x) = 0
        PROVE  x + 1 \in Heads(v)
    <2>1. CASE x < l
      BY <1>1, <1>2, <1>5, <2>1 DEF Tiled
    <2>2. CASE l <= x /\ x < at
      BY <1>1, <1>2, <1>5, <2>2, OnwardFacts
    <2>3. CASE x = at
      BY <1>2, <2>3
    <2>4. CASE x > at
      <3>1. PICK d \in Nat : x = at + d /\ d >= 1 /\ d < 7 + n
        <4>1. x - at \in Nat /\ x = at + (x - at) /\ x - at >= 1 /\ x - at < 7 + n
          BY <1>1, <1>5, <2>4
        <4> QED
          BY <4>1
      <3>2. PICK b \in Nat, o \in Nat : b = kBlockSize /\ o = InBlock(at) /\ o + 7 + n <= b
        <4>1. kBlockSize \in Nat
          BY BlockSize
        <4>2. InBlock(at) \in 0..(kBlockSize - 1)
          BY Places
        <4>3. InBlock(at) \in Nat
          BY <4>1, <4>2
        <4> QED
          BY <4>1, <4>3
      <3>3. o + d < b
        BY <3>1, <3>2
      <3>4. InBlock(at + d) = o + d
        BY <3>2, <3>3, Onwards
      <3> QED
        BY <1>5, <3>1, <3>2, <3>4
    <2> QED
      BY <1>1, <2>1, <2>2, <2>3, <2>4
  <1>6. ASSUME NEW p \in Heads(v)
        PROVE  InBlock(p - 1) + 7 + v[p][4] <= kBlockSize
    <2>1. CASE p \in Heads(w)
      BY <1>2, <2>1 DEF Tiled
    <2>2. CASE p = at + 1
      <3>1. p - 1 = at
        BY <2>2
      <3> QED
        BY <1>2, <2>2, <3>1
    <2> QED
      BY <1>3, <2>1, <2>2
  <1>7. ASSUME NEW p \in Heads(v), NEW q \in Heads(v), p < q
        PROVE  Behind(v, p) < q
    <2>1. p \in Heads(w)
      <3>1. p = at + 1 => q <= p
        BY <1>1, <1>3, <1>4
      <3> QED
        BY <1>1, <1>3, <1>4, <1>7, <3>1
    <2>2. CASE q \in Heads(w)
      BY <1>2, <1>7, <2>1, <2>2 DEF Tiled
    <2>3. CASE q = at + 1
      <3>1. PICK e \in Nat : e = Behind(v, p) /\ e <= l
        BY <1>2, <1>4, <2>1
      <3> QED
        BY <1>1, <2>3, <3>1
    <2> QED
      BY <1>3, <2>2, <2>3
  <1>8. ASSUME NEW p \in Heads(w)
        PROVE  /\ Onward(Behind(v, p)) + 1 \in Heads(v)
               /\ Onward(Behind(v, p)) < m /\ Behind(v, p) <= m
    <2>1. CASE Behind(w, p) = l
      BY <1>1, <1>2, <2>1
    <2>2. CASE Onward(Behind(w, p)) < l
      <3>1. Onward(Behind(w, p)) + 1 \in Heads(w)
        BY <1>1, <2>2 DEF Tiled
      <3>2. Onward(Behind(w, p)) \in Nat
        BY <1>4, OnwardFacts
      <3>3. PICK x \in Nat : x = Onward(Behind(v, p)) /\ x < l
        BY <1>2, <2>2, <3>2
      <3>4. x + 1 \in Heads(v) /\ x < m
        BY <1>1, <1>2, <3>1, <3>3
      <3>5. PICK e \in Nat : e = Behind(v, p) /\ e <= l
        BY <1>2, <1>4
      <3>6. e <= m
        BY <1>1, <3>5
      <3> QED
        BY <3>3, <3>4, <3>5, <3>6
    <2> QED
      BY <1>4, <2>1, <2>2
  <1>9. m <= Onward(m) /\ Onward(m) \in Nat
    BY OnwardFacts
  <1>10. Tiled(v)
    <2>1. ASSUME NEW p \in Heads(v), Onward(Behind(v, p)) < m
          PROVE  Onward(Behind(v, p)) + 1 \in Heads(v)
      <3>1. p # at + 1
        BY <1>2, <1>9, <2>1
      <3> QED
        BY <1>3, <1>8, <3>1
    <2> QED
      BY <1>1, <1>5, <1>6, <1>7, <2>1, Zenon DEF Tiled
  <1>11. Ended(v)
    <2>1. ASSUME NEW p \in Heads(v)
          PROVE  Behind(v, p) <= m /\ (Behind(v, p) = m \/ Onward(Behind(v, p)) < m)
      BY <1>1, <1>2, <1>3, <1>8
    <2> QED
      BY <1>1, <2>1 DEF Ended
  <1> QED
    BY <1>10, <1>11

\* So do the links, if the fragment follows the last one.
LEMMA FragmentLinks ==
  ASSUME NEW w \in Seq(Bytes), NEW v \in Seq(Bytes), Linked(w), Ended(w),
         NEW at \in Nat, NEW id \in Nat, NEW type \in Nat, NEW n \in Nat, NEW base \in Nat,
         Extended(w, v, at, id, type, n, base),
         \A p \in Heads(w) : Behind(w, p) = Len(w) => Follows(w[p], v[at + 1]),
         type \in {kFirstType, kMiddleType} => InBlock(at + 7 + n) = 0,
         at = 0 => type \in {kFullType, kFirstType}
  PROVE  Linked(v)
  <1>1. PICK l \in Nat, m \in Nat : l = Len(w) /\ m = Len(v) /\ l <= at /\ m = at + 7 + n
    BY DEF Extended
  <1>2. /\ \A p \in Heads(w) : v[p] = w[p] /\ Behind(v, p) = Behind(w, p)
        /\ v[at + 1][3] = type /\ Behind(v, at + 1) = m
        /\ at = Onward(l)
    <2>1. ASSUME NEW p \in Heads(w)
          PROVE  v[p] = w[p] /\ Behind(v, p) = Behind(w, p)
      <3>1. p \in 1..Len(w)
        BY DEF Heads
      <3> QED
        BY <3>1 DEF Extended, Behind
    <2>2. v[at + 1][3] = type /\ v[at + 1][4] = n /\ at = Onward(l)
      BY <1>1 DEF Extended, HeadByte
    <2>3. Behind(v, at + 1) = m
      BY <1>1, <2>2 DEF Behind
    <2> QED
      BY <2>1, <2>2, <2>3
  <1>3. \A p \in Heads(v) : p \in Heads(w) \/ p = at + 1
    BY DEF Extended
  <1>4. \A p \in Heads(w) : /\ p \in Nat /\ p <= l
                            /\ Behind(w, p) \in Nat
                            /\ Behind(w, p) = l \/ Onward(Behind(w, p)) < l
    BY <1>1, HeadFacts DEF Ended
  <1>5. ASSUME NEW p \in Heads(v), NEW q \in Heads(v), q = Onward(Behind(v, p)) + 1
        PROVE  Follows(v[p], v[q])
    <2>1. q <= at + 1
      BY <1>1, <1>3, <1>4
    <2>2. m <= Onward(m) /\ Onward(m) \in Nat
      BY OnwardFacts
    <2>3. p \in Heads(w)
      <3>1. p # at + 1
        <4> SUFFICES ASSUME p = at + 1 PROVE FALSE
          OBVIOUS
        <4>1. q = Onward(m) + 1
          BY <1>2, <1>5, Zenon
        <4>2. Onward(m) + 1 <= at + 1 /\ Onward(m) >= at + 7 + n
          BY <1>1, <2>1, <2>2, <4>1
        <4> QED
          BY <2>2, <4>2
      <3> QED
        BY <1>3, <3>1
    <2>4. PICK x \in Nat : x = Onward(Behind(w, p))
      BY <1>4, <2>3, OnwardFacts
    <2>5. CASE q \in Heads(w)
      BY <1>2, <1>5, <2>3, <2>5 DEF Linked
    <2>6. CASE q = at + 1
      <3>1. x = at
        BY <1>2, <1>5, <2>3, <2>4, <2>6
      <3>2. Behind(w, p) = l
        <4>1. ~(x < l)
          BY <1>1, <3>1
        <4> QED
          BY <1>4, <2>3, <2>4, <4>1
      <3> QED
        BY <1>1, <1>2, <2>3, <2>6, <3>2
    <2> QED
      BY <1>3, <2>5, <2>6
  <1>6. ASSUME NEW p \in Heads(v), v[p][3] \in {kFirstType, kMiddleType}
        PROVE  InBlock(Behind(v, p)) = 0
    BY <1>1, <1>2, <1>3, <1>6 DEF Linked
  <1>7. 1 \in Heads(v) => v[1][3] \in {kFullType, kFirstType}
    <2>1. CASE 1 \in Heads(w)
      BY <1>2, <2>1 DEF Linked
    <2>2. CASE 1 = at + 1
      BY <1>2, <2>2
    <2> QED
      BY <1>3, <2>1, <2>2
  <1> QED
    BY <1>5, <1>6, <1>7, Zenon DEF Linked

LEMMA FragmentTruthful ==
  ASSUME NEW w \in Seq(Bytes), NEW v \in Seq(Bytes), Truthful(w), Ended(w),
         NEW at \in Nat, NEW id \in Nat, NEW type \in Nat, NEW n \in Nat, NEW base \in Nat,
         Extended(w, v, at, id, type, n, base)
  PROVE  Truthful(v)
  <1> SUFFICES ASSUME NEW p \in Heads(v)
               PROVE  /\ \A i \in 2..7 : p + i - 1 <= Len(v) =>
                           v[p + i - 1] = <<"h", v[p][2], v[p][5], i, 0>>
                      /\ \A i \in 1..v[p][4] : p + 6 + i <= Len(v) =>
                           v[p + 6 + i] = PayloadByte(v[p][2], v[p][5] + i)
    BY Zenon DEF Truthful
  <1>1. CASE p \in Heads(w)
    <2>1. /\ p \in Nat /\ p >= 1 /\ w[p][4] \in Nat
          /\ p + 6 + w[p][4] <= Len(w) /\ Len(w) \in Nat
      BY <1>1, HeadFacts DEF Ended, Behind
    <2>2. v[p] = w[p] /\ \A i \in 1..Len(w) : v[i] = w[i]
      BY <1>1 DEF Extended, Heads
    <2>3. ASSUME NEW i \in 2..7
          PROVE  v[p + i - 1] = <<"h", v[p][2], v[p][5], i, 0>>
      <3>1. p + i - 1 \in 1..Len(w) /\ p + i - 1 <= Len(w)
        BY <2>1
      <3>2. w[p + i - 1] = <<"h", w[p][2], w[p][5], i, 0>>
        BY <1>1, <3>1 DEF Truthful
      <3> QED
        BY <2>2, <3>1, <3>2
    <2>4. ASSUME NEW i \in 1..v[p][4]
          PROVE  v[p + 6 + i] = PayloadByte(v[p][2], v[p][5] + i)
      <3>1. i \in 1..w[p][4] /\ p + 6 + i \in 1..Len(w) /\ p + 6 + i <= Len(w)
        <4>1. PICK k \in Nat, l \in Nat, q \in Nat :
                k = w[p][4] /\ l = Len(w) /\ q = p /\ q + 6 + k <= l
          BY <2>1
        <4>2. i \in 1..k
          BY <2>2, <2>4, <4>1
        <4>3. q + 6 + i \in 1..l /\ q + 6 + i <= l
          BY <4>1, <4>2
        <4> QED
          BY <4>1, <4>2, <4>3
      <3>2. w[p + 6 + i] = PayloadByte(w[p][2], w[p][5] + i)
        BY <1>1, <3>1 DEF Truthful
      <3> QED
        BY <2>2, <3>1, <3>2
    <2> QED
      BY <2>3, <2>4
  <1>2. CASE p = at + 1
    <2>1. v[p][2] = id /\ v[p][4] = n /\ v[p][5] = base
      <3>1. v[p] = HeadByte(id, type, n, base)
        BY <1>2 DEF Extended
      <3> QED
        BY <3>1 DEF HeadByte
    <2>2. ASSUME NEW i \in 2..7
          PROVE  v[p + i - 1] = <<"h", id, base, i, 0>>
      <3>1. p + i - 1 = at + i
        BY <1>2
      <3> QED
        BY <3>1 DEF Extended
    <2>3. ASSUME NEW i \in 1..n
          PROVE  v[p + 6 + i] = PayloadByte(id, base + i)
      <3>1. p + 6 + i = at + 7 + i
        BY <1>2
      <3> QED
        BY <3>1 DEF Extended
    <2> QED
      BY <2>1, <2>2, <2>3
  <1> QED
    BY <1>1, <1>2 DEF Extended

\* A record is placed when its first fragment is written; the others stay.
LEMMA FragmentPlaced ==
  ASSUME NEW w \in Seq(Bytes), NEW v \in Seq(Bytes), NEW sizes \in Seq(Nat),
         NEW starts \in Seq(Nat), NEW starts2 \in Seq(Nat),
         Len(starts) = Len(sizes), Len(starts2) = Len(sizes), HeadersSound(w, sizes, starts),
         Placed(w, sizes, starts), Ended(w),
         NEW at \in Nat, NEW id \in 1..Len(sizes), NEW type \in Nat, NEW n \in Nat, NEW base \in Nat,
         Extended(w, v, at, id, type, n, base),
         \A j \in 1..Len(sizes) : j # id => starts2[j] = starts[j] /\ starts[j] < Len(w),
         \/ /\ starts2[id] = at /\ type \in {kFullType, kFirstType}
            /\ \A p \in Heads(w) : w[p][2] # id
         \/ starts2[id] = starts[id] /\ starts[id] < Len(w),
         Len(v) <= Reach(starts2[id], sizes[id]),
         type \in {kFullType, kLastType} => Len(v) = Reach(starts2[id], sizes[id]),
         type \in {kFirstType, kMiddleType} => Len(v) < Reach(starts2[id], sizes[id])
  PROVE  Placed(v, sizes, starts2)
  <1>1. PICK l \in Nat, m \in Nat : l = Len(w) /\ m = Len(v) /\ l <= at /\ m = at + 7 + n
    BY DEF Extended
  <1>2. /\ \A p \in Heads(w) : p \in Heads(v) /\ v[p] = w[p] /\ Behind(v, p) = Behind(w, p)
        /\ v[at + 1][2] = id /\ v[at + 1][3] = type /\ Behind(v, at + 1) = m
        /\ at + 1 \in Heads(v)
    <2>1. ASSUME NEW p \in Heads(w)
          PROVE  p \in Heads(v) /\ v[p] = w[p] /\ Behind(v, p) = Behind(w, p)
      <3>1. p \in 1..Len(w) /\ p \in Heads(v)
        BY DEF Heads, Extended
      <3> QED
        BY <3>1 DEF Extended, Behind
    <2>2. /\ v[at + 1][2] = id /\ v[at + 1][3] = type /\ v[at + 1][4] = n
          /\ at + 1 \in Heads(v)
      BY <1>1 DEF Extended, HeadByte
    <2>3. Behind(v, at + 1) = m
      BY <1>1, <2>2 DEF Behind
    <2> QED
      BY <2>1, <2>2, <2>3
  <1>3. \A p \in Heads(v) : p \in Heads(w) \/ p = at + 1
    BY DEF Extended
  <1>4. ASSUME NEW j \in 1..Len(sizes)
        PROVE  /\ starts2[j] + 1 \in Heads(v)
               /\ v[starts2[j] + 1][2] = j
               /\ v[starts2[j] + 1][3] \in {kFullType, kFirstType}
    <2>1. CASE starts2[j] = starts[j] /\ starts[j] < l
      <3>1. /\ starts[j] + 1 \in Heads(w)
            /\ w[starts[j] + 1][2] = j
            /\ w[starts[j] + 1][3] \in {kFullType, kFirstType}
        BY <1>1, <2>1 DEF Placed
      <3> QED
        BY <1>2, <2>1, <3>1
    <2>2. CASE j = id /\ starts2[id] = at /\ type \in {kFullType, kFirstType}
      BY <1>2, <2>2
    <2> QED
      BY <1>1, <2>1, <2>2
  <1>5. ASSUME NEW p \in Heads(v)
        PROVE  /\ starts2[v[p][2]] <= p - 1
               /\ Behind(v, p) <= Reach(starts2[v[p][2]], sizes[v[p][2]])
               /\ v[p][3] \in {kFullType, kLastType} =>
                    Behind(v, p) = Reach(starts2[v[p][2]], sizes[v[p][2]])
               /\ v[p][3] \in {kFirstType, kMiddleType} =>
                    Behind(v, p) < Reach(starts2[v[p][2]], sizes[v[p][2]])
    <2>1. CASE p \in Heads(w)
      <3>1. w[p][2] \in 1..Len(sizes)
        BY <2>1 DEF HeadersSound, HeaderSound
      <3>2. starts2[w[p][2]] = starts[w[p][2]]
        BY <2>1, <3>1
      <3> QED
        BY <1>2, <2>1, <3>2 DEF Placed
    <2>2. CASE p = at + 1
      <3>1. starts2[id] <= at /\ p - 1 = at
        <4>1. PICK x \in Nat, y \in Nat : x = starts2[id] /\ y = starts[id]
          <5>1. id \in 1..Len(starts) /\ id \in 1..Len(starts2)
            OBVIOUS
          <5>2. starts[id] \in Nat /\ starts2[id] \in Nat
            BY <5>1, ElementOfSeq
          <5> QED
            BY <5>2
        <4>2. x = at \/ (x = y /\ y < l)
          BY <1>1, <4>1
        <4>3. x <= at
          BY <1>1, <4>2
        <4> QED
          BY <2>2, <4>1, <4>3
      <3> QED
        BY <1>1, <1>2, <2>2, <3>1
    <2> QED
      BY <1>3, <2>1, <2>2
  <1> QED
    BY <1>4, <1>5, Zenon DEF Placed

\* What EmitPhysicalRecord appends.
LEMMA EmittedBytes ==
  ASSUME NEW w \in Seq(Bytes), NEW t \in Seq(Bytes), Plain(t, 1),
         Len(w) + Len(t) = Onward(Len(w)),
         NEW id \in Nat, NEW type \in Nat, NEW n \in Nat, NEW base \in Nat,
         NEW v, v = w \o t \o (Header(id, type, n, base) \o Payload(id, base, n))
  PROVE  v \in Seq(Bytes) /\ Extended(w, v, Len(w) + Len(t), id, type, n, base)
  <1>1. PICK h \in Seq(Bytes), y \in Seq(Bytes) :
          h = Header(id, type, n, base) /\ y = Payload(id, base, n)
    BY HeaderFacts, PayloadFacts
  <1>19. Len(h) = 7 /\ h[1] = HeadByte(id, type, n, base)
    <2>1. /\ Header(id, type, n, base) \in Seq(Bytes)
          /\ Len(Header(id, type, n, base)) = 7
          /\ Header(id, type, n, base)[1] = HeadByte(id, type, n, base)
          /\ Plain(Header(id, type, n, base), 2)
      BY HeaderFacts
    <2> QED
      BY <1>1, <2>1, Zenon
  <1>2. Len(y) = n /\ \A i \in 1..n : y[i] = PayloadByte(id, base + i)
    <2>1. /\ Len(Payload(id, base, n)) = n
          /\ \A i \in 1..n : Payload(id, base, n)[i] = PayloadByte(id, base + i)
      BY PayloadFacts, Zenon
    <2> QED
      BY <1>1, <2>1, Zenon
  <1>3. \A i \in 2..7 : h[i] = <<"h", id, base, i, 0>>
    BY <1>1 DEF Header
  <1>4. PICK f \in Seq(Bytes) : f = h \o y
    BY ConcatProperties
  <1>5. /\ Len(f) = 7 + n
        /\ \A i \in 1..(7 + n) : f[i] = IF i <= 7 THEN h[i] ELSE y[i - 7]
    <2>1. /\ Len(h \o y) = Len(h) + Len(y)
          /\ \A i \in 1..(Len(h) + Len(y)) :
               (h \o y)[i] = IF i <= Len(h) THEN h[i] ELSE y[i - Len(h)]
      BY ConcatProperties
    <2> QED
      BY <1>2, <1>4, <1>19, <2>1, Zenon
  <1>6. /\ f[1] = HeadByte(id, type, n, base)
        /\ \A i \in 2..7 : f[i] = <<"h", id, base, i, 0>>
        /\ \A i \in 1..n : f[7 + i] = PayloadByte(id, base + i)
    <2>1. ASSUME NEW i \in 1..7 PROVE f[i] = h[i]
      <3>1. i \in 1..(7 + n) /\ i <= 7
        OBVIOUS
      <3> QED
        BY <1>5, <3>1
    <2>2. ASSUME NEW i \in 1..n PROVE f[7 + i] = y[i]
      <3>1. 7 + i \in 1..(7 + n) /\ ~(7 + i <= 7) /\ (7 + i) - 7 = i
        OBVIOUS
      <3> QED
        BY <1>5, <3>1
    <2> QED
      <3>1. 1 \in 1..7 /\ \A i \in 2..7 : i \in 1..7
        OBVIOUS
      <3> QED
        BY <1>2, <1>3, <1>19, <2>1, <2>2, <3>1
  <1>7. f[1][1] = "H" /\ Plain(f, 2) /\ Len(f) >= 1
    <2>1. f[1][1] = "H"
      BY <1>6 DEF HeadByte
    <2>2. ASSUME NEW i \in 2..Len(f) PROVE f[i][1] # "H"
      <3>1. CASE i <= 7
        <4>1. i \in 2..7
          BY <1>5, <3>1
        <4>2. f[i] = <<"h", id, base, i, 0>>
          BY <1>6, <4>1
        <4> QED
          BY <4>2
      <3>2. CASE i > 7
        <4>1. i - 7 \in 1..n /\ 7 + (i - 7) = i
          BY <1>5, <3>2
        <4>2. f[i] = PayloadByte(id, base + (i - 7))
          BY <1>6, <4>1
        <4> QED
          BY <4>2 DEF PayloadByte
      <3> QED
        BY <3>1, <3>2
    <2> QED
      BY <1>5, <2>1, <2>2 DEF Plain
  <1>8. PICK x \in Seq(Bytes) : x = w \o t
    BY ConcatProperties
  <1>9. PICK l \in Nat, k \in Nat, at \in Nat : l = Len(w) /\ k = Len(t) /\ at = l + k
    OBVIOUS
  <1>10. /\ Len(x) = at /\ Heads(x) = Heads(w)
         /\ \A i \in 1..l : x[i] = w[i]
    <2>1. /\ Len(w \o t) = Len(w) + Len(t) /\ Heads(w \o t) = Heads(w)
      BY AddPlain
    <2>2. \A i \in 1..(Len(w) + Len(t)) : (w \o t)[i] = IF i <= Len(w) THEN w[i] ELSE t[i - Len(w)]
      BY ConcatProperties
    <2>3. ASSUME NEW i \in 1..l PROVE x[i] = w[i]
      <3>1. i \in 1..(Len(w) + Len(t)) /\ i <= Len(w)
        BY <1>9
      <3> QED
        BY <1>8, <2>2, <3>1
    <2> QED
      BY <1>8, <1>9, <2>1, <2>3
  <1>11. v = x \o f
    BY <1>1, <1>4, <1>8
  <1>12. /\ v \in Seq(Bytes) /\ Len(v) = at + (7 + n)
         /\ Heads(v) = Heads(w) \cup {at + 1}
    <2>1. /\ x \o f \in Seq(Bytes)
          /\ Len(x \o f) = Len(x) + Len(f)
          /\ Heads(x \o f) = Heads(x) \cup {Len(x) + 1}
      BY <1>7, AddHeaded
    <2> QED
      BY <1>5, <1>10, <1>11, <2>1
  <1>13. \A i \in 1..(at + (7 + n)) : v[i] = IF i <= at THEN x[i] ELSE f[i - at]
    <2>1. \A i \in 1..(Len(x) + Len(f)) :
            (x \o f)[i] = IF i <= Len(x) THEN x[i] ELSE f[i - Len(x)]
      BY ConcatProperties
    <2> QED
      BY <1>5, <1>10, <1>11, <2>1, Zenon
  <1>14. \A i \in 1..l : v[i] = w[i]
    <2> SUFFICES ASSUME NEW i \in 1..l PROVE v[i] = w[i]
      OBVIOUS
    <2>1. i \in 1..(at + (7 + n)) /\ i <= at
      BY <1>9
    <2> QED
      BY <1>10, <1>13, <2>1
  <1>15. \A i \in 1..(7 + n) : v[at + i] = f[i]
    <2> SUFFICES ASSUME NEW i \in 1..(7 + n) PROVE v[at + i] = f[i]
      OBVIOUS
    <2>1. at + i \in 1..(at + (7 + n)) /\ ~(at + i <= at) /\ (at + i) - at = i
      OBVIOUS
    <2> QED
      BY <1>13, <2>1
  <1>16. /\ v[at + 1] = HeadByte(id, type, n, base)
         /\ \A i \in 2..7 : v[at + i] = <<"h", id, base, i, 0>>
         /\ \A i \in 1..n : v[at + 7 + i] = PayloadByte(id, base + i)
    <2>1. ASSUME NEW i \in 1..n PROVE v[at + 7 + i] = PayloadByte(id, base + i)
      <3>1. 7 + i \in 1..(7 + n) /\ at + 7 + i = at + (7 + i)
        OBVIOUS
      <3> QED
        BY <1>6, <1>15, <3>1
    <2>3. 1 \in 1..(7 + n) /\ \A i \in 2..7 : i \in 1..(7 + n)
      OBVIOUS
    <2>2. v[at + 1] = f[1] /\ \A i \in 2..7 : v[at + i] = f[i]
      BY <1>15, <2>3
    <2> QED
      BY <1>6, <2>1, <2>2
  <1>17. l <= at /\ at + (7 + n) = at + 7 + n
    BY <1>9
  <1>18. Extended(w, v, at, id, type, n, base)
    BY <1>9, <1>12, <1>14, <1>16, <1>17 DEF Extended
  <1> QED
    BY <1>9, <1>12, <1>18

\* block_offset_ is where the file ends in its block.
OffsetFollows ==
  InBlock(Len(file)) = IF block_offset = kBlockSize THEN 0 ELSE block_offset

LEMMA PlaceOfHeader ==
  ASSUME TypeOK, OffsetFollows
  PROVE  /\ Len(file) + Len(Trailer) = Onward(Len(file))
         /\ InBlock(Onward(Len(file))) = BlockStart
  <1>1. PICK b \in Nat, o \in Nat, l \in Nat, m \in Nat :
          /\ b = kBlockSize /\ b >= 8 /\ o = block_offset /\ o <= b /\ l = Len(file)
          /\ m = InBlock(l) /\ m < b
    <2>1. kBlockSize \in Nat /\ kBlockSize >= 8 /\ block_offset \in 0..kBlockSize /\ Len(file) \in Nat
      BY BlockSize DEF TypeOK
    <2>2. InBlock(Len(file)) \in 0..(kBlockSize - 1)
      BY <2>1, Places
    <2>3. InBlock(Len(file)) \in Nat /\ InBlock(Len(file)) < kBlockSize
      BY <2>1, <2>2
    <2>4. block_offset \in Nat /\ block_offset <= kBlockSize
      BY <2>1
    <2> QED
      BY <2>1, <2>3, <2>4
  <1>2. m = IF o = b THEN 0 ELSE o
    BY <1>1 DEF OffsetFollows
  <1>3. CASE b - o < 7
    <2>1. Len(Trailer) = b - o
      <3>1. b - o \in Nat
        BY <1>1
      <3>2. Trailer = [i \in 1..(b - o) |-> Zero]
        BY <1>1, <1>3 DEF Trailer
      <3> QED
        BY <3>1, <3>2
    <2>2. BlockStart = 0
      BY <1>1, <1>3 DEF BlockStart
    <2>3. CASE o = b
      <3>1. m = 0 /\ Len(Trailer) = 0
        BY <1>1, <1>2, <2>1, <2>3
      <3>2. Onward(l) = l /\ InBlock(Onward(l)) = 0
        BY <1>1, <3>1, OnwardFacts
      <3> QED
        BY <1>1, <2>2, <3>1, <3>2
    <2>4. CASE o # b
      <3>1. m = o /\ m + (b - o) = b /\ b - o \in Nat
        BY <1>1, <1>2, <2>4
      <3>2. InBlock(l) + (b - o) = kBlockSize
        BY <1>1, <3>1
      <3>3. InBlock(l + (b - o)) = 0
        BY <3>1, <3>2, Onwards
      <3>4. InBlock(l) + 7 > kBlockSize
        <4>1. m + 7 > b
          BY <1>1, <1>3, <3>1
        <4> QED
          BY <1>1, <4>1
      <3>5. Onward(l) = BlockAt(l) + kBlockSize
        BY <3>4 DEF Onward
      <3>6. BlockAt(l) = l - m
        BY <1>1 DEF BlockAt
      <3>7. Onward(l) = l + (b - o)
        <4>1. (l - m) + b = l + (b - o)
          BY <3>1
        <4> QED
          BY <1>1, <3>5, <3>6, <4>1
      <3> QED
        BY <1>1, <2>1, <2>2, <3>3, <3>7
    <2> QED
      BY <2>3, <2>4
  <1>4. CASE ~(b - o < 7)
    <2>1. Trailer = <<>> /\ BlockStart = o
      BY <1>1, <1>4 DEF Trailer, BlockStart
    <2>2. m = o /\ m + 7 <= b
      BY <1>1, <1>2, <1>4
    <2>3. InBlock(l) + 7 <= kBlockSize
      BY <1>1, <2>2
    <2>4. Onward(l) = l
      BY <2>3, OnwardFacts
    <2>5. Len(Trailer) = 0
      BY <2>1
    <2>6. Len(file) + Len(Trailer) = l
      BY <1>1, <2>5
    <2> QED
      BY <1>1, <2>1, <2>2, <2>4, <2>6
  <1> QED
    BY <1>1, <1>3, <1>4

Appending ==
  phase \in {"idle", "emit"} =>
    /\ Dense(file, size, start) /\ Ended(file) /\ OffsetFollows
    /\ phase = "idle" \/ begin =>
         \A p \in Heads(file) : Behind(file, p) = Len(file) => file[p][3] \in {kFullType, kLastType}
    /\ \A id \in 1..Len(size) :
         start[id] < Len(file) \/ (phase = "emit" /\ begin /\ id = Len(size))
    /\ phase = "emit" =>
         Reach(Len(file), left) = Reach(start[Len(size)], size[Len(size)])
    /\ phase = "emit" /\ begin => start[Len(size)] = Len(file)
    /\ ~rd.eof /\ rd.last = 0 /\ rd.initial = 0 /\ damage = <<>> /\ dropped = 0

\* A fragment ends the record, or its block and then the rest of the record is
\* put behind it.
LEMMA FragmentReaches ==
  ASSUME NEW l \in Nat, NEW m \in Nat, NEW at, at = Onward(l), NEW n \in Nat,
         NEW o \in Nat, o = InBlock(at), o + 7 + n <= kBlockSize,
         n = m \/ (n < m /\ o + 7 + n = kBlockSize)
  PROVE  /\ Reach(l, m) = Reach(at, m)
         /\ n = m => Reach(at, m) = at + 7 + n
         /\ n < m => /\ Reach(at, m) = Reach(at + 7 + n, m - n)
                     /\ Reach(at, m) > at + 7 + n
                     /\ InBlock(at + 7 + n) = 0
  <1>1. PICK b \in Nat : b = kBlockSize /\ b >= 8
    BY BlockSize
  <1>2. at \in Nat /\ InBlock(l) \in 0..(b - 1)
    BY <1>1, OnwardFacts, Places
  <1>3. PICK pos \in Nat : pos = InBlock(l)
    BY <1>2
  <1>4. Reach(l, m) = Reach(at, m)
    <2>1. CASE pos + 7 > b
      <3>1. kBlockSize - InBlock(l) - 7 < 0
        BY <1>1, <1>3, <2>1
      <3>2. InBlock(l) + 7 > kBlockSize
        BY <1>1, <1>3, <2>1
      <3>3. at = BlockAt(l) + kBlockSize
        BY <3>2 DEF Onward
      <3> QED
        BY <3>1, <3>3, ReachFacts
    <2>2. CASE ~(pos + 7 > b)
      <3>1. ~(InBlock(l) + 7 > kBlockSize)
        BY <1>1, <1>3, <2>2
      <3> QED
        BY <3>1 DEF Onward
    <2> QED
      BY <2>1, <2>2
  <1>5. PICK room \in Nat : room = b - o - 7 /\ n <= room
    <2>1. b - o - 7 \in Nat /\ n <= b - o - 7
      BY <1>1
    <2> QED
      BY <2>1
  <1>6. room = kBlockSize - InBlock(at) - 7
    BY <1>1, <1>5
  <1>7. /\ n = m => Reach(at, m) = at + 7 + m
        /\ n < m => m > room /\ Reach(at, m) = Reach(BlockAt(at) + kBlockSize, m - room)
    <2>1. /\ m <= room => Reach(at, m) = at + 7 + m
          /\ \A k \in Nat \ {0} : m = room + k =>
               Reach(at, m) = Reach(BlockAt(at) + kBlockSize, k)
      <3>1. at \in Nat /\ room >= 0
        BY <1>2, <1>5
      <3>2. m <= room => Reach(at, m) = at + 7 + m
        BY <1>6, <3>1, ReachFacts
      <3>3. ASSUME NEW k \in Nat \ {0}, m = room + k
            PROVE  Reach(at, m) = Reach(BlockAt(at) + kBlockSize, k)
        BY <1>6, <3>1, <3>3, ReachFacts
      <3> QED
        BY <3>2, <3>3
    <2>2. n < m => m > room
      BY <1>1, <1>5
    <2>3. ASSUME n < m
          PROVE  Reach(at, m) = Reach(BlockAt(at) + kBlockSize, m - room)
      <3>1. PICK k \in Nat \ {0} : k = m - room /\ m = room + k
        <4>1. m - room \in Nat \ {0} /\ m = room + (m - room)
          BY <1>5, <2>2, <2>3
        <4> QED
          BY <4>1
      <3> QED
        BY <2>1, <3>1
    <2> QED
      BY <1>5, <2>1, <2>2, <2>3
  <1>8. ASSUME n < m
        PROVE  /\ Reach(at, m) = Reach(at + 7 + n, m - n)
               /\ Reach(at, m) > at + 7 + n
               /\ InBlock(at + 7 + n) = 0
    <2>1. o + 7 + n = b /\ n = room
      BY <1>1, <1>5, <1>8
    <2>2. PICK d \in Nat : d = 7 + n /\ o + d = b
      BY <2>1
    <2>3. InBlock(at) + d = kBlockSize
      BY <1>1, <2>2
    <2>4. InBlock(at + d) = 0
      BY <1>2, <2>3, Onwards
    <2>5. BlockAt(at) = at - o
      BY DEF BlockAt
    <2>6. BlockAt(at) + kBlockSize = at + d
      <3>1. (at - o) + b = at + d
        BY <1>2, <2>2
      <3> QED
        BY <1>1, <2>5, <3>1
    <2>7. at + d = at + 7 + n
      BY <1>2, <2>2
    <2>8. PICK j \in Nat : j = m - n
      BY <1>8
    <2>9. PICK y \in Nat : y = at + d
      BY <1>2
    <2>10. Reach(y, j) \in Nat /\ Reach(y, j) >= y + 7
      BY ReachFacts
    <2>11. Reach(at, m) = Reach(y, j)
      BY <1>7, <1>8, <2>1, <2>6, <2>8, <2>9
    <2>12. Reach(at, m) > y
      BY <2>10, <2>11
    <2> QED
      BY <2>4, <2>7, <2>8, <2>9, <2>11, <2>12
  <1> QED
    BY <1>4, <1>7, <1>8

LEMMA EmitAppends ==
  ASSUME Inv, Appending, NEW trailer, NEW bytes, NEW ok \in BOOLEAN, ok,
         trailer = Len(Trailer), EmitPhysicalRecord(trailer, bytes, ok)
  PROVE  Appending'
  <1>1. /\ TypeOK /\ Emitting /\ Layout(file, size, start) /\ phase = "emit"
        /\ Dense(file, size, start) /\ Ended(file) /\ OffsetFollows
        /\ HeadersSound(file, size, start)
    BY DEF Inv, Writing, EmitPhysicalRecord, Appending, Layout
  <1>2. PICK id \in Nat, total \in Nat, m \in Nat, l \in Nat :
          /\ id = Len(size) /\ id >= 1 /\ total = size[id] /\ m = left /\ m <= total
          /\ l = Len(file)
    <2>1. Len(size) \in Nat /\ Len(size) >= 1 /\ left \in Nat /\ Len(file) \in Nat
      BY <1>1 DEF TypeOK, Emitting
    <2>2. size[Len(size)] \in Nat
      BY <1>1, <2>1, ElementOfSeq DEF TypeOK
    <2> QED
      BY <1>1, <2>1, <2>2 DEF Emitting
  <1>3. PICK base \in Nat : base = size[id] - left
    BY <1>2
  <1>4. PICK n \in Nat, type \in {kFullType, kFirstType, kMiddleType, kLastType} :
          /\ n = FragmentLength /\ type = FragmentType
          /\ type \in {kFullType, kFirstType} <=> begin
          /\ type \in {kFullType, kLastType} <=> m = n
          /\ Trailer \in Seq(Bytes) /\ Plain(Trailer, 1)
    BY <1>1, <1>2, FragmentFacts
  <1>5. PICK b \in Nat, o \in Nat : /\ b = kBlockSize /\ o = BlockStart /\ o + 7 + n <= b
                                    /\ n = m \/ (n < m /\ o + 7 + n = b)
    <2>1. block_offset \in 0..kBlockSize /\ kBlockSize \in Nat
      BY <1>1, BlockSize DEF TypeOK
    <2>2. BlockStart \in Nat
      BY <2>1 DEF BlockStart
    <2>3. BlockStart + 7 + n <= kBlockSize
      BY <1>1, <1>4, FragmentFacts
    <2>4. n = IF m < kBlockSize - BlockStart - 7 THEN m ELSE kBlockSize - BlockStart - 7
      BY <1>2, <1>4 DEF FragmentLength
    <2>5. PICK b \in Nat, o \in Nat : b = kBlockSize /\ o = BlockStart
      BY <2>1, <2>2
    <2>6. n = IF m < b - o - 7 THEN m ELSE b - o - 7
      BY <2>4, <2>5
    <2>7. n = m \/ (n < m /\ o + 7 + n = b)
      BY <2>6
    <2> QED
      BY <2>3, <2>5, <2>7
  <1>6. PICK at \in Nat : at = Onward(l) /\ at = l + Len(Trailer) /\ InBlock(at) = o /\ l <= at
    <2>1. Onward(l) = l + Len(Trailer) /\ InBlock(Onward(l)) = o
      BY <1>1, <1>2, <1>5, PlaceOfHeader
    <2>2. Onward(l) \in Nat /\ l <= Onward(l)
      BY OnwardFacts
    <2> QED
      BY <2>1, <2>2
  <1>7. PICK v : v = file'
    OBVIOUS
  <1>8. v \in Seq(Bytes) /\ Extended(file, v, at, id, type, n, base)
    <2>1. v = file \o Trailer \o (Header(id, type, n, base) \o Payload(id, base, n))
      <3>1. /\ bytes = 7 + FragmentLength
            /\ v = file \o SubSeq(Trailer, 1, trailer)
                      \o Stored(Len(size), FragmentType, FragmentLength,
                                size[Len(size)] - left, bytes)
        BY <1>7 DEF EmitPhysicalRecord
      <3>2. SubSeq(Trailer, 1, trailer) = Trailer
        <4>1. PICK t \in Seq(Bytes) : t = Trailer
          BY <1>4
        <4>2. SubSeq(t, 1, Len(t)) = t
          OBVIOUS
        <4> QED
          BY <4>1, <4>2
      <3>3. PICK y : y = Stored(Len(size), FragmentType, FragmentLength,
                                size[Len(size)] - left, bytes)
        OBVIOUS
      <3>4. y = Stored(id, type, n, base, 7 + n)
        BY <1>2, <1>3, <1>4, <3>1, <3>3
      <3>5. y = Header(id, type, n, base) \o Payload(id, base, n)
        <4>1. ~(7 + n < 7) /\ (7 + n) - 7 = n
          OBVIOUS
        <4> QED
          BY <3>4, <4>1 DEF Stored
      <3> QED
        BY <3>1, <3>2, <3>3, <3>5
    <2>2. PICK t \in Seq(Bytes) : t = Trailer /\ Plain(t, 1)
      BY <1>4
    <2>3. file \in Seq(Bytes) /\ type \in Nat
      BY <1>1 DEF TypeOK
    <2>4. Len(file) + Len(t) = Onward(Len(file)) /\ Len(file) + Len(t) = at
      BY <1>2, <1>6, <2>2
    <2>5. v = file \o t \o (Header(id, type, n, base) \o Payload(id, base, n))
      BY <2>1, <2>2
    <2>6. v \in Seq(Bytes) /\ Extended(file, v, Len(file) + Len(t), id, type, n, base)
      BY <2>2, <2>3, <2>4, <2>5, EmittedBytes
    <2> QED
      BY <2>4, <2>6
  <1>9. /\ size' = size /\ rd' = rd /\ damage' = damage /\ dropped' = dropped
        /\ left' = m - n /\ begin' = FALSE
        /\ block_offset' = o + 7 + n
        /\ phase' = IF m - n > 0 THEN "emit" ELSE "idle"
    <2>1. /\ size' = size /\ rd' = rd /\ damage' = damage /\ dropped' = dropped
          /\ left' = left - FragmentLength /\ begin' = FALSE
          /\ block_offset' = BlockStart + kHeaderSize + FragmentLength
          /\ phase' = IF left' > 0 THEN "emit" ELSE "idle"
      BY DEF EmitPhysicalRecord, readerVars
    <2> QED
      BY <1>2, <1>4, <1>5, <2>1
  <1>10. PICK s \in Seq(Nat) : /\ s = start' /\ Len(s) = Len(size)
                               /\ begin => s[id] = at
                               /\ \A i \in 1..Len(size) : ~begin \/ i # id => s[i] = start[i]
    <2>1. start' = IF begin THEN [start EXCEPT ![id] = at] ELSE start
      <3>1. start' = IF begin THEN [start EXCEPT ![Len(size)] = Len(file) + trailer] ELSE start
        BY DEF EmitPhysicalRecord
      <3> QED
        BY <1>2, <1>6, <3>1
    <2>2. start \in Seq(Nat) /\ Len(start) = Len(size) /\ id \in 1..Len(start)
      BY <1>1, <1>2 DEF TypeOK
    <2>3. CASE begin
      <3>1. PICK s \in Seq(Nat) : s = [start EXCEPT ![id] = at]
        BY <2>2, ExceptSeq
      <3>2. Len(s) = Len(start) /\ \A j \in 1..Len(start) : s[j] = IF j = id THEN at ELSE start[j]
        BY <2>2, <3>1, ExceptSeq
      <3> QED
        BY <2>1, <2>2, <2>3, <3>1, <3>2
    <2>4. CASE ~begin
      BY <2>1, <2>2, <2>4
    <2> QED
      BY <2>3, <2>4
  <1>11. /\ Reach(l, m) = Reach(at, m)
         /\ n = m => Reach(at, m) = at + 7 + n
         /\ n < m => /\ Reach(at, m) = Reach(at + 7 + n, m - n)
                     /\ Reach(at, m) > at + 7 + n
                     /\ InBlock(at + 7 + n) = 0
    <2>1. o + 7 + n <= kBlockSize /\ (n = m \/ (n < m /\ o + 7 + n = kBlockSize))
      BY <1>5
    <2> QED
      <3>1. at = Onward(l) /\ o = InBlock(at)
        BY <1>6
      <3>2. Reach(l, m) = Reach(at, m)
        BY <2>1, <3>1, FragmentReaches
      <3>3. n = m => Reach(at, m) = at + 7 + n
        BY <2>1, <3>1, FragmentReaches
      <3>4. n < m => Reach(at, m) = Reach(at + 7 + n, m - n)
        BY <2>1, <3>1, FragmentReaches, SMTT(30)
      <3>5. n < m => Reach(at, m) > at + 7 + n /\ InBlock(at + 7 + n) = 0
        BY <2>1, <3>1, FragmentReaches
      <3> QED
        BY <3>2, <3>3, <3>4, <3>5
  <1>12. Reach(s[id], size[id]) = Reach(at, m)
    <2>1. Reach(l, m) = Reach(start[id], size[id])
      BY <1>1, <1>2 DEF Appending
    <2>2. CASE begin
      BY <1>1, <1>2, <1>10, <2>2 DEF Emitting
    <2>3. CASE ~begin
      <3>1. id \in 1..Len(size)
        BY <1>2
      <3> QED
        BY <1>10, <1>11, <2>1, <2>3, <3>1
    <2> QED
      BY <2>2, <2>3
  <1>13. PICK z \in Nat : z = Len(v) /\ z = at + 7 + n /\ z > l
    <2>1. Len(v) = at + 7 + n
      BY <1>8 DEF Extended
    <2> QED
      BY <1>6, <2>1
  <1>14. Tiled(v) /\ Ended(v)
    <2>1. InBlock(at) + 7 + n <= kBlockSize
      BY <1>5, <1>6
    <2>2. file \in Seq(Bytes) /\ Tiled(file) /\ type \in Nat
      BY <1>1 DEF TypeOK, Dense
    <2> QED
      BY <1>1, <1>8, <2>1, <2>2, FragmentTiles
  <1>15. v[at + 1][2] = id /\ v[at + 1][3] = type
    <2>1. v[at + 1] = HeadByte(id, type, n, base)
      BY <1>8 DEF Extended
    <2> QED
      BY <2>1 DEF HeadByte
  <1>16. Linked(v)
    <2>1. ASSUME NEW p \in Heads(file), Behind(file, p) = Len(file)
          PROVE  Follows(file[p], v[at + 1])
      <3>1. CASE begin
        <4>1. file[p][3] \in {kFullType, kLastType}
          BY <1>1, <2>1, <3>1 DEF Appending
        <4>2. type \in {kFullType, kFirstType}
          BY <1>4, <3>1
        <4> QED
          BY <1>15, <4>1, <4>2 DEF Follows
      <3>2. CASE ~begin
        <4>1. PICK q \in Heads(file) : file[q][2] = Len(size) /\ \A y \in Heads(file) : y <= q
          BY <1>1, <3>2 DEF Emitting
        <4>2. p = q
          <5>1. p \in Nat /\ q \in Nat /\ p <= q /\ q <= l
            BY <1>1, <1>2, <4>1, HeadFacts DEF TypeOK
          <5>2. ~(p < q)
            <6>1. p < q => Behind(file, p) < q
              BY <1>1 DEF Dense, Tiled
            <6> QED
              BY <1>2, <2>1, <5>1, <6>1
          <5> QED
            BY <5>1, <5>2
        <4>3. file[p][2] = id /\ file[p][3] \in {kFirstType, kMiddleType}
          BY <1>1, <1>2, <3>2, <4>1, <4>2 DEF Emitting
        <4>4. type \in {kMiddleType, kLastType}
          BY <1>4, <3>2
        <4> QED
          BY <1>15, <4>3, <4>4 DEF Follows
      <3> QED
        BY <3>1, <3>2
    <2>2. type \in {kFirstType, kMiddleType} => InBlock(at + 7 + n) = 0
      BY <1>4, <1>5, <1>11
    <2>3. at = 0 => type \in {kFullType, kFirstType}
      <3>1. CASE begin
        BY <1>4, <3>1
      <3>2. CASE ~begin
        <4>1. PICK q \in Heads(file) : TRUE
          BY <1>1, <3>2 DEF Emitting
        <4>2. q \in Nat /\ q >= 1 /\ q <= l
          BY <1>1, <1>2, HeadFacts DEF TypeOK
        <4> QED
          BY <1>6, <4>2
      <3> QED
        BY <3>1, <3>2
    <2>4. file \in Seq(Bytes) /\ Linked(file) /\ type \in Nat
      BY <1>1 DEF TypeOK, Dense
    <2> QED
      BY <1>1, <1>8, <2>1, <2>2, <2>3, <2>4, FragmentLinks
  <1>17. Truthful(v)
    <2>1. file \in Seq(Bytes) /\ Truthful(file) /\ type \in Nat
      BY <1>1 DEF TypeOK, Dense
    <2> QED
      BY <1>1, <1>8, <2>1, FragmentTruthful
  <1>18. \A j \in 1..Len(size) : j # id \/ ~begin => s[j] = start[j] /\ start[j] < l
    <2> SUFFICES ASSUME NEW j \in 1..Len(size), j # id \/ ~begin
                 PROVE  s[j] = start[j] /\ start[j] < l
      OBVIOUS
    <2>1. s[j] = start[j]
      BY <1>10
    <2>2. start[j] < Len(file)
      BY <1>1, <1>2 DEF Appending
    <2> QED
      BY <1>2, <2>1, <2>2
  <1>19. Placed(v, size, s)
    <2>1. /\ file \in Seq(Bytes) /\ size \in Seq(Nat) /\ start \in Seq(Nat)
          /\ Len(start) = Len(size) /\ Placed(file, size, start) /\ type \in Nat
          /\ id \in 1..Len(size)
      BY <1>1, <1>2 DEF TypeOK, Dense
    <2>2. \A j \in 1..Len(size) : j # id => s[j] = start[j] /\ start[j] < Len(file)
      BY <1>2, <1>18
    <2>3. \/ /\ s[id] = at /\ type \in {kFullType, kFirstType}
             /\ \A p \in Heads(file) : file[p][2] # id
          \/ s[id] = start[id] /\ start[id] < Len(file)
      <3>1. CASE begin
        <4>1. \A p \in Heads(file) : file[p][2] # id
          <5> SUFFICES ASSUME NEW p \in Heads(file) PROVE file[p][2] # id
            OBVIOUS
          <5>1. file[p][2] < Len(size)
            BY <1>1, <3>1 DEF Emitting
          <5>2. PICK k : k = file[p][2]
            OBVIOUS
          <5>3. k < id
            BY <1>2, <5>1, <5>2
          <5>4. k # id
            BY <5>3
          <5> QED
            BY <5>2, <5>4
        <4> QED
          BY <1>4, <1>10, <3>1, <4>1
      <3>2. CASE ~begin
        BY <1>2, <1>18, <2>1, <3>2
      <3> QED
        BY <3>1, <3>2
    <2>4. /\ Len(v) <= Reach(s[id], size[id])
          /\ type \in {kFullType, kLastType} => Len(v) = Reach(s[id], size[id])
          /\ type \in {kFirstType, kMiddleType} => Len(v) < Reach(s[id], size[id])
      <3>1. PICK r \in Nat : r = Reach(s[id], size[id]) /\ r = Reach(at, m)
        BY <1>12, ReachFacts
      <3>2. /\ n = m => r = z
            /\ n < m => r > z
        BY <1>11, <1>13, <3>1
      <3>3. /\ type \in {kFullType, kLastType} => n = m
            /\ type \in {kFirstType, kMiddleType} => n < m
        BY <1>4, <1>5
      <3>4. z <= r
        BY <1>5, <3>2
      <3> QED
        BY <1>13, <3>1, <3>2, <3>3, <3>4
    <2>5. Len(s) = Len(size)
      BY <1>10
    <2> QED
      BY <1>1, <1>8, <2>1, <2>2, <2>3, <2>4, <2>5, FragmentPlaced
  <1>20. InBlock(z) = IF block_offset' = kBlockSize THEN 0 ELSE block_offset'
    <2>1. PICK d \in Nat : d = 7 + n /\ at + d = z /\ o + d <= b /\ block_offset' = o + d
      BY <1>5, <1>9, <1>13
    <2>2. CASE o + d = b
      <3>1. InBlock(at) + d = kBlockSize
        BY <1>5, <1>6, <2>2
      <3>2. InBlock(at + d) = 0
        BY <3>1, Onwards
      <3> QED
        BY <1>5, <2>1, <2>2, <3>2
    <2>3. CASE o + d < b
      <3>1. InBlock(at) + d < kBlockSize
        BY <1>5, <1>6, <2>3
      <3>2. InBlock(at + d) = InBlock(at) + d
        BY <3>1, Onwards
      <3>3. InBlock(at + d) = o + d
        BY <1>6, <3>2
      <3>4. block_offset' # kBlockSize
        BY <1>5, <2>1, <2>3
      <3> QED
        BY <2>1, <3>3, <3>4
    <2> QED
      BY <2>1, <2>2, <2>3
  <1>21. phase' = "idle" =>
           \A p \in Heads(v) : Behind(v, p) = z => v[p][3] \in {kFullType, kLastType}
    <2> SUFFICES ASSUME phase' = "idle", NEW p \in Heads(v), Behind(v, p) = z
                 PROVE  v[p][3] \in {kFullType, kLastType}
      OBVIOUS
    <2>1. n = m
      BY <1>5, <1>9
    <2>2. p \in Heads(file) \/ p = at + 1
      BY <1>8 DEF Extended
    <2>3. p \notin Heads(file)
      <3> SUFFICES ASSUME p \in Heads(file) PROVE FALSE
        OBVIOUS
      <3>1. v[p] = file[p]
        BY <1>8 DEF Extended, Heads
      <3>2. Behind(file, p) = z
        BY <3>1 DEF Behind
      <3>3. Behind(file, p) <= l
        BY <1>1, <1>2 DEF Ended
      <3> QED
        BY <1>13, <3>2, <3>3
    <2> QED
      BY <1>4, <1>15, <2>1, <2>2, <2>3
  <1>22. \A j \in 1..Len(size) : s[j] < z
    <2> SUFFICES ASSUME NEW j \in 1..Len(size) PROVE s[j] < z
      OBVIOUS
    <2>1. CASE j = id /\ begin
      BY <1>10, <1>13, <2>1
    <2>2. CASE j # id \/ ~begin
      <3>1. PICK x \in Nat : x = s[j]
        BY <1>10, ElementOfSeq
      <3>2. x < l
        BY <1>18, <2>2, <3>1
      <3> QED
        BY <1>13, <3>1, <3>2
    <2> QED
      BY <2>1, <2>2
  <1>23. phase' = "emit" => Reach(z, left') = Reach(s[id], size[id])
    BY <1>5, <1>9, <1>11, <1>12, <1>13
  <1>24. Dense(v, size, s)
    BY <1>14, <1>16, <1>17, <1>19 DEF Dense
  <1>25. /\ ~rd.eof /\ rd.last = 0 /\ rd.initial = 0 /\ damage = <<>> /\ dropped = 0
    BY <1>1 DEF Appending
  <1>26. OffsetFollows'
    BY <1>7, <1>13, <1>20 DEF OffsetFollows
  <1>27. Heads(file)' = Heads(v) /\ Ended(file)' = Ended(v)
         /\ Dense(file, size, start)' = Dense(v, size, s)
    BY <1>7, <1>9, <1>10 DEF Heads, Ended, Dense, Tiled, Linked, Truthful, Placed, Behind
  <1> QED
    BY <1>2, <1>7, <1>9, <1>10, <1>13, <1>14, <1>21, <1>22, <1>23, <1>24, <1>25, <1>26, <1>27
    DEF Appending

-----------------------------------------------------------------------------
(***************************************************************************)
(* The reader of such a file, of which w is what was written.              *)
(***************************************************************************)

Aligned == InBlock(rd.initial) = 0

\* damage tells what was at the damaged places
DamageKnown(w) ==
  \A y \in 1..Len(w) :
    \/ file[y] = w[y]
    \/ file[y] = Garbage /\ \E i \in 1..Len(damage) : damage[i] = w[y][1]

\* buffer_ begins with a header or is too short for one, and ends with its block
Position(w) ==
  /\ rd.lo <= rd.hi
  /\ ~rd.eof => InBlock(rd.hi) = 0
  /\ rd.eof => rd.hi >= Len(file)
  /\ rd.lo < rd.hi =>
       /\ rd.hi <= Len(file) /\ rd.hi <= BlockAt(rd.lo) + kBlockSize
       /\ ~rd.eof => rd.hi = BlockAt(rd.lo) + kBlockSize
  /\ Buffered >= kHeaderSize => rd.lo + 1 \in Heads(w)

\* An unfinished record: the reader is behind its last fragment read
Unfinishing(w) ==
  rd.fragmented =>
    /\ ~rd.resyncing
    /\ \E p \in Heads(w) :
         /\ w[p][3] \in {kFirstType, kMiddleType}
         /\ rd.prospective = start[w[p][2]]
         /\ rd.lo = Behind(w, p)

\* Before the first block is read
Fresh ==
  rd.hi = 0 /\ ~rd.eof =>
    rd.last = 0 /\ ~rd.fragmented /\ rd.resyncing = (rd.initial > 0)

Sought == Aligned /\ (rd.hi # 0 \/ rd.eof) => rd.lo >= rd.initial

\* With no record unfinished the next header is the first of a record
Between(w) ==
  damage = <<>> /\ Aligned /\ ~rd.fragmented /\ ~rd.resyncing =>
    \A q \in Heads(w) : q = Onward(rd.lo) + 1 => w[q][3] \in {kFullType, kFirstType}

Quiet == dropped = 0 /\ Aligned /\ \A i \in 1..Len(damage) : damage[i] = "P"

\* No byte is damaged in the blocks that hold the record
Unharmed(id) ==
  \A y \in 1..Len(file) : file[y] = Garbage =>
    \/ y - 1 < BlockAt(start[id])
    \/ y - 1 >= BlockAt(End(id) - 1) + kBlockSize

Kept(id) ==
  start[id] >= rd.initial /\ End(id) <= Len(file) /\ (Unharmed(id) \/ Quiet)

Coming(id) ==
  rd.lo <= start[id] \/ (rd.fragmented /\ rd.prospective = start[id])

\* A record returned is wholly in the file
WholeInFile(offset) ==
  \E id \in 1..Len(size) :
    offset = start[id] /\ start[id] < Len(file) /\ End(id) <= Len(file)

Reads(w) ==
  Position(w) /\ Unfinishing(w) /\ Fresh /\ Sought /\ Between(w)

Delivers ==
  /\ \A i \in 1..Len(returned) : WholeInFile(returned[i].offset)
  /\ \A id \in 1..Len(size) : Kept(id) => Returned(id) \/ (phase = "read" /\ Coming(id))
  /\ damage = <<>> /\ Aligned => dropped = 0

Receiving ==
  phase \in {"read", "eof"} =>
    /\ \E w : /\ Written(w) /\ HeadersSound(w, size, start) /\ Dense(w, size, start)
              /\ DamageKnown(w)
              /\ phase = "read" => Reads(w)
    /\ Delivers

Exact == failures = 0 => Appending /\ Receiving

Counters ==
  /\ failures \in Nat /\ dropped \in Nat /\ damage \in Seq({"H", "h", "P", "Z", "X"})
  /\ rd.initial \in InitialOffsets \cup {0}

LEMMA FileStarts == InBlock(0) = 0
  <1>1. BlockAt(0) \in Nat /\ InBlock(0) \in 0..(kBlockSize - 1) /\ 0 = BlockAt(0) + InBlock(0)
    BY Places
  <1>2. kBlockSize \in Nat
    BY BlockSize
  <1>3. PICK m \in Nat, s \in Nat : m = InBlock(0) /\ s = BlockAt(0)
    BY <1>1, <1>2
  <1>4. 0 = s + m
    BY <1>1, <1>3
  <1> QED
    BY <1>3, <1>4

LEMMA InitExact == Init => Exact /\ Counters
  <1> SUFFICES ASSUME Init PROVE Exact /\ Counters
    OBVIOUS
  <1>1. file = <<>> /\ size = <<>> /\ Len(file) = 0 /\ Len(size) = 0 /\ Heads(file) = {}
    BY DEF Init, Heads
  <1>2. Dense(file, size, start) /\ Ended(file)
    BY <1>1 DEF Dense, Tiled, Linked, Truthful, Placed, Ended
  <1>3. OffsetFollows
    <2>1. InBlock(0) = 0
      BY FileStarts
    <2> QED
      BY <1>1, <2>1 DEF OffsetFollows, Init
  <1>4. Appending
    BY <1>1, <1>2, <1>3 DEF Appending, Init
  <1>5. Receiving
    BY DEF Receiving, Init
  <1> QED
    BY <1>4, <1>5 DEF Exact, Counters, Init

LEMMA AddRecordAppends ==
  ASSUME Inv, Appending, NEW n \in Sizes, AddRecord(n)
  PROVE  Appending'
  <1>1. /\ TypeOK /\ Layout(file, size, start) /\ phase = "idle"
        /\ Dense(file, size, start) /\ Ended(file) /\ OffsetFollows
        /\ HeadersSound(file, size, start) /\ n \in Nat
    BY LogAssumption DEF Inv, Writing, AddRecord, Appending, Layout
  <1>2. PICK l \in Nat, k \in Nat : l = Len(file) /\ k = Len(size)
    BY <1>1 DEF TypeOK
  <1>3. PICK z \in Seq(Nat), s \in Seq(Nat) : z = Append(size, n) /\ s = Append(start, l)
    <2>1. size \in Seq(Nat) /\ start \in Seq(Nat)
      BY <1>1 DEF TypeOK
    <2>2. Append(size, n) \in Seq(Nat) /\ Append(start, l) \in Seq(Nat)
      BY <1>1, <2>1, AppendProperties
    <2> QED
      BY <2>2
  <1>4. /\ Len(z) = k + 1 /\ Len(s) = k + 1 /\ z[k + 1] = n /\ s[k + 1] = l
        /\ \A i \in 1..k : z[i] = size[i] /\ s[i] = start[i]
    BY <1>1, <1>2, <1>3 DEF TypeOK
  <1>5. Placed(file, z, s)
    <2>1. ASSUME NEW id \in 1..Len(z), s[id] < Len(file)
          PROVE  /\ s[id] + 1 \in Heads(file)
                 /\ file[s[id] + 1][2] = id
                 /\ file[s[id] + 1][3] \in {kFullType, kFirstType}
      <3>1. id # k + 1
        BY <1>2, <1>4, <2>1
      <3>2. id \in 1..k /\ id \in 1..Len(size)
        BY <1>2, <1>4, <3>1
      <3> QED
        BY <1>1, <1>4, <2>1, <3>2 DEF Dense, Placed
    <2>2. ASSUME NEW p \in Heads(file)
          PROVE  z[file[p][2]] = size[file[p][2]] /\ s[file[p][2]] = start[file[p][2]]
      <3>1. file[p][2] \in 1..k
        BY <1>1, <1>2 DEF HeadersSound, HeaderSound
      <3> QED
        BY <1>4, <3>1
    <2>3. ASSUME NEW p \in Heads(file)
          PROVE  /\ s[file[p][2]] <= p - 1
                 /\ Behind(file, p) <= Reach(s[file[p][2]], z[file[p][2]])
                 /\ file[p][3] \in {kFullType, kLastType} =>
                      Behind(file, p) = Reach(s[file[p][2]], z[file[p][2]])
                 /\ file[p][3] \in {kFirstType, kMiddleType} =>
                      Behind(file, p) < Reach(s[file[p][2]], z[file[p][2]])
      BY <1>1, <2>2, Zenon DEF Dense, Placed
    <2> QED
      BY <2>1, <2>3, Zenon DEF Placed
  <1>6. Dense(file, z, s)
    BY <1>1, <1>5 DEF Dense
  <1>7. \A p \in Heads(file) : Behind(file, p) = Len(file) => file[p][3] \in {kFullType, kLastType}
    BY <1>1 DEF Appending
  <1>8. \A id \in 1..Len(z) : s[id] < Len(file) \/ id = Len(z)
    <2> SUFFICES ASSUME NEW id \in 1..Len(z), id # Len(z) PROVE s[id] < Len(file)
      OBVIOUS
    <2>1. id \in 1..k /\ id \in 1..Len(size)
      BY <1>2, <1>4
    <2> QED
      BY <1>1, <1>4, <2>1 DEF Appending
  <1>9. /\ size' = z /\ start' = s /\ left' = n /\ begin' = TRUE /\ phase' = "emit"
        /\ UNCHANGED <<file, block_offset, rd, damage, dropped>>
    BY <1>2, <1>3 DEF AddRecord, readerVars
  <1>10. ~rd.eof /\ rd.last = 0 /\ rd.initial = 0 /\ damage = <<>> /\ dropped = 0
    BY <1>1 DEF Appending
  <1>11. /\ Heads(file)' = Heads(file) /\ Ended(file)' = Ended(file)
         /\ Dense(file, size, start)' = Dense(file, z, s) /\ OffsetFollows' = OffsetFollows
    BY <1>9 DEF Heads, Ended, Dense, Tiled, Linked, Truthful, Placed, Behind, OffsetFollows
  <1> QED
    BY <1>1, <1>2, <1>4, <1>6, <1>7, <1>8, <1>9, <1>10, <1>11 DEF Appending

\* A crash cuts off the end of the file and begins a reader.
LEMMA CrashReceives ==
  ASSUME Inv, Appending, NEW n \in 0..Len(file), NEW initial \in InitialOffsets, Crash(n, initial)
  PROVE  Receiving'
  <1>1. /\ TypeOK /\ phase \in {"idle", "emit"} /\ Layout(file, size, start)
        /\ Dense(file, size, start) /\ HeadersSound(file, size, start)
        /\ file \in Seq(Bytes) /\ start \in Seq(Nat) /\ Len(start) = Len(size)
    BY DEF Inv, Writing, Crash, Appending, Layout, TypeOK
  <1>2. /\ returned = <<>> /\ rd.lo = 0 /\ rd.hi = 0 /\ ~rd.fragmented
        /\ ~rd.eof /\ rd.last = 0 /\ damage = <<>> /\ dropped = 0
        /\ rd \in ReaderStates /\ initial \in Nat
    BY <1>1, LogAssumption DEF Inv, Writing, Appending, TypeOK
  <1>3. PICK v \in Seq(Bytes) : v = file' /\ Len(v) = n /\ \A i \in 1..n : v[i] = file[i]
    <2>1. file' = SubSeq(file, 1, n)
      BY DEF Crash
    <2>2. SubSeq(file, 1, n) \in Seq(Bytes) /\ Len(SubSeq(file, 1, n)) = n
          /\ \A i \in 1..n : SubSeq(file, 1, n)[i] = file[i]
      BY <1>1
    <2> QED
      BY <2>1, <2>2
  <1>4. /\ rd' = [rd EXCEPT !.initial = initial, !.resyncing = initial > 0]
        /\ phase' = "read" /\ size' = size /\ start' = start
        /\ returned' = <<>> /\ damage' = <<>> /\ dropped' = 0
    BY <1>2 DEF Crash, writerVars
  <1>5. /\ rd'.lo = 0 /\ rd'.hi = 0 /\ ~rd'.eof /\ ~rd'.fragmented /\ rd'.last = 0
        /\ rd'.initial = initial /\ rd'.resyncing = (initial > 0)
    BY <1>2, <1>4 DEF ReaderStates
  <1>6. Len(v) <= Len(file) /\ \A i \in 1..Len(v) : v[i] = file[i]
    BY <1>3
  <1>7. Dense(v, size, start)
    BY <1>1, <1>6, DensePart
  <1>8. HeadersSound(v, size, start)
    <2>1. \A p \in Heads(v) : p \in Heads(file) /\ v[p] = file[p]
      BY <1>1, <1>6 DEF Heads
    <2> QED
      BY <1>1, <2>1 DEF HeadersSound
  <1>9. InBlock(0) = 0 /\ Onward(0) = 0
    <2>2. InBlock(0) = 0
      BY FileStarts
    <2> QED
      BY <2>2, OnwardFacts
  <1>10. Written(v)'
    BY <1>3 DEF Written
  <1>11. DamageKnown(v)'
    BY <1>3 DEF DamageKnown
  <1>12. Reads(v)'
    <2>1. Position(v)'
      BY <1>3, <1>5, <1>9 DEF Position, Buffered
    <2>2. Unfinishing(v)' /\ Fresh'
      BY <1>5 DEF Unfinishing, Fresh
    <2>3. Sought'
      BY <1>5 DEF Sought
    <2>4. Between(v)'
      <3> SUFFICES ASSUME ~rd'.resyncing, NEW q \in Heads(v), q = Onward(0) + 1
                   PROVE  v[q][3] \in {kFullType, kFirstType}
        BY <1>5 DEF Between
      <3>1. q = 1
        BY <1>9
      <3> QED
        BY <1>7, <3>1 DEF Dense, Linked
    <2> QED
      BY <2>1, <2>2, <2>3, <2>4 DEF Reads
  <1>13. Delivers'
    <2>1. \A id \in 1..Len(size) : start[id] >= 0
      BY <1>1, ElementOfSeq
    <2>2. \A id \in 1..Len(size)' : Coming(id)'
      BY <1>4, <1>5, <2>1 DEF Coming
    <2> QED
      BY <1>4, <2>2 DEF Delivers
  <1>14. HeadersSound(v, size, start)' /\ Dense(v, size, start)'
    BY <1>4, <1>7, <1>8
  <1> QED
    BY <1>4, <1>10, <1>11, <1>12, <1>13, <1>14 DEF Receiving

\* Bytes are damaged before the first block is read: every record is to come.
LEMMA DamageReceives ==
  ASSUME Inv, Counters, Receiving, NEW p \in 1..Len(file), Damage(p)
  PROVE  Receiving'
  <1>1. /\ TypeOK /\ file \in Seq(Bytes) /\ phase = "read" /\ rd.hi = 0
        /\ rd.lo \in Nat /\ start \in Seq(Nat) /\ Len(start) = Len(size)
        /\ damage \in Seq({"H", "h", "P", "Z", "X"}) /\ file[p] # Garbage
    BY DEF Inv, TypeOK, ReaderStates, Damage, Counters
  <1>2. PICK w : /\ Written(w) /\ HeadersSound(w, size, start) /\ Dense(w, size, start)
                 /\ DamageKnown(w) /\ Reads(w)
    BY <1>1 DEF Receiving
  <1>3. PICK f \in Seq(Bytes) : /\ f = file' /\ Len(f) = Len(file)
                                /\ \A i \in 1..Len(file) : f[i] = IF i = p THEN Garbage ELSE file[i]
    <2>1. file' = [file EXCEPT ![p] = Garbage]
      BY DEF Damage
    <2>2. Garbage \in Bytes
      BY ByteFacts
    <2>3. PICK f \in Seq(Bytes) : f = [file EXCEPT ![p] = Garbage]
      BY <1>1, <2>2, ExceptSeq
    <2>4. Len(f) = Len(file) /\ \A i \in 1..Len(file) : f[i] = IF i = p THEN Garbage ELSE file[i]
      BY <1>1, <2>2, <2>3, ExceptSeq
    <2> QED
      BY <2>1, <2>3, <2>4
  <1>4. /\ UNCHANGED <<size, start, phase, rd, returned, dropped>>
        /\ damage' = Append(damage, file[p][1])
    BY DEF Damage, writerVars, readerVars
  <1>5. file[p][1] \in {"H", "h", "P", "Z", "X"}
    <2>1. file[p] \in Bytes
      BY <1>1, ElementOfSeq
    <2> QED
      BY <2>1 DEF Bytes
  <1>6. PICK n \in Nat : n = Len(damage)
    BY <1>1
  <1>7. /\ Len(damage') = n + 1 /\ damage'[n + 1] = file[p][1]
        /\ \A i \in 1..n : damage'[i] = damage[i]
    BY <1>1, <1>4, <1>5, <1>6
  <1>8. damage' # <<>>
    BY <1>6, <1>7
  <1>9. Written(w)'
    <2>1. ASSUME NEW y \in 1..Len(w) PROVE f[y] \in {w[y], Garbage}
      BY <1>2, <1>3 DEF Written
    <2> QED
      BY <1>2, <1>3, <2>1 DEF Written
  <1>10. DamageKnown(w)'
    <2> SUFFICES ASSUME NEW y \in 1..Len(w)
                 PROVE  \/ f[y] = w[y]
                        \/ f[y] = Garbage /\ \E i \in 1..(n + 1) : damage'[i] = w[y][1]
      BY <1>3, <1>7 DEF DamageKnown
    <2>0. y \in 1..Len(file)
      BY <1>2 DEF Written
    <2>1. CASE y = p
      <3>1. f[y] = Garbage /\ file[y] = w[y]
        BY <1>1, <1>2, <1>3, <2>0, <2>1 DEF Written
      <3>2. damage'[n + 1] = w[y][1] /\ n + 1 \in 1..(n + 1)
        BY <1>6, <1>7, <2>1, <3>1
      <3> QED
        BY <3>1, <3>2
    <2>2. CASE y # p
      <3>1. f[y] = file[y]
        BY <1>3, <2>0, <2>2
      <3>2. \/ file[y] = w[y]
            \/ file[y] = Garbage /\ \E i \in 1..n : damage[i] = w[y][1]
        BY <1>2, <1>6 DEF DamageKnown
      <3>3. ASSUME NEW i \in 1..n, damage[i] = w[y][1]
            PROVE  i \in 1..(n + 1) /\ damage'[i] = w[y][1]
        BY <1>7, <3>3
      <3> QED
        BY <3>1, <3>2, <3>3
    <2> QED
      BY <2>1, <2>2
  <1>11. Reads(w)'
    <2>1. Position(w)' /\ Unfinishing(w)' /\ Fresh' /\ Sought'
      BY <1>2, <1>3, <1>4 DEF Reads, Position, Unfinishing, Fresh, Sought, Buffered, Aligned, Behind
    <2>2. Between(w)'
      BY <1>8 DEF Between
    <2> QED
      BY <2>1, <2>2 DEF Reads
  <1>12. Delivers'
    <2>1. ASSUME NEW id \in 1..Len(size) PROVE rd.lo <= start[id]
      <3>1. PICK x \in Nat : x = start[id]
        BY <1>1, ElementOfSeq
      <3>2. rd.lo <= 0
        BY <1>1, <1>2 DEF Reads, Position
      <3> QED
        BY <1>1, <3>1, <3>2
    <2>2. \A id \in 1..Len(size)' : Coming(id)'
      BY <1>4, <2>1 DEF Coming
    <2>3. \A i \in 1..Len(returned) : WholeInFile(returned[i].offset)
      BY <1>1 DEF Receiving, Delivers
    <2>4. \A i \in 1..Len(returned)' : WholeInFile(returned[i].offset)'
      BY <1>3, <1>4, <2>3 DEF WholeInFile, End
    <2> QED
      BY <1>1, <1>4, <1>8, <2>2, <2>4 DEF Delivers
  <1>13. HeadersSound(w, size, start)' /\ Dense(w, size, start)'
    BY <1>2, <1>4
  <1> QED
    BY <1>9, <1>10, <1>11, <1>12, <1>13 DEF Receiving

\* The block a reader with an initial offset begins with.
LEMMA FirstBlock ==
  ASSUME NEW initial \in Nat, initial = rd.initial
  PROVE  /\ SkipToInitialBlock \in Nat /\ InBlock(SkipToInitialBlock) = 0
         /\ InBlock(initial) = 0 => SkipToInitialBlock = initial
         /\ \A x \in Nat : x >= initial /\ InBlock(x) + 7 <= kBlockSize => x >= SkipToInitialBlock
  <1>1. PICK b \in Nat : b = kBlockSize /\ b >= 8
    BY BlockSize
  <1>2. PICK s \in Nat, m \in 0..(b - 1) : s = BlockAt(initial) /\ m = InBlock(initial)
    <2>1. BlockAt(initial) \in Nat /\ InBlock(initial) \in 0..(b - 1)
      BY <1>1, Places
    <2> QED
      BY <2>1
  <1>3. initial = s + m
    BY <1>2, Places
  <1>4. PICK t \in Nat : t = s + b
    OBVIOUS
  <1>5. SkipToInitialBlock = IF m > b - 6 THEN t ELSE s
    <2>1. rd.initial % kBlockSize = m /\ rd.initial - m = s
      <3>1. initial - m = s
        BY <1>3
      <3> QED
        BY <1>2, <3>1 DEF InBlock
    <2> QED
      BY <1>1, <1>4, <2>1 DEF SkipToInitialBlock
  <1>6. InBlock(s) = 0 /\ BlockAt(s) = s
    BY <1>2, BlockBegins
  <1>7. InBlock(t) = 0
    <2>1. InBlock(s) + b = kBlockSize
      BY <1>1, <1>6
    <2> QED
      BY <1>4, <2>1, Onwards
  <1>8. ASSUME NEW x \in Nat, x >= initial, InBlock(x) + 7 <= kBlockSize, m > b - 6
        PROVE  x >= t
    <2> SUFFICES ASSUME x < t PROVE FALSE
      BY <1>4
    <2>1. PICK d \in Nat : x = s + d /\ d < b /\ d >= m
      <3>1. x - s \in Nat /\ x = s + (x - s) /\ x - s < b /\ x - s >= m
        BY <1>3, <1>4, <1>8
      <3> QED
        BY <3>1
    <2>2. InBlock(s) + d < kBlockSize
      BY <1>1, <1>6, <2>1
    <2>3. InBlock(x) = d
      BY <1>6, <2>1, <2>2, Onwards
    <2>4. d + 7 <= b
      BY <1>1, <1>8, <2>3
    <2> QED
      BY <1>8, <2>1, <2>4
  <1>9. ASSUME NEW x \in Nat, x >= initial PROVE x >= s
    BY <1>3, <1>9
  <1>10. CASE m > b - 6
    <2>1. m # 0
      BY <1>1, <1>10
    <2> QED
      BY <1>2, <1>5, <1>7, <1>8, <1>10, <2>1
  <1>11. CASE ~(m > b - 6)
    <2>1. m = 0 => s = initial
      BY <1>3
    <2> QED
      BY <1>2, <1>5, <1>6, <1>9, <1>11, <2>1
  <1> QED
    BY <1>10, <1>11

\* A record that is wholly in the file begins with a header.
LEMMA RecordBegins ==
  ASSUME TypeOK, NEW w, Written(w), Dense(w, size, start), NEW id \in 1..Len(size)
  PROVE  /\ start[id] \in Nat /\ size[id] \in Nat /\ End(id) \in Nat
         /\ End(id) >= start[id] + 7
         /\ start[id] < Len(file) =>
              /\ start[id] + 1 \in Heads(w) /\ w[start[id] + 1][2] = id
              /\ w[start[id] + 1][3] \in {kFullType, kFirstType}
              /\ InBlock(start[id]) + 7 <= kBlockSize
  <1>1. PICK x \in Nat, n \in Nat : x = start[id] /\ n = size[id]
    <2>1. start \in Seq(Nat) /\ size \in Seq(Nat) /\ Len(start) = Len(size)
      BY DEF TypeOK
    <2> QED
      BY <2>1, ElementOfSeq
  <1>2. End(id) \in Nat /\ End(id) >= x + 7
    BY <1>1, ReachFacts DEF End
  <1>3. ASSUME x < Len(file)
        PROVE  /\ x + 1 \in Heads(w) /\ w[x + 1][2] = id
               /\ w[x + 1][3] \in {kFullType, kFirstType}
               /\ InBlock(x) + 7 <= kBlockSize
    <2>1. Len(w) = Len(file) /\ w \in Seq(Bytes)
      BY DEF Written
    <2>2. x + 1 \in Heads(w) /\ w[x + 1][2] = id /\ w[x + 1][3] \in {kFullType, kFirstType}
      BY <1>1, <1>3, <2>1 DEF Dense, Placed
    <2>3. InBlock(x + 1 - 1) + 7 + w[x + 1][4] <= kBlockSize
      BY <2>2 DEF Dense, Tiled
    <2>4. PICK k \in Nat : k = w[x + 1][4]
      BY <2>1, <2>2, HeadFacts
    <2>5. PICK m \in Nat : m = InBlock(x)
      BY BlockSize, Places
    <2>6. x + 1 - 1 = x
      OBVIOUS
    <2>7. m + 7 + k <= kBlockSize
      BY <2>3, <2>4, <2>5, <2>6
    <2> QED
      BY <2>2, <2>5, <2>7, BlockSize
  <1> QED
    BY <1>1, <1>2, <1>3

\* The next block begins where the last one ended, or where the initial offset
\* says: no record that is to come is passed over.
LEMMA RefillReceives ==
  ASSUME Inv, Receiving, Refill
  PROVE  Receiving'
  <1>1. /\ TypeOK /\ phase = "read" /\ rd \in ReaderStates /\ file \in Seq(Bytes)
        /\ ~rd.eof /\ rd.hi - rd.lo < 7
        /\ UNCHANGED <<file, size, start, phase, damage, returned, dropped>>
    BY DEF Inv, TypeOK, Refill, writerVars, Buffered
  <1>2. PICK w : /\ Written(w) /\ HeadersSound(w, size, start) /\ Dense(w, size, start)
                 /\ DamageKnown(w) /\ Reads(w)
    BY <1>1 DEF Receiving
  <1>3. Delivers
    BY <1>1 DEF Receiving
  <1>4. PICK b \in Nat : b = kBlockSize /\ b >= 8
    BY BlockSize
  <1>5. PICK lo \in Nat, hi \in Nat, l \in Nat, initial \in Nat :
          lo = rd.lo /\ hi = rd.hi /\ l = Len(file) /\ initial = rd.initial
    BY <1>1 DEF ReaderStates
  <1>6. lo <= hi /\ hi - lo < 7 /\ InBlock(hi) = 0
    BY <1>1, <1>2, <1>5 DEF Reads, Position
  <1>7. lo < hi => hi = BlockAt(lo) + b
    BY <1>1, <1>2, <1>4, <1>5 DEF Reads, Position
  <1>8. PICK skips \in BOOLEAN : skips <=> rd.last < initial /\ hi = 0
    OBVIOUS
  <1>9. /\ SkipToInitialBlock \in Nat /\ InBlock(SkipToInitialBlock) = 0
        /\ InBlock(initial) = 0 => SkipToInitialBlock = initial
        /\ \A x \in Nat : x >= initial /\ InBlock(x) + 7 <= kBlockSize => x >= SkipToInitialBlock
    BY <1>5, FirstBlock
  <1>10. PICK from \in Nat : from = IF skips THEN SkipToInitialBlock ELSE hi
    BY <1>9
  <1>11. PICK to \in Nat : to = IF from + b > l THEN (IF from > l THEN from ELSE l) ELSE from + b
    OBVIOUS
  <1>12. PICK e \in BOOLEAN : e <=> to - from < b
    OBVIOUS
  <1>13. rd' = [rd EXCEPT !.lo = from, !.hi = to, !.eof = e]
    <2>1. rd' = [rd EXCEPT !.lo = from, !.hi = to, !.eof = to - from < kBlockSize]
      <3>1. from = IF rd.last < rd.initial /\ rd.hi = 0 THEN SkipToInitialBlock ELSE rd.hi
        BY <1>5, <1>8, <1>10
      <3>2. to = IF from + kBlockSize > Len(file)
                 THEN (IF from > Len(file) THEN from ELSE Len(file)) ELSE from + kBlockSize
        BY <1>4, <1>5, <1>11
      <3> QED
        BY <3>1, <3>2 DEF Refill
    <2>2. e = (to - from < kBlockSize)
      BY <1>4, <1>12
    <2> QED
      BY <2>1, <2>2
  <1>14. /\ rd'.lo = from /\ rd'.hi = to /\ rd'.eof = e /\ rd'.initial = initial
         /\ rd'.resyncing = rd.resyncing /\ rd'.fragmented = rd.fragmented
         /\ rd'.prospective = rd.prospective /\ rd'.last = rd.last
    BY <1>1, <1>5, <1>13 DEF ReaderStates
  <1>15. InBlock(from) = 0
    BY <1>6, <1>9, <1>10
  <1>16. BlockAt(from) = from /\ Onward(from) = from
    <2>1. from = BlockAt(from) + InBlock(from) /\ BlockAt(from) \in Nat
      BY Places
    <2>2. PICK s \in Nat : s = BlockAt(from)
      BY <2>1
    <2>3. from = s + 0
      BY <1>15, <2>1, <2>2
    <2> QED
      BY <1>15, <2>2, <2>3, OnwardFacts
  <1>17. /\ from <= to /\ to <= from + b
         /\ ~e => to = from + b
         /\ e => to >= l
         /\ from < to => to <= l
    BY <1>11, <1>12
  <1>18. Position(w)'
    <2>1. ~e => InBlock(to) = 0
      <3>1. InBlock(from) + b = kBlockSize
        BY <1>4, <1>15
      <3> QED
        BY <1>17, <3>1, Onwards
    <2>2. to - from >= 7 => from + 1 \in Heads(w)
      <3> SUFFICES ASSUME to - from >= 7 PROVE from + 1 \in Heads(w)
        OBVIOUS
      <3>1. from < l /\ Len(w) = l
        BY <1>2, <1>5, <1>17 DEF Written
      <3> QED
        BY <1>2, <1>15, <3>1 DEF Dense, Tiled
    <2> QED
      BY <1>1, <1>4, <1>5, <1>14, <1>16, <1>17, <2>1, <2>2 DEF Position, Buffered
  <1>19. rd.fragmented => from = lo
    <2> SUFFICES ASSUME rd.fragmented PROVE from = lo
      OBVIOUS
    <2>1. PICK p \in Heads(w) : w[p][3] \in {kFirstType, kMiddleType} /\ lo = Behind(w, p)
      BY <1>2, <1>5 DEF Reads, Unfinishing
    <2>2. InBlock(lo) = 0
      BY <1>2, <2>1 DEF Dense, Linked
    <2>3. hi # 0
      BY <1>1, <1>2, <1>5 DEF Reads, Fresh
    <2>4. from = hi
      BY <1>8, <1>10, <2>3
    <2>5. lo = hi
      <3> SUFFICES ASSUME lo < hi PROVE FALSE
        BY <1>6
      <3>1. lo = BlockAt(lo) + InBlock(lo) /\ BlockAt(lo) \in Nat
        BY Places
      <3>2. PICK s \in Nat : s = BlockAt(lo)
        BY <3>1
      <3>3. lo = s + 0
        BY <2>2, <3>1, <3>2
      <3>4. hi = s + b
        BY <1>7, <3>2
      <3> QED
        BY <1>4, <1>6, <3>3, <3>4
    <2> QED
      BY <2>4, <2>5
  <1>20. Unfinishing(w)'
    BY <1>1, <1>2, <1>5, <1>14, <1>19 DEF Reads, Unfinishing, Behind
  <1>21. Fresh'
    BY <1>4, <1>14, <1>17 DEF Fresh
  <1>22. hi = 0 => skips = (initial > 0)
    BY <1>1, <1>2, <1>5, <1>8 DEF Reads, Fresh
  <1>23. Sought'
    <2> SUFFICES ASSUME InBlock(initial) = 0 PROVE from >= initial
      BY <1>14 DEF Sought, Aligned
    <2>1. CASE hi = 0
      <3>1. CASE skips
        BY <1>9, <1>10, <2>1, <3>1
      <3>2. CASE ~skips
        <4>1. ~(initial > 0)
          BY <1>22, <2>1, <3>2
        <4> QED
          BY <1>10, <3>2, <4>1
      <3> QED
        BY <3>1, <3>2
    <2>2. CASE hi # 0
      <3>1. lo >= initial
        BY <1>2, <1>5, <2>2 DEF Reads, Sought, Aligned
      <3> QED
        BY <1>6, <1>8, <1>10, <2>2, <3>1
    <2> QED
      BY <2>1, <2>2
  <1>24. Between(w)'
    <2> SUFFICES ASSUME damage = <<>>, InBlock(initial) = 0, ~rd.fragmented, ~rd.resyncing,
                        NEW q \in Heads(w), q = Onward(from) + 1
                 PROVE  w[q][3] \in {kFullType, kFirstType}
      BY <1>1, <1>14 DEF Between, Aligned
    <2>1. ~skips
      BY <1>1, <1>2, <1>5, <1>8, <1>22 DEF Reads, Fresh
    <2>2. from = hi
      BY <1>10, <2>1
    <2>3. Onward(lo) = hi
      <3>1. CASE lo = hi
        BY <1>16, <2>2, <3>1
      <3>2. CASE lo < hi
        <4>0. BlockAt(lo) \in Nat /\ InBlock(lo) \in 0..(b - 1)
          BY <1>4, Places
        <4>1. PICK s \in Nat, m \in Nat : s = BlockAt(lo) /\ m = InBlock(lo)
          BY <1>4, <4>0
        <4>2. lo = s + m
          BY <4>1, Places
        <4>3. hi = s + b
          BY <1>7, <3>2, <4>1
        <4>4. m + 7 > b
          BY <1>6, <4>2, <4>3
        <4> QED
          BY <1>4, <4>1, <4>3, <4>4 DEF Onward
      <3> QED
        BY <1>6, <3>1, <3>2
    <2> QED
      BY <1>2, <1>5, <1>16, <2>2, <2>3 DEF Reads, Between, Aligned
  <1>25. Delivers'
    <2>1. ASSUME NEW id \in 1..Len(size), Kept(id), Coming(id)
          PROVE  from <= start[id] \/ (rd.fragmented /\ rd.prospective = start[id])
      <3>1. PICK x \in Nat : x = start[id] /\ x >= initial /\ x < l /\ InBlock(x) + 7 <= b
        <4>1. PICK x \in Nat, r \in Nat : x = start[id] /\ r = End(id) /\ r >= x + 7
          BY <1>1, <1>2, RecordBegins
        <4>2. x >= initial /\ r <= l
          BY <1>5, <2>1, <4>1 DEF Kept
        <4>3. x < l
          BY <4>1, <4>2
        <4>4. InBlock(x) + 7 <= b
          BY <1>1, <1>2, <1>4, <1>5, <4>1, <4>3, RecordBegins
        <4> QED
          BY <4>1, <4>2, <4>3, <4>4
      <3>2. CASE skips
        BY <1>4, <1>9, <1>10, <3>1, <3>2
      <3>3. CASE ~skips /\ lo <= x
        <4> SUFFICES ASSUME x < hi PROVE FALSE
          BY <1>10, <3>1, <3>3
        <4>1. lo < hi
          BY <3>3
        <4>2. PICK s \in Nat : s = BlockAt(lo) /\ s <= lo /\ hi = s + b
          BY <1>7, <4>1, Places
        <4>3. s <= x /\ x < s + b
          BY <3>3, <4>2
        <4>4. BlockAt(lo) <= x /\ x < BlockAt(lo) + kBlockSize
          BY <1>4, <4>2, <4>3
        <4>5. BlockAt(x) = s
          BY <4>2, <4>4, InSameBlock
        <4>9. InBlock(x) \in 0..(b - 1)
          BY <1>4, Places
        <4>6. PICK m \in Nat : m = InBlock(x)
          BY <1>4, <4>9
        <4>7. x = s + m
          BY <4>5, <4>6, Places
        <4>8. m + 7 <= b
          BY <3>1, <4>6
        <4> QED
          BY <1>6, <3>3, <4>2, <4>7, <4>8
      <3> QED
        BY <1>5, <2>1, <3>1, <3>2, <3>3 DEF Coming
    <2>2. ASSUME NEW id \in 1..Len(size) PROVE Kept(id)' <=> Kept(id)
      BY <1>1, <1>5, <1>14 DEF Kept, Unharmed, Quiet, End, Aligned
    <2>3. ASSUME NEW id \in 1..Len(size) PROVE Returned(id)' <=> Returned(id)
      BY <1>1 DEF Returned
    <2>4. ASSUME NEW id \in 1..Len(size), Kept(id)' PROVE Returned(id)' \/ (phase' = "read" /\ Coming(id)')
      BY <1>1, <1>3, <1>14, <2>1, <2>2, <2>3, <2>4 DEF Delivers, Coming
    <2>5. \A i \in 1..Len(returned)' : WholeInFile(returned[i].offset)'
      BY <1>1, <1>3 DEF Delivers, WholeInFile, End
    <2> QED
      BY <1>1, <1>3, <1>5, <1>14, <2>4, <2>5 DEF Delivers, Aligned
  <1>26. Reads(w)'
    BY <1>18, <1>20, <1>21, <1>23, <1>24 DEF Reads
  <1>27. /\ Written(w)' /\ HeadersSound(w, size, start)' /\ Dense(w, size, start)'
         /\ DamageKnown(w)'
    BY <1>1, <1>2 DEF Written, DamageKnown
  <1> QED
    BY <1>25, <1>26, <1>27 DEF Receiving

-----------------------------------------------------------------------------
(* What ReadPhysicalRecord finds at a header of such a file.               *)

\* The fragment as it was written
Taken(w, o) ==
  /\ rd.lo + 1 \in Heads(w) /\ o.lo = Behind(w, rd.lo + 1) /\ o.lo <= rd.hi
  /\ rd.lo >= rd.initial /\ o.type = w[rd.lo + 1][3]
  /\ o.data \in Seq(Bytes) /\ o.lo - kHeaderSize - Len(o.data) = rd.lo

\* A fragment before the initial offset
Passed(w, o) ==
  /\ rd.lo + 1 \in Heads(w) /\ o.lo = Behind(w, rd.lo + 1) /\ o.lo <= rd.hi
  /\ rd.lo < rd.initial /\ o.type = kBadRecord

\* The end of the file, before the end of a fragment
CutOff(w, o) ==
  /\ rd.eof /\ o.type = kEof
  /\ Buffered < kHeaderSize \/ (rd.lo + 1 \in Heads(w) /\ Behind(w, rd.lo + 1) > Len(file))

\* A damaged byte in this block: of a payload, which is reported, or of a header
Lost(w, o) ==
  /\ rd.lo < rd.hi /\ rd.lo + 1 \in Heads(w) /\ o.lo = rd.hi
  /\ o.type = kBadRecord \/ (o.type = kEof /\ rd.eof)
  /\ \E y \in 1..Len(file) :
       /\ file[y] = Garbage /\ BlockAt(rd.lo) <= y - 1 /\ y - 1 < BlockAt(rd.lo) + kBlockSize
       /\ w[y][1] \in {"H", "h", "P"}
       /\ w[y][1] = "P" =>
            o.type = kBadRecord /\ o.drops = ReportDrop(rd.hi, rd.hi, Buffered)

LEMMA Reported ==
  ASSUME NEW hi, NEW lo, NEW bytes
  PROVE  ReportDrop(hi, lo, bytes) \in {0, 1}
  BY DEF ReportDrop

LEMMA PhysicalOutcomes ==
  ASSUME TypeOK, NEW w, Written(w), Dense(w, size, start), Position(w),
         rd.resyncing => ~rd.fragmented,
         Buffered >= kHeaderSize \/ rd.eof, NEW o \in ReadPhysicalRecord
  PROVE  /\ o.drops \in {0, 1}
         /\ Taken(w, o) \/ Passed(w, o) \/ CutOff(w, o) \/ Lost(w, o)
  <1>1. PICK lo \in Nat, hi \in Nat, l \in Nat : lo = rd.lo /\ hi = rd.hi /\ l = Len(file)
    BY DEF TypeOK, ReaderStates
  <1>2. PICK b \in Nat : b = kBlockSize /\ b >= 8
    BY BlockSize
  <1>3. /\ lo <= hi /\ (rd.eof => hi >= l)
        /\ lo < hi => hi <= l /\ hi <= BlockAt(lo) + b /\ (~rd.eof => hi = BlockAt(lo) + b)
        /\ hi - lo >= 7 => lo + 1 \in Heads(w)
    BY <1>1, <1>2 DEF Position, Buffered
  <1>4. Buffered = hi - lo
    BY <1>1 DEF Buffered
  <1>5. CASE Buffered < 7
    <2>1. o = Outcome(kEof, <<>>, rd.hi, 0)
      BY <1>5 DEF ReadPhysicalRecord
    <2>2. o.type = kEof /\ o.drops = 0 /\ rd.eof
      BY <1>1, <1>4, <1>5, <2>1 DEF Outcome
    <2> QED
      BY <1>5, <2>2 DEF CutOff
  <1>6. CASE ~(Buffered < 7)
    <2>1. o \in Parsed /\ Buffered >= 7 /\ hi - lo >= 7 /\ lo < hi
      BY <1>1, <1>4, <1>6 DEF ReadPhysicalRecord
    <2>2. PICK p \in Nat : p = lo + 1
      OBVIOUS
    <2>3. p \in Heads(w) /\ hi <= l /\ hi <= BlockAt(lo) + b
      BY <1>3, <2>1, <2>2
    <2>4. /\ w \in Seq(Bytes) /\ Len(w) = l
          /\ \A y \in 1..l : file[y] = w[y] \/ file[y] = Garbage
      BY <1>1 DEF Written
    <2>5. PICK n \in Nat, id \in Nat, base \in Nat :
            n = w[p][4] /\ id = w[p][2] /\ base = w[p][5]
      BY <2>3, <2>4, HeadFacts
    <2>6. w[p][1] = "H" /\ Garbage[1] = "X"
      BY <2>3, <2>4, HeadFacts DEF Garbage
    <2>7. Behind(w, p) = lo + 7 + n
      BY <2>2, <2>5 DEF Behind
    <2>8. PICK s \in Nat, m \in Nat : s = BlockAt(lo) /\ m = InBlock(lo)
      <3>1. BlockAt(lo) \in Nat /\ InBlock(lo) \in 0..(b - 1)
        BY <1>2, Places
      <3> QED
        BY <1>2, <3>1
    <2>9. lo = s + m
      BY <2>8, Places
    <2>10. m + 7 + n <= b
      <3>1. InBlock(p - 1) + 7 + w[p][4] <= kBlockSize
        BY <2>3 DEF Dense, Tiled
      <3>2. p - 1 = lo
        BY <2>2
      <3> QED
        BY <1>2, <2>5, <2>8, <3>1, <3>2
    <2>11. lo + 7 + n <= s + b
      BY <2>9, <2>10
    <2>12. /\ \A i \in 2..7 : w[lo + i] = <<"h", id, base, i, 0>>
           /\ \A i \in 1..n : lo + 7 + i <= l => w[lo + 7 + i] = PayloadByte(id, base + i)
      <3>1. ASSUME NEW i \in 2..7 PROVE w[lo + i] = <<"h", id, base, i, 0>>
        <4>1. p + i - 1 = lo + i /\ lo + i <= l
          BY <2>1, <2>2, <2>3
        <4>2. p + i - 1 <= Len(w) => w[p + i - 1] = <<"h", w[p][2], w[p][5], i, 0>>
          BY <2>3 DEF Dense, Truthful
        <4> QED
          BY <2>4, <2>5, <4>1, <4>2
      <3>2. ASSUME NEW i \in 1..n, lo + 7 + i <= l PROVE w[lo + 7 + i] = PayloadByte(id, base + i)
        <4>1. p + 6 + i = lo + 7 + i
          BY <2>2, <2>5
        <4>2. i \in 1..w[p][4]
          BY <2>5
        <4>3. p + 6 + i <= Len(w) => w[p + 6 + i] = PayloadByte(w[p][2], w[p][5] + i)
          BY <2>3, <4>2 DEF Dense, Truthful
        <4> QED
          BY <2>4, <2>5, <3>2, <4>1, <4>3
      <3> QED
        BY <3>1, <3>2
    <2>13. At(1) = file[p]
      BY <1>1, <2>2 DEF At
    <2>14. At(1)[1] = "H" => At(1) = w[p]
      <3>1. p \in 1..l
        BY <2>1, <2>2, <2>3
      <3> QED
        BY <2>4, <2>6, <2>13, <3>1
    <2>15. CASE HeaderIntact
      <3>1. At(1) = w[p]
        BY <2>14, <2>15 DEF HeaderIntact
      <3>2. At(1)[4] = n
        BY <2>5, <3>1
      <3>3. CASE 7 + n > Buffered
        <4>1. o = BadLength
          BY <2>1, <2>15, <3>2, <3>3 DEF Parsed
        <4>2. lo + 7 + n > hi
          BY <1>4, <3>3
        <4>3. rd.eof
          BY <1>3, <2>1, <2>8, <2>11, <4>2
        <4>4. o.type = kEof /\ o.drops = 0
          BY <4>1, <4>3 DEF BadLength, Outcome
        <4>5. lo + 7 + n > l
          BY <1>3, <4>2, <4>3
        <4>6. rd.lo + 1 \in Heads(w) /\ Behind(w, rd.lo + 1) > Len(file)
          BY <1>1, <2>2, <2>3, <2>7, <4>5
        <4> QED
          BY <4>3, <4>4, <4>6 DEF CutOff
      <3>4. CASE ~(7 + n > Buffered) /\ ~ChecksumOk(n)
        <4>1. o = Mismatch
          BY <2>1, <2>15, <3>2, <3>4 DEF Parsed
        <4>2. /\ o.type = kBadRecord /\ o.lo = rd.hi /\ o.drops = ReportDrop(rd.hi, rd.hi, Buffered)
          BY <4>1 DEF Mismatch, Outcome
        <4>3. lo + 7 + n <= hi
          BY <1>4, <3>4
        <4>4. PICK i \in 1..n : At(7 + i) # <<"P", At(1)[2], At(1)[5] + i, 0, 0>>
          BY <3>4 DEF ChecksumOk
        <4>5. PICK y \in Nat : y = lo + 7 + i /\ y \in 1..l /\ y - 1 >= s /\ y - 1 < s + b
          <5>1. PICK y \in Nat : y = lo + 7 + i
            OBVIOUS
          <5>2. i <= n /\ i >= 1 /\ y <= lo + 7 + n
            BY <5>1
          <5>3. y \in 1..l
            BY <2>3, <4>3, <5>1, <5>2
          <5>4. y - 1 >= s
            BY <2>9, <5>1
          <5> QED
            BY <2>11, <5>1, <5>2, <5>3, <5>4
        <4>6. At(7 + i) = file[y]
          <5>1. lo + (7 + i) = y
            BY <4>5
          <5> QED
            BY <1>1, <5>1 DEF At
        <4>7. w[y] = <<"P", id, base + i, 0, 0>>
          BY <2>12, <4>5 DEF PayloadByte
        <4>8. file[y] = Garbage
          BY <2>4, <2>5, <3>1, <4>4, <4>5, <4>6, <4>7
        <4>9. Lost(w, o)
          <5>1. w[y][1] = "P"
            BY <4>7
          <5>2. /\ y \in 1..Len(file) /\ BlockAt(rd.lo) <= y - 1
                /\ y - 1 < BlockAt(rd.lo) + kBlockSize
            BY <1>1, <1>2, <2>8, <4>5
          <5>3. rd.lo < rd.hi /\ rd.lo + 1 \in Heads(w)
            BY <1>1, <2>1, <2>2, <2>3
          <5> QED
            BY <4>2, <4>8, <5>1, <5>2, <5>3 DEF Lost
        <4> QED
          BY <4>2, <4>9, Reported
      <3>5. CASE ~(7 + n > Buffered) /\ ChecksumOk(n)
        <4>1. Buffer
          BY <1>1, <1>3 DEF Buffer
        <4>2. PICK data : data = SubSeq(file, rd.lo + 7 + 1, rd.lo + 7 + n)
          OBVIOUS
        <4>3. data = Payload(id, base, n)
          <5>1. w[rd.lo + 1][2] = id /\ w[rd.lo + 1][5] = base
            BY <1>1, <2>2, <2>5
          <5>2. data = Payload(w[rd.lo + 1][2], w[rd.lo + 1][5], n)
            BY <2>1, <2>15, <3>2, <3>5, <4>1, <4>2, IntactRecord
          <5> QED
            BY <5>1, <5>2
        <4>4. Len(data) = n /\ data \in Seq(Bytes)
          BY <4>3, PayloadFacts
        <4>5. lo + 7 + n <= hi
          BY <1>4, <3>5
        <4>6. CASE rd.lo < rd.initial
          <5>1. o = Outcome(kBadRecord, <<>>, rd.lo + 7 + n, 0)
            BY <2>1, <2>15, <3>2, <3>5, <4>6 DEF Parsed
          <5>2. o.lo = lo + 7 + n /\ o.type = kBadRecord /\ o.drops = 0
            BY <1>1, <5>1 DEF Outcome
          <5>3. Passed(w, o)
            BY <1>1, <2>2, <2>3, <2>7, <4>5, <4>6, <5>2 DEF Passed
          <5> QED
            BY <5>2, <5>3
        <4>7. CASE ~(rd.lo < rd.initial)
          <5>1. o = Outcome(At(1)[3], data, rd.lo + 7 + n, 0)
            BY <2>1, <2>15, <3>2, <3>5, <4>2, <4>7 DEF Parsed
          <5>2. o.lo = lo + 7 + n /\ o.type = w[p][3] /\ o.data = data /\ o.drops = 0
            BY <1>1, <3>1, <5>1 DEF Outcome
          <5>3. lo + 7 + n - 7 - Len(data) = lo
            BY <4>4
          <5>4. rd.lo >= rd.initial
            BY <4>7 DEF TypeOK, ReaderStates
          <5>5. Taken(w, o)
            BY <1>1, <2>2, <2>3, <2>7, <4>4, <4>5, <5>2, <5>3, <5>4 DEF Taken
          <5> QED
            BY <5>2, <5>5
        <4> QED
          BY <4>6, <4>7
      <3> QED
        BY <3>3, <3>4, <3>5
    <2>16. CASE ~HeaderIntact
      <3>1. o \in {BadLength, Mismatch, Preallocated}
        BY <2>1, <2>16 DEF Parsed
      <3>2. /\ o.lo = rd.hi /\ o.drops \in {0, 1}
            /\ o.type = kBadRecord \/ (o.type = kEof /\ rd.eof)
        BY <3>1, Reported DEF BadLength, Mismatch, Preallocated, Outcome
      <3>3. PICK i \in 1..7 : file[lo + i] # w[lo + i] /\ w[lo + i][1] \in {"H", "h"}
        <4>1. CASE At(1)[1] # "H"
          <5>1. file[lo + 1] # w[lo + 1] /\ w[lo + 1][1] \in {"H", "h"}
            BY <2>2, <2>6, <2>13, <4>1
          <5> QED
            BY <5>1
        <4>2. CASE At(1)[1] = "H"
          <5>1. PICK i \in 2..7 : At(i) # <<"h", At(1)[2], At(1)[5], i, 0>>
            BY <2>16, <4>2 DEF HeaderIntact
          <5>2. w[lo + i] = <<"h", id, base, i, 0>> /\ At(i) = file[lo + i]
            BY <1>1, <2>12 DEF At
          <5>3. file[lo + i] # w[lo + i]
            BY <2>5, <2>14, <4>2, <5>1, <5>2
          <5> QED
            BY <5>2, <5>3
        <4> QED
          BY <4>1, <4>2
      <3>4. PICK y \in Nat : y = lo + i /\ y \in 1..l /\ s <= y - 1 /\ y - 1 < s + b
        BY <2>1, <2>3, <2>9, <2>11
      <3>5. file[y] = Garbage
        BY <2>4, <3>3, <3>4
      <3>6. Lost(w, o)
        BY <1>1, <1>2, <2>1, <2>2, <2>3, <2>8, <3>2, <3>3, <3>4, <3>5 DEF Lost
      <3> QED
        BY <3>2, <3>6
    <2> QED
      BY <2>15, <2>16
  <1> QED
    BY <1>5, <1>6

\* Where the record of a header begins and ends.
LEMMA HeaderOf ==
  ASSUME TypeOK, NEW w, Written(w), Dense(w, size, start), HeadersSound(w, size, start),
         NEW p \in Heads(w), NEW id, id = w[p][2]
  PROVE  /\ id \in 1..Len(size) /\ start[id] \in Nat /\ End(id) \in Nat
         /\ start[id] <= p - 1 /\ Behind(w, p) <= End(id)
         /\ w[p][3] \in {kFullType, kFirstType, kMiddleType, kLastType}
         /\ w[p][3] \in {kFullType, kFirstType} => start[id] = p - 1
         /\ w[p][3] \in {kFullType, kLastType} => Behind(w, p) = End(id)
         /\ w[p][3] \in {kFirstType, kMiddleType} => Behind(w, p) < End(id)
  <1>1. /\ id \in 1..Len(size)
        /\ w[p][3] \in {kFullType, kFirstType, kMiddleType, kLastType}
        /\ w[p][3] \in {kFullType, kFirstType} => start[id] = p - 1
    BY DEF HeadersSound, HeaderSound
  <1>2. start[id] \in Nat /\ End(id) \in Nat
    BY <1>1, RecordBegins
  <1>3. /\ start[id] <= p - 1 /\ Behind(w, p) <= End(id)
        /\ w[p][3] \in {kFullType, kLastType} => Behind(w, p) = End(id)
        /\ w[p][3] \in {kFirstType, kMiddleType} => Behind(w, p) < End(id)
    BY DEF Dense, Placed, End
  <1> QED
    BY <1>1, <1>2, <1>3

\* Two records do not begin in the same place.
LEMMA SameRecord ==
  ASSUME TypeOK, NEW w, Written(w), Dense(w, size, start),
         NEW id \in 1..Len(size), NEW other \in 1..Len(size),
         start[id] = start[other], start[id] < Len(file)
  PROVE  id = other
  <1>1. w[start[id] + 1][2] = id
    BY RecordBegins
  <1>2. w[start[other] + 1][2] = other
    BY RecordBegins
  <1> QED
    BY <1>1, <1>2

\* An unfinished record goes on at the reader's place.
LEMMA Continuing ==
  ASSUME TypeOK, NEW w, Written(w), Dense(w, size, start), HeadersSound(w, size, start),
         Unfinishing(w), rd.fragmented
  PROVE  /\ ~rd.resyncing /\ InBlock(rd.lo) = 0 /\ Onward(rd.lo) = rd.lo
         /\ \E id \in 1..Len(size) :
              /\ rd.prospective = start[id] /\ start[id] < rd.lo /\ rd.lo < End(id)
              /\ start[id] < Len(file)
              /\ rd.lo + 1 \in Heads(w) =>
                   /\ w[rd.lo + 1][2] = id /\ w[rd.lo + 1][3] \in {kMiddleType, kLastType}
  <1>1. PICK q \in Heads(w) : /\ w[q][3] \in {kFirstType, kMiddleType}
                              /\ rd.prospective = start[w[q][2]] /\ rd.lo = Behind(w, q)
    BY DEF Unfinishing
  <1>2. PICK id : id = w[q][2]
    OBVIOUS
  <1>3. w \in Seq(Bytes) /\ Len(w) = Len(file) /\ Len(file) \in Nat
    BY DEF Written, TypeOK
  <1>4. PICK x \in Nat, lo \in Nat, k \in Nat : x = start[id] /\ lo = rd.lo /\ k = q /\ k <= Len(w)
    <2>1. start[id] \in Nat
      BY <1>2, HeaderOf
    <2>2. rd.lo \in Nat /\ q \in Nat /\ q <= Len(w)
      BY <1>3, HeadFacts DEF TypeOK, ReaderStates
    <2> QED
      BY <2>1, <2>2
  <1>5. id \in 1..Len(size) /\ x <= k - 1 /\ lo < End(id)
    BY <1>1, <1>2, <1>4, HeaderOf
  <1>6. lo >= k + 6
    BY <1>1, <1>3, <1>4, HeadFacts
  <1>7. x < lo /\ x < Len(file)
    BY <1>3, <1>4, <1>5, <1>6
  <1>8. InBlock(lo) = 0 /\ Onward(lo) = lo
    <2>1. InBlock(lo) = 0
      BY <1>1, <1>4 DEF Dense, Linked
    <2> QED
      BY <2>1, OnwardFacts
  <1>9. ASSUME lo + 1 \in Heads(w)
        PROVE  w[lo + 1][2] = id /\ w[lo + 1][3] \in {kMiddleType, kLastType}
    <2>1. lo + 1 = Onward(Behind(w, q)) + 1
      BY <1>1, <1>4, <1>8
    <2>2. Follows(w[q], w[lo + 1])
      BY <1>9, <2>1 DEF Dense, Linked
    <2> QED
      BY <1>1, <1>2, <2>2 DEF Follows
  <1>10. ~rd.resyncing
    BY DEF Unfinishing
  <1> QED
    BY <1>1, <1>2, <1>4, <1>5, <1>7, <1>8, <1>9, <1>10

\* A record that is to come lies behind the fragment at the reader's place, or
\* begins or goes on with it.
LEMMA StillComing ==
  ASSUME TypeOK, NEW w, Written(w), Dense(w, size, start), HeadersSound(w, size, start),
         Unfinishing(w), rd.lo + 1 \in Heads(w),
         NEW id \in 1..Len(size), Coming(id), start[id] < Len(file)
  PROVE  \/ start[id] >= Behind(w, rd.lo + 1)
         \/ /\ w[rd.lo + 1][2] = id /\ start[id] = rd.lo
            /\ w[rd.lo + 1][3] \in {kFullType, kFirstType}
         \/ /\ w[rd.lo + 1][2] = id /\ start[id] < rd.lo
            /\ rd.fragmented /\ rd.prospective = start[id]
            /\ w[rd.lo + 1][3] \in {kMiddleType, kLastType}
  <1>1. PICK x \in Nat, lo \in Nat : x = start[id] /\ lo = rd.lo
    BY RecordBegins DEF TypeOK, ReaderStates
  <1>2. PICK p \in Nat : p = lo + 1 /\ p \in Heads(w)
    BY <1>1
  <1>3. w \in Seq(Bytes)
    BY DEF Written
  <1>4. CASE lo <= x
    <2>1. /\ x + 1 \in Heads(w) /\ w[x + 1][2] = id
          /\ w[x + 1][3] \in {kFullType, kFirstType}
      BY <1>1, RecordBegins
    <2>2. CASE lo = x
      BY <1>1, <2>1, <2>2
    <2>3. CASE lo # x
      <3>1. p < x + 1
        BY <1>2, <1>4, <2>3
      <3>2. Behind(w, p) < x + 1
        BY <1>2, <2>1, <3>1 DEF Dense, Tiled
      <3>3. PICK k \in Nat : k = Behind(w, p)
        BY <1>2, <1>3, HeadFacts
      <3>4. x >= k
        BY <3>2, <3>3
      <3> QED
        BY <1>1, <1>2, <3>3, <3>4
    <2> QED
      BY <2>2, <2>3
  <1>5. CASE ~(lo <= x)
    <2>1. rd.fragmented /\ rd.prospective = x
      BY <1>1, <1>5 DEF Coming
    <2>2. PICK other \in 1..Len(size) :
             /\ rd.prospective = start[other] /\ start[other] < rd.lo
             /\ w[rd.lo + 1][2] = other /\ w[rd.lo + 1][3] \in {kMiddleType, kLastType}
      BY <2>1, Continuing
    <2>3. start[id] = start[other]
      BY <1>1, <2>1, <2>2
    <2>4. id = other
      BY <2>3, SameRecord
    <2> QED
      BY <1>1, <2>1, <2>2, <2>4
  <1> QED
    BY <1>4, <1>5

\* The reader goes on behind the fragment at its place, or with the next block.
LEMMA ReaderMoves ==
  ASSUME TypeOK, NEW w, Written(w), Dense(w, size, start), Position(w), Sought,
         rd.lo < rd.hi \/ rd.eof,
         NEW x \in Nat, \/ x = rd.hi
                        \/ rd.lo + 1 \in Heads(w) /\ x = Behind(w, rd.lo + 1) /\ x <= rd.hi,
         rd'.lo = x, rd'.hi = rd.hi, rd'.eof = rd.eof, rd'.initial = rd.initial,
         file' = file
  PROVE  Position(w)' /\ Fresh' /\ Sought'
  <1>1. PICK lo \in Nat, hi \in Nat, l \in Nat, initial \in Nat :
          lo = rd.lo /\ hi = rd.hi /\ l = Len(file) /\ initial = rd.initial
    BY DEF TypeOK, ReaderStates
  <1>2. PICK b \in Nat : b = kBlockSize /\ b >= 8
    BY BlockSize
  <1>3. /\ lo <= hi /\ (rd.eof => hi >= l) /\ (~rd.eof => InBlock(hi) = 0)
        /\ lo < hi => hi <= l /\ hi <= BlockAt(lo) + b /\ (~rd.eof => hi = BlockAt(lo) + b)
    BY <1>1, <1>2 DEF Position
  <1>4. w \in Seq(Bytes) /\ Len(w) = l
    BY <1>1 DEF Written
  <1>5. lo <= x /\ x <= hi
    <2>1. CASE x = hi
      BY <1>3, <2>1
    <2>2. CASE x # hi
      <3>1. rd.lo + 1 \in Heads(w) /\ x = Behind(w, rd.lo + 1) /\ x <= hi
        BY <1>1, <2>2
      <3>2. x >= lo + 1 + 6
        BY <1>1, <1>4, <3>1, HeadFacts
      <3> QED
        BY <3>1, <3>2
    <2> QED
      BY <2>1, <2>2
  <1>6. PICK s \in Nat : s = BlockAt(lo) /\ s <= lo
    BY Places
  <1>7. ASSUME x < hi
        PROVE  /\ lo < hi /\ BlockAt(x) = s
               /\ hi - x >= 7 => x + 1 \in Heads(w)
    <2>1. lo < hi /\ hi <= s + b
      BY <1>3, <1>5, <1>6, <1>7
    <2>2. s <= x /\ x < s + b
      BY <1>5, <1>6, <1>7, <2>1
    <2>3. BlockAt(lo) <= x /\ x < BlockAt(lo) + kBlockSize
      BY <1>2, <1>6, <2>2
    <2>4. BlockAt(x) = s
      BY <1>6, <2>3, InSameBlock
    <2>5. ASSUME hi - x >= 7 PROVE x + 1 \in Heads(w)
      <3>1. PICK m \in Nat : m = InBlock(x)
        <4>1. InBlock(x) \in 0..(b - 1)
          BY <1>2, Places
        <4> QED
          BY <1>2, <4>1
      <3>2. x = s + m
        BY <2>4, <3>1, Places
      <3>3. m + 7 <= b
        BY <2>1, <2>5, <3>2
      <3>4. InBlock(x) + 7 <= kBlockSize
        BY <1>2, <3>1, <3>3
      <3>5. Onward(x) = x
        BY <3>4, OnwardFacts
      <3>6. PICK p : p \in Heads(w) /\ x = Behind(w, p)
        BY <1>1, <1>7
      <3>7. x < Len(w)
        BY <1>3, <1>4, <1>7, <2>1
      <3> QED
        BY <3>5, <3>6, <3>7 DEF Dense, Tiled
    <2> QED
      BY <2>1, <2>4, <2>5
  <1>8. Position(w)'
    <2>1. x < hi => /\ hi <= l /\ hi <= BlockAt(x) + b
                    /\ ~rd.eof => hi = BlockAt(x) + b
      BY <1>3, <1>6, <1>7
    <2>2. hi - x >= 7 => x + 1 \in Heads(w)
      BY <1>5, <1>7
    <2> QED
      BY <1>1, <1>2, <1>3, <1>5, <2>1, <2>2 DEF Position, Buffered
  <1>9. Fresh'
    BY <1>1 DEF Fresh
  <1>10. Sought'
    <2> SUFFICES ASSUME InBlock(initial) = 0 PROVE x >= initial
      BY <1>1 DEF Sought, Aligned
    <2>1. hi # 0 \/ rd.eof
      BY <1>1
    <2>2. lo >= initial
      BY <1>1, <2>1 DEF Sought, Aligned
    <2> QED
      BY <1>5, <2>2
  <1> QED
    BY <1>8, <1>9, <1>10

-----------------------------------------------------------------------------
(* What ReadRecord does with it.                                           *)

\* w is the file as it was written, and the reader is at its place in it
Serving(w) ==
  /\ Written(w) /\ HeadersSound(w, size, start) /\ Dense(w, size, start) /\ DamageKnown(w)
  /\ phase = "read" => Reads(w)
  /\ Delivers

\* Nothing is lost if every record that is to come still is, or is returned.
LEMMA DeliversAgain ==
  ASSUME TypeOK, Counters, Delivers, phase = "read",
         UNCHANGED <<file, size, start, damage>>, rd'.initial = rd.initial,
         dropped' \in Nat, dropped' >= dropped,
         damage = <<>> /\ Aligned => dropped' = dropped,
         \/ returned' = returned
         \/ \E item \in Items : returned' = Append(returned, item) /\ WholeInFile(item.offset),
         \A id \in 1..Len(size) :
           Kept(id) /\ Kept(id)' /\ Coming(id) => Returned(id)' \/ (phase' = "read" /\ Coming(id)')
  PROVE  Delivers'
  <1>1. returned \in Seq(Items) /\ dropped \in Nat
    BY DEF TypeOK, Counters
  <1>2. ASSUME NEW offset, WholeInFile(offset) PROVE WholeInFile(offset)'
    BY <1>2 DEF WholeInFile, End
  <1>3. ASSUME NEW i \in 1..Len(returned) PROVE WholeInFile(returned[i].offset)
    BY DEF Delivers
  <1>4. ASSUME NEW item \in Items, returned' = Append(returned, item)
        PROVE  /\ Len(returned') = Len(returned) + 1 /\ returned'[Len(returned) + 1] = item
               /\ \A i \in 1..Len(returned) : returned'[i] = returned[i]
    BY <1>1, <1>4
  <1>5. \A i \in 1..Len(returned)' : WholeInFile(returned[i].offset)'
    <2>1. CASE returned' = returned
      BY <1>2, <1>3, <2>1
    <2>2. CASE returned' # returned
      <3>1. PICK item \in Items : returned' = Append(returned, item) /\ WholeInFile(item.offset)
        BY <2>2
      <3>2. PICK n \in Nat : n = Len(returned)
        BY <1>1
      <3>3. Len(returned') = n + 1 /\ returned'[n + 1] = item
            /\ \A i \in 1..n : returned'[i] = returned[i]
        BY <1>4, <3>1, <3>2
      <3>4. ASSUME NEW i \in 1..(n + 1) PROVE WholeInFile(returned'[i].offset)
        <4>1. CASE i = n + 1
          BY <3>1, <3>3, <4>1
        <4>2. CASE i # n + 1
          BY <1>3, <3>2, <3>3, <4>2
        <4> QED
          BY <4>1, <4>2
      <3> QED
        BY <1>2, <3>3, <3>4
    <2> QED
      BY <2>1, <2>2
  <1>6. ASSUME NEW id \in 1..Len(size), Returned(id)
        PROVE  Returned(id)'
    <2>1. PICK i \in 1..Len(returned) : returned[i].offset = start[id]
      BY <1>6 DEF Returned
    <2>2. PICK n \in Nat : n = Len(returned)
      BY <1>1
    <2>3. i \in 1..Len(returned') /\ returned'[i] = returned[i]
      <3>1. CASE returned' = returned
        BY <3>1
      <3>2. CASE returned' # returned
        <4>1. PICK item \in Items : returned' = Append(returned, item)
          BY <3>2
        <4>2. Len(returned') = n + 1 /\ \A j \in 1..n : returned'[j] = returned[j]
          BY <1>4, <2>2, <4>1
        <4> QED
          BY <2>2, <4>2
      <3> QED
        BY <3>1, <3>2
    <2> QED
      BY <2>1, <2>3 DEF Returned
  <1>7. ASSUME NEW id \in 1..Len(size), Kept(id)'
        PROVE  Kept(id)
    <2>1. dropped' = 0 => dropped = 0
      BY <1>1
    <2> QED
      BY <1>7, <2>1 DEF Kept, Unharmed, Quiet, End, Aligned
  <1>8. \A id \in 1..Len(size)' : Kept(id)' => Returned(id)' \/ (phase' = "read" /\ Coming(id)')
    BY <1>6, <1>7 DEF Delivers
  <1>9. (damage = <<>> /\ Aligned => dropped = 0)'
    BY DEF Delivers, Aligned
  <1> QED
    BY <1>5, <1>8, <1>9 DEF Delivers

\* The reader ends where the file was cut off: all that is wholly in it is read.
LEMMA CutOffServes ==
  ASSUME TypeOK, Counters, phase = "read", NEW w, Serving(w), NEW o, CutOff(w, o), ReadEof(o),
         UNCHANGED <<file, size, start, damage>>
  PROVE  Serving(w)'
  <1>1. /\ Written(w) /\ HeadersSound(w, size, start) /\ Dense(w, size, start) /\ DamageKnown(w)
        /\ Position(w) /\ Unfinishing(w) /\ Delivers
    BY DEF Serving, Reads
  <1>2. /\ phase' = "eof" /\ returned' = returned /\ dropped' = dropped
        /\ rd'.initial = rd.initial
    BY DEF ReadEof, TypeOK, ReaderStates
  <1>3. PICK lo \in Nat, hi \in Nat, l \in Nat :
          lo = rd.lo /\ hi = rd.hi /\ l = Len(file) /\ l = Len(w) /\ w \in Seq(Bytes)
    BY <1>1 DEF TypeOK, ReaderStates, Written
  <1>4. hi >= l /\ rd.eof
    BY <1>3, <1>1 DEF CutOff, Position
  <1>5. ASSUME NEW id \in 1..Len(size), Kept(id), Coming(id) PROVE FALSE
    <2>1. PICK x \in Nat, end \in Nat : x = start[id] /\ end = End(id) /\ end >= x + 7 /\ end <= l
      <3>1. PICK x \in Nat, end \in Nat : x = start[id] /\ end = End(id) /\ end >= x + 7
        BY <1>1, RecordBegins
      <3> QED
        BY <1>3, <1>5, <3>1 DEF Kept
    <2>2. start[id] < Len(file)
      BY <1>3, <2>1
    <2>3. ASSUME lo + 1 \in Heads(w)
          PROVE  \E e \in Nat : e = Behind(w, lo + 1) /\ e >= lo + 7 /\ e <= l
      <3>1. PICK e \in Nat : e = Behind(w, lo + 1) /\ e >= lo + 7
        <4>1. PICK q \in Nat : q = lo + 1
          OBVIOUS
        <4>2. Behind(w, q) \in Nat /\ Behind(w, q) >= q + 6
          BY <1>3, <2>3, <4>1, HeadFacts
        <4> QED
          BY <4>1, <4>2
      <3>2. x >= e \/ w[lo + 1][2] = id
        BY <1>1, <1>3, <1>5, <2>1, <2>2, <2>3, <3>1, StillComing
      <3>3. ASSUME w[lo + 1][2] = id PROVE e <= end
        BY <1>1, <2>1, <2>3, <3>1, <3>3, HeaderOf
      <3> QED
        BY <2>1, <3>1, <3>2, <3>3
    <2>4. CASE Buffered < 7
      <3>1. hi - lo < 7
        BY <1>3, <2>4 DEF Buffered
      <3>2. ~(lo <= x)
        BY <1>4, <2>1, <3>1
      <3>3. rd.fragmented /\ rd.prospective = x
        BY <1>3, <1>5, <2>1, <3>2 DEF Coming
      <3>4. PICK other \in 1..Len(size) :
               rd.prospective = start[other] /\ rd.lo < End(other)
        BY <1>1, <3>3, Continuing
      <3>5. other = id
        BY <1>1, <2>1, <2>2, <3>3, <3>4, SameRecord
      <3>6. lo < l
        BY <1>3, <2>1, <3>4, <3>5
      <3>7. InBlock(lo) = 0
        BY <1>1, <1>3, <3>3, Continuing
      <3>8. lo + 1 \in Heads(w)
        BY <1>1, <1>3, <3>6, <3>7 DEF Dense, Tiled
      <3> QED
        BY <1>4, <2>3, <3>1, <3>8
    <2>5. CASE ~(Buffered < 7)
      <3>1. lo + 1 \in Heads(w) /\ Behind(w, lo + 1) > l
        BY <1>3, <2>5 DEF CutOff
      <3> QED
        BY <2>3, <3>1
    <2> QED
      BY <2>4, <2>5
  <1>6. Delivers'
    <2>1. dropped \in Nat
      BY DEF Counters
    <2> QED
      BY <1>1, <1>2, <1>5, <2>1, DeliversAgain
  <1>7. (phase = "read" => Reads(w))'
    BY <1>2
  <1>8. /\ Written(w)' /\ HeadersSound(w, size, start)' /\ Dense(w, size, start)' /\ DamageKnown(w)'
    BY <1>1 DEF Written, DamageKnown
  <1> QED
    BY <1>6, <1>7, <1>8 DEF Serving

\* What damage makes the reader pass over is in the block of the damaged byte.
LEMMA LostKept ==
  ASSUME TypeOK, Counters, phase = "read", NEW w, Serving(w), NEW o, Lost(w, o),
         damage' = damage, rd'.initial = rd.initial,
         o.type = kBadRecord => dropped' # 0 \/ o.drops = 0,
         NEW id \in 1..Len(size), Kept(id), Kept(id)', Coming(id), file' = file,
         size' = size, start' = start
  PROVE  start[id] >= rd.hi
  <1>1. /\ Written(w) /\ HeadersSound(w, size, start) /\ Dense(w, size, start) /\ DamageKnown(w)
        /\ Position(w) /\ Unfinishing(w) /\ Sought
    BY DEF Serving, Reads
  <1>2. PICK lo \in Nat, hi \in Nat, l \in Nat, initial \in Nat :
          lo = rd.lo /\ hi = rd.hi /\ l = Len(file) /\ l = Len(w) /\ w \in Seq(Bytes)
          /\ initial = rd.initial
    BY <1>1 DEF TypeOK, ReaderStates, Written
  <1>3. PICK b \in Nat : b = kBlockSize /\ b >= 8
    BY BlockSize
  <1>4. lo < hi /\ lo + 1 \in Heads(w)
    BY <1>2 DEF Lost
  <1>5. PICK y \in 1..Len(file) :
          /\ file[y] = Garbage /\ BlockAt(lo) <= y - 1 /\ y - 1 < BlockAt(lo) + kBlockSize
          /\ w[y][1] \in {"H", "h", "P"}
          /\ w[y][1] = "P" => o.type = kBadRecord /\ o.drops = ReportDrop(rd.hi, rd.hi, Buffered)
    BY <1>2 DEF Lost
  <1>6. PICK s \in Nat : s = BlockAt(lo) /\ s <= lo
    BY Places
  <1>7. hi <= s + b
    BY <1>1, <1>2, <1>3, <1>4, <1>6 DEF Position
  <1>8. PICK x \in Nat, end \in Nat : x = start[id] /\ end = End(id) /\ end >= x + 7
    BY <1>1, RecordBegins
  <1>9. end <= l /\ x < l
    <2>1. end <= l
      BY <1>2, <1>8 DEF Kept
    <2> QED
      BY <1>8, <2>1
  <1> SUFFICES ASSUME x < hi PROVE FALSE
    BY <1>2, <1>8
  <1>10. PICK e \in Nat : e = Behind(w, lo + 1) /\ e >= lo + 7
    <2>1. PICK q \in Nat : q = lo + 1
      OBVIOUS
    <2>2. Behind(w, q) \in Nat /\ Behind(w, q) >= q + 6
      BY <1>2, <1>4, <2>1, HeadFacts
    <2> QED
      BY <2>1, <2>2
  <1>11. x >= e \/ w[lo + 1][2] = id
    BY <1>1, <1>2, <1>4, <1>8, <1>9, <1>10, StillComing
  <1>12. w[lo + 1][2] = id => e <= end
    BY <1>1, <1>4, <1>8, <1>10, HeaderOf
  <1>13. lo < end
    BY <1>8, <1>10, <1>11, <1>12
  <1>14. CASE Unharmed(id)
    <2>1. PICK f \in Nat, t \in Nat : f = BlockAt(x) /\ t = BlockAt(end - 1) /\ f <= x
      <3>1. end - 1 \in Nat
        BY <1>13
      <3> QED
        BY <3>1, Places
    <2>2. f <= s
      <3>1. CASE x <= lo
        BY <1>6, <2>1, <3>1, BlocksOrdered
      <3>2. CASE ~(x <= lo)
        <4>1. BlockAt(lo) <= x /\ x < BlockAt(lo) + kBlockSize
          BY <1>3, <1>6, <1>7, <3>2
        <4>2. BlockAt(x) = BlockAt(lo)
          BY <4>1, InSameBlock
        <4> QED
          BY <1>6, <2>1, <4>2
      <3> QED
        BY <3>1, <3>2
    <2>3. s <= t
      <3>1. end - 1 \in Nat /\ lo <= end - 1
        BY <1>13
      <3> QED
        BY <1>6, <2>1, <3>1, BlocksOrdered
    <2>4. y - 1 < f \/ y - 1 >= t + b
      <3>1. y - 1 < BlockAt(start[id]) \/ y - 1 >= BlockAt(End(id) - 1) + kBlockSize
        BY <1>5, <1>14 DEF Unharmed
      <3> QED
        BY <1>3, <1>8, <2>1, <3>1
    <2>5. s <= y - 1 /\ y - 1 < s + b
      BY <1>3, <1>5, <1>6
    <2> QED
      BY <2>2, <2>3, <2>4, <2>5
  <1>15. CASE ~Unharmed(id)
    <2>1. Quiet'
      <3>1. Unharmed(id)' <=> Unharmed(id)
        BY DEF Unharmed, End
      <3> QED
        BY <1>15, <3>1 DEF Kept
    <2>2. /\ dropped' = 0 /\ InBlock(initial) = 0
          /\ \A i \in 1..Len(damage) : damage[i] = "P"
      BY <1>2, <2>1 DEF Quiet, Aligned
    <2>3. w[y][1] = "P"
      <3>1. Garbage[1] = "X"
        BY DEF Garbage
      <3>2. y \in 1..Len(w)
        BY <1>2
      <3>3. \E i \in 1..Len(damage) : damage[i] = w[y][1]
        BY <1>1, <1>5, <3>1, <3>2 DEF DamageKnown
      <3> QED
        BY <2>2, <3>3
    <2>4. lo >= initial
      BY <1>1, <1>2, <1>4, <2>2 DEF Sought, Aligned
    <2>5. ReportDrop(rd.hi, rd.hi, Buffered) = 1
      <3>1. hi - (hi - hi) - (hi - lo) >= initial
        BY <2>4
      <3> QED
        BY <1>2, <3>1 DEF ReportDrop, Buffered
    <2> QED
      BY <1>5, <2>2, <2>3, <2>5
  <1> QED
    BY <1>14, <1>15

\* Nothing is passed over in a file that is not damaged.
LEMMA NothingLost ==
  ASSUME NEW w, DamageKnown(w), Written(w), NEW o, Lost(w, o)
  PROVE  damage # <<>>
  <1> SUFFICES ASSUME damage = <<>> PROVE FALSE
    OBVIOUS
  <1>1. PICK y \in 1..Len(file) : file[y] = Garbage /\ w[y][1] \in {"H", "h", "P"}
    BY DEF Lost
  <1>2. y \in 1..Len(w) /\ Garbage[1] = "X"
    BY DEF Written, Garbage
  <1>3. \E i \in 1..Len(damage) : damage[i] = w[y][1]
    BY <1>1, <1>2 DEF DamageKnown
  <1> QED
    BY <1>3

\* What a bad physical record counts as is a number.
LEMMA BadCounts ==
  ASSUME Counters, NEW o, o.drops \in {0, 1}, ReadBad(o)
  PROVE  /\ dropped' \in Nat /\ dropped' >= dropped + o.drops
         /\ ~rd.fragmented /\ o.drops = 0 => dropped' = dropped
  <1>1. PICK r \in {0, 1} : r = IF rd.fragmented THEN ReportDrop(rd.hi, o.lo, Len(rd.scratch)) ELSE 0
    BY Reported
  <1>2. dropped' = dropped + o.drops + r /\ dropped \in Nat
    BY <1>1 DEF ReadBad, Counters
  <1> QED
    BY <1>1, <1>2

LEMMA LostServes ==
  ASSUME TypeOK, Counters, phase = "read", NEW w, Serving(w), NEW o, Lost(w, o),
         o.drops \in {0, 1}, ReadBad(o) \/ ReadEof(o), UNCHANGED <<file, size, start, damage>>
  PROVE  Serving(w)' /\ dropped' \in Nat
  <1>1. /\ Written(w) /\ HeadersSound(w, size, start) /\ Dense(w, size, start) /\ DamageKnown(w)
        /\ Position(w) /\ Unfinishing(w) /\ Sought /\ Delivers
    BY DEF Serving, Reads
  <1>2. damage # <<>>
    BY <1>1, NothingLost
  <1>3. /\ rd'.lo = o.lo /\ rd'.hi = rd.hi /\ rd'.eof = rd.eof /\ rd'.initial = rd.initial
        /\ returned' = returned
    BY DEF ReadBad, ReadEof, TypeOK, ReaderStates
  <1>4. dropped \in Nat /\ dropped' \in Nat /\ dropped' >= dropped
    <2>1. CASE ReadBad(o)
      BY <2>1, BadCounts DEF Counters
    <2>2. CASE ReadEof(o)
      BY <2>2 DEF Counters, ReadEof
    <2> QED
      BY <2>1, <2>2
  <1>5. o.type = kBadRecord => dropped' # 0 \/ o.drops = 0
    <2> SUFFICES ASSUME o.type = kBadRecord PROVE dropped' # 0 \/ o.drops = 0
      OBVIOUS
    <2>1. ReadBad(o)
      BY DEF ReadEof
    <2>2. dropped' >= dropped + o.drops
      BY <2>1, BadCounts
    <2> QED
      BY <1>4, <2>2
  <1>6. o.lo = rd.hi /\ rd.lo < rd.hi /\ (o.type = kBadRecord \/ (o.type = kEof /\ rd.eof))
    BY DEF Lost
  <1>7. ASSUME NEW id \in 1..Len(size), Kept(id), Kept(id)', Coming(id)
        PROVE  phase' = "read" /\ Coming(id)'
    <2>1. start[id] >= rd.hi
      BY <1>3, <1>5, <1>7, LostKept
    <2>2. CASE ReadBad(o)
      <3>1. phase' = "read"
        BY <2>2 DEF ReadBad
      <3>2. rd'.lo <= start[id]
        <4>1. start[id] \in Nat /\ rd.hi \in Nat
          BY <1>1, RecordBegins DEF TypeOK, ReaderStates
        <4> QED
          BY <1>3, <1>6, <2>1, <4>1
      <3> QED
        BY <3>1, <3>2 DEF Coming
    <2>3. CASE ReadEof(o)
      <3>1. rd.eof
        BY <1>6, <2>3 DEF ReadEof
      <3>2. rd.hi >= Len(file)
        BY <1>1, <3>1 DEF Position
      <3>3. PICK x \in Nat, end \in Nat, l \in Nat, hi \in Nat :
              x = start[id] /\ end = End(id) /\ end >= x + 7 /\ l = Len(file) /\ hi = rd.hi
        <4>1. start[id] \in Nat /\ End(id) \in Nat /\ End(id) >= start[id] + 7
          BY <1>1, RecordBegins
        <4>2. rd.hi \in Nat /\ Len(file) \in Nat
          BY DEF TypeOK, ReaderStates
        <4> QED
          BY <4>1, <4>2
      <3>4. end <= l
        BY <1>7, <3>3 DEF Kept
      <3> QED
        BY <2>1, <3>2, <3>3, <3>4
    <2> QED
      BY <2>2, <2>3
  <1>8. Delivers'
    BY <1>1, <1>2, <1>3, <1>4, <1>7, DeliversAgain
  <1>9. phase' = "read" => Reads(w)'
    <2> SUFFICES ASSUME phase' = "read" PROVE Reads(w)'
      OBVIOUS
    <2>1. ReadBad(o)
      BY DEF ReadEof
    <2>2. ~rd'.fragmented
      BY <2>1 DEF ReadBad, TypeOK, ReaderStates
    <2>3. Position(w)' /\ Fresh' /\ Sought'
      <3>1. rd.hi \in Nat
        BY DEF TypeOK, ReaderStates
      <3> QED
        BY <1>1, <1>3, <1>6, <3>1, ReaderMoves
    <2>4. Unfinishing(w)' /\ Between(w)'
      BY <1>2, <2>2 DEF Unfinishing, Between
    <2> QED
      BY <2>3, <2>4 DEF Reads
  <1>10. /\ Written(w)' /\ HeadersSound(w, size, start)' /\ Dense(w, size, start)' /\ DamageKnown(w)'
    BY <1>1 DEF Written, DamageKnown
  <1> QED
    BY <1>4, <1>8, <1>9, <1>10 DEF Serving

\* A fragment before the initial offset is passed over: it is of a record that
\* begins before it.
LEMMA PassedServes ==
  ASSUME TypeOK, Counters, phase = "read", NEW w, Serving(w), NEW o, Passed(w, o),
         o.drops \in {0, 1}, ReadBad(o), UNCHANGED <<file, size, start, damage>>
  PROVE  Serving(w)' /\ dropped' \in Nat
  <1>1. /\ Written(w) /\ HeadersSound(w, size, start) /\ Dense(w, size, start) /\ DamageKnown(w)
        /\ Position(w) /\ Unfinishing(w) /\ Sought /\ Delivers
    BY DEF Serving, Reads
  <1>2. PICK lo \in Nat, hi \in Nat, initial \in Nat :
          lo = rd.lo /\ hi = rd.hi /\ w \in Seq(Bytes) /\ initial = rd.initial
    BY <1>1 DEF TypeOK, ReaderStates, Written
  <1>3. /\ lo + 1 \in Heads(w) /\ o.lo = Behind(w, lo + 1) /\ o.lo <= hi /\ lo < initial
    BY <1>2 DEF Passed
  <1>4. PICK e \in Nat : e = o.lo /\ e >= lo + 7
    <2>1. PICK q \in Nat : q = lo + 1
      OBVIOUS
    <2>2. Behind(w, q) \in Nat /\ Behind(w, q) >= q + 6
      BY <1>2, <1>3, <2>1, HeadFacts
    <2> QED
      BY <1>3, <2>1, <2>2
  <1>5. lo < hi
    BY <1>3, <1>4
  <1>6. ~Aligned
    BY <1>1, <1>2, <1>3, <1>5 DEF Sought
  <1>7. /\ rd'.lo = o.lo /\ rd'.hi = rd.hi /\ rd'.eof = rd.eof /\ rd'.initial = rd.initial
        /\ ~rd'.fragmented /\ returned' = returned /\ phase' = "read"
    BY DEF ReadBad, TypeOK, ReaderStates
  <1>8. dropped' \in Nat /\ dropped' >= dropped
    BY BadCounts DEF Counters
  <1>9. ASSUME NEW id \in 1..Len(size), Kept(id), Kept(id)', Coming(id)
        PROVE  phase' = "read" /\ Coming(id)'
    <2>1. PICK x \in Nat, end \in Nat : x = start[id] /\ end = End(id) /\ end >= x + 7
      BY <1>1, RecordBegins
    <2>2. x >= initial /\ end <= Len(file) /\ Len(file) \in Nat
      BY <1>2, <1>9, <2>1 DEF Kept, TypeOK
    <2>3. x < Len(file)
      BY <2>1, <2>2
    <2>4. x >= e \/ x <= lo
      <3>1. rd.lo + 1 \in Heads(w) /\ Behind(w, rd.lo + 1) = e /\ start[id] < Len(file)
        BY <1>2, <1>3, <1>4, <2>1, <2>3
      <3>2. start[id] >= Behind(w, rd.lo + 1) \/ start[id] = rd.lo \/ start[id] < rd.lo
        BY <1>1, <1>9, <3>1, StillComing
      <3> QED
        BY <1>2, <2>1, <3>1, <3>2
    <2>5. e <= x
      BY <1>3, <2>2, <2>4
    <2> QED
      BY <1>4, <1>7, <2>1, <2>5 DEF Coming
  <1>10. Delivers'
    BY <1>1, <1>6, <1>7, <1>8, <1>9, DeliversAgain
  <1>11. Reads(w)'
    <2>1. Position(w)' /\ Fresh' /\ Sought'
      BY <1>1, <1>2, <1>3, <1>4, <1>5, <1>7, ReaderMoves
    <2>2. Unfinishing(w)' /\ Between(w)'
      BY <1>6, <1>7 DEF Unfinishing, Between, Aligned
    <2> QED
      BY <2>1, <2>2 DEF Reads
  <1>12. /\ Written(w)' /\ HeadersSound(w, size, start)' /\ Dense(w, size, start)' /\ DamageKnown(w)'
    BY <1>1 DEF Written, DamageKnown
  <1> QED
    BY <1>8, <1>10, <1>11, <1>12 DEF Serving

\* The fragment e bytes long at lo, of record id, that the reader has come to.
Comes(w, o, lo, e, id) ==
  /\ lo = rd.lo /\ e = o.lo /\ e = Behind(w, lo + 1) /\ e >= lo + 7 /\ e <= Len(file)
  /\ lo + 1 \in Heads(w) /\ id = w[lo + 1][2]
  /\ o.type = w[lo + 1][3] /\ o.type \in {kFullType, kFirstType, kMiddleType, kLastType}
  /\ start[id] <= lo /\ start[id] < Len(file) /\ start[id] \in Nat
  /\ o.type \in {kFullType, kFirstType} => start[id] = lo /\ ~rd.fragmented
  /\ o.type \in {kFullType, kLastType} => e = End(id)
  /\ rd.fragmented => ~rd.resyncing /\ rd.prospective = start[id]
  /\ damage = <<>> /\ Aligned /\ ~rd.fragmented /\ ~rd.resyncing =>
       o.type \in {kFullType, kFirstType}
  /\ \A other \in 1..Len(size) : Kept(other) /\ Coming(other) =>
       start[other] >= e \/ other = id

LEMMA TakenFacts ==
  ASSUME TypeOK, phase = "read", NEW w, Serving(w), NEW o, Taken(w, o)
  PROVE  \E lo \in Nat, e \in Nat, id \in 1..Len(size) : Comes(w, o, lo, e, id)
  <1>1. /\ Written(w) /\ HeadersSound(w, size, start) /\ Dense(w, size, start)
        /\ Position(w) /\ Unfinishing(w) /\ Between(w)
    BY DEF Serving, Reads
  <1>2. PICK lo \in Nat, hi \in Nat, l \in Nat :
          lo = rd.lo /\ hi = rd.hi /\ l = Len(file) /\ w \in Seq(Bytes)
    BY <1>1 DEF TypeOK, ReaderStates, Written
  <1>3. PICK p \in Nat : p = lo + 1
    OBVIOUS
  <1>4. /\ p \in Heads(w) /\ o.lo = Behind(w, p) /\ o.lo <= hi /\ o.type = w[p][3]
    BY <1>2, <1>3 DEF Taken
  <1>5. PICK e \in Nat : e = o.lo /\ e >= lo + 7
    <2>1. Behind(w, p) \in Nat /\ Behind(w, p) >= p + 6
      BY <1>2, <1>4, HeadFacts
    <2> QED
      BY <1>3, <1>4, <2>1
  <1>6. lo < hi /\ e <= l /\ lo < l
    <2>1. lo < hi
      BY <1>4, <1>5
    <2>2. hi <= l
      BY <1>1, <1>2, <2>1 DEF Position
    <2> QED
      BY <1>4, <1>5, <2>1, <2>2
  <1>7. PICK id : id = w[p][2]
    OBVIOUS
  <1>8. /\ id \in 1..Len(size) /\ start[id] \in Nat /\ start[id] <= p - 1
        /\ w[p][3] \in {kFullType, kFirstType, kMiddleType, kLastType}
        /\ w[p][3] \in {kFullType, kFirstType} => start[id] = p - 1
        /\ w[p][3] \in {kFullType, kLastType} => Behind(w, p) = End(id)
    BY <1>1, <1>4, <1>7, HeaderOf
  <1>9. /\ start[id] <= lo /\ start[id] < Len(file)
        /\ o.type \in {kFullType, kFirstType} => start[id] = lo
        /\ o.type \in {kFullType, kLastType} => e = End(id)
    <2>1. PICK x \in Nat : x = start[id]
      BY <1>8
    <2>2. x <= lo /\ (o.type \in {kFullType, kFirstType} => x = lo)
      BY <1>3, <1>4, <1>8, <2>1
    <2>3. x < l
      BY <1>6, <2>2
    <2> QED
      BY <1>2, <1>4, <1>5, <1>8, <2>1, <2>2, <2>3
  <1>10. ASSUME rd.fragmented
         PROVE  /\ ~rd.resyncing /\ rd.prospective = start[id]
                /\ ~(o.type \in {kFullType, kFirstType})
    <2>1. PICK other \in 1..Len(size) :
            /\ rd.prospective = start[other]
            /\ rd.lo + 1 \in Heads(w) =>
                 /\ w[rd.lo + 1][2] = other /\ w[rd.lo + 1][3] \in {kMiddleType, kLastType}
      BY <1>1, <1>10, Continuing
    <2>2. other = id /\ w[p][3] \in {kMiddleType, kLastType}
      BY <1>2, <1>3, <1>4, <1>7, <2>1
    <2> QED
      BY <1>1, <1>4, <1>10, <2>1, <2>2 DEF Unfinishing
  <1>11. ASSUME damage = <<>>, Aligned, ~rd.fragmented, ~rd.resyncing
         PROVE  o.type \in {kFullType, kFirstType}
    <2>1. InBlock(p - 1) + 7 + w[p][4] <= kBlockSize
      BY <1>1, <1>4 DEF Dense, Tiled
    <2>2. PICK k \in Nat, m \in Nat, b \in Nat : k = w[p][4] /\ m = InBlock(lo) /\ b = kBlockSize
      <3>1. InBlock(lo) \in 0..(kBlockSize - 1) /\ kBlockSize \in Nat
        BY Places, BlockSize
      <3>2. w[p][4] \in Nat
        BY <1>2, <1>4, HeadFacts
      <3> QED
        BY <3>1, <3>2
    <2>3. m + 7 + k <= b
      <3>1. p - 1 = lo
        BY <1>3
      <3> QED
        BY <2>1, <2>2, <3>1
    <2>4. Onward(lo) = lo
      <3>1. InBlock(lo) + 7 <= kBlockSize
        BY <2>2, <2>3
      <3> QED
        BY <3>1, OnwardFacts
    <2>5. p = Onward(rd.lo) + 1
      BY <1>2, <1>3, <2>4
    <2>6. w[p][3] \in {kFullType, kFirstType}
      BY <1>1, <1>4, <1>11, <2>5 DEF Between
    <2> QED
      BY <1>4, <2>6
  <1>12. ASSUME NEW other \in 1..Len(size), Kept(other), Coming(other)
         PROVE  start[other] >= e \/ other = id
    <2>1. PICK x \in Nat, end \in Nat : x = start[other] /\ end = End(other) /\ end >= x + 7
      BY <1>1, RecordBegins
    <2>2. end <= l
      BY <1>2, <1>12, <2>1 DEF Kept
    <2>3. start[other] < Len(file)
      BY <1>2, <2>1, <2>2
    <2>4. rd.lo + 1 \in Heads(w) /\ Behind(w, rd.lo + 1) = e
      BY <1>2, <1>3, <1>4, <1>5
    <2>5. start[other] >= Behind(w, rd.lo + 1) \/ w[rd.lo + 1][2] = other
      BY <1>1, <1>12, <2>3, <2>4, StillComing
    <2> QED
      BY <1>2, <1>3, <1>7, <2>4, <2>5
  <1>13. Comes(w, o, lo, e, id)
    BY <1>2, <1>3, <1>4, <1>5, <1>6, <1>7, <1>8, <1>9, <1>10, <1>11, <1>12 DEF Comes
  <1> QED
    BY <1>8, <1>13

\* After a fragment the reader is in its place again.
LEMMA TakenMoves ==
  ASSUME TypeOK, phase = "read", NEW w, Serving(w), NEW o, Taken(w, o),
         UNCHANGED <<file, size, start, damage>>,
         rd'.lo = o.lo, rd'.hi = rd.hi, rd'.eof = rd.eof, rd'.initial = rd.initial,
         Unfinishing(w)', Between(w)', Delivers'
  PROVE  Serving(w)'
  <1>1. /\ Written(w) /\ HeadersSound(w, size, start) /\ Dense(w, size, start) /\ DamageKnown(w)
        /\ Position(w) /\ Sought
    BY DEF Serving, Reads
  <1>2. PICK lo \in Nat, e \in Nat, id \in 1..Len(size) : Comes(w, o, lo, e, id)
    BY TakenFacts
  <1>3. rd.hi \in Nat
    BY DEF TypeOK, ReaderStates
  <1>4. /\ rd.lo + 1 \in Heads(w) /\ e = Behind(w, rd.lo + 1) /\ e <= rd.hi /\ rd'.lo = e
    BY <1>2 DEF Comes, Taken
  <1>5. rd.lo < rd.hi
    BY <1>2, <1>3, <1>4 DEF Comes
  <1>6. Position(w)' /\ Fresh' /\ Sought'
    BY <1>1, <1>4, <1>5, ReaderMoves
  <1>7. Reads(w)'
    BY <1>6 DEF Reads
  <1>8. /\ Written(w)' /\ HeadersSound(w, size, start)' /\ Dense(w, size, start)' /\ DamageKnown(w)'
    BY <1>1 DEF Written, DamageKnown
  <1> QED
    BY <1>7, <1>8 DEF Serving

\* With the last fragment of a record read, the next header is the first of one.
LEMMA BetweenRecords ==
  ASSUME NEW w, Dense(w, size, start), NEW p \in Heads(w), w[p][3] \in {kFullType, kLastType},
         rd'.lo = Behind(w, p)
  PROVE  Between(w)'
  <1> SUFFICES ASSUME NEW q \in Heads(w), q = Onward(Behind(w, p)) + 1
               PROVE  w[q][3] \in {kFullType, kFirstType}
    BY DEF Between
  <1>1. Follows(w[p], w[q])
    BY DEF Dense, Linked
  <1> QED
    BY <1>1 DEF Follows

LEMMA FullServes ==
  ASSUME TypeOK, Counters, phase = "read", NEW w, Serving(w), NEW o, Taken(w, o),
         ReadFull(o, rd.lo), UNCHANGED <<file, size, start, damage>>
  PROVE  Serving(w)' /\ dropped' \in Nat
  <1>1. PICK lo \in Nat, e \in Nat, id \in 1..Len(size) : Comes(w, o, lo, e, id)
    BY TakenFacts
  <1>2. /\ rd'.lo = o.lo /\ rd'.hi = rd.hi /\ rd'.eof = rd.eof /\ rd'.initial = rd.initial
        /\ ~rd'.fragmented /\ phase' = "read"
    BY DEF ReadFull, TypeOK, ReaderStates
  <1>3. o.type = kFullType /\ start[id] = lo /\ ~rd.fragmented /\ e = End(id)
    BY <1>1 DEF ReadFull, Comes
  <1>4. dropped' = dropped /\ dropped \in Nat
    BY <1>3 DEF ReadFull, Unfinished, Counters
  <1>5. PICK item \in Items : item.offset = lo /\ returned' = Append(returned, item)
    <2>1. [data |-> o.data, offset |-> lo] \in Items
      BY DEF Taken, Items
    <2>2. returned' = Append(returned, [data |-> o.data, offset |-> lo])
      BY <1>1 DEF ReadFull, Return, Comes
    <2> QED
      BY <2>1, <2>2
  <1>6. WholeInFile(item.offset)
    BY <1>1, <1>3, <1>5 DEF WholeInFile, Comes
  <1>7. Returned(id)'
    <2>1. PICK n \in Nat : n = Len(returned) /\ returned \in Seq(Items)
      BY DEF TypeOK
    <2>2. n + 1 \in 1..Len(returned') /\ returned'[n + 1] = item
      BY <1>5, <2>1
    <2>3. returned'[n + 1].offset = start[id]
      BY <1>3, <1>5, <2>2
    <2> QED
      BY <2>2, <2>3 DEF Returned
  <1>8. ASSUME NEW other \in 1..Len(size), Kept(other), Coming(other)
        PROVE  Returned(other)' \/ (phase' = "read" /\ Coming(other)')
    <2>1. start[other] >= e \/ other = id
      BY <1>1, <1>8 DEF Comes
    <2>2. e \in Nat /\ start[other] \in Nat /\ rd'.lo = e
      BY <1>1, <1>2, RecordBegins DEF Comes, Serving
    <2> QED
      BY <1>2, <1>7, <2>1, <2>2 DEF Coming
  <1>9. Delivers'
    BY <1>2, <1>4, <1>5, <1>6, <1>8, DeliversAgain DEF Serving
  <1>10. Between(w)'
    BY <1>1, <1>2, <1>3, BetweenRecords DEF Serving, Comes
  <1>11. Unfinishing(w)'
    BY <1>2 DEF Unfinishing
  <1> QED
    BY <1>2, <1>4, <1>9, <1>10, <1>11, TakenMoves

LEMMA FirstServes ==
  ASSUME TypeOK, Counters, phase = "read", NEW w, Serving(w), NEW o, Taken(w, o),
         ReadFirst(o, rd.lo), UNCHANGED <<file, size, start, damage>>
  PROVE  Serving(w)' /\ dropped' \in Nat
  <1>1. PICK lo \in Nat, e \in Nat, id \in 1..Len(size) : Comes(w, o, lo, e, id)
    BY TakenFacts
  <1>2. /\ rd'.lo = o.lo /\ rd'.hi = rd.hi /\ rd'.eof = rd.eof /\ rd'.initial = rd.initial
        /\ rd'.fragmented /\ ~rd'.resyncing /\ rd'.prospective = lo
        /\ phase' = "read" /\ returned' = returned
    BY <1>1 DEF ReadFirst, TypeOK, ReaderStates, Comes
  <1>3. o.type = kFirstType /\ start[id] = lo /\ ~rd.fragmented
    BY <1>1 DEF ReadFirst, Comes
  <1>4. dropped' = dropped /\ dropped \in Nat
    BY <1>3 DEF ReadFirst, Unfinished, Counters
  <1>5. ASSUME NEW other \in 1..Len(size), Kept(other), Coming(other)
        PROVE  Coming(other)'
    <2>1. start[other] >= e \/ other = id
      BY <1>1, <1>5 DEF Comes
    <2>2. e \in Nat /\ start[other] \in Nat /\ rd'.lo = e
      BY <1>1, <1>2, RecordBegins DEF Comes, Serving
    <2> QED
      BY <1>2, <1>3, <2>1, <2>2 DEF Coming
  <1>6. Delivers'
    BY <1>2, <1>4, <1>5, DeliversAgain DEF Serving
  <1>7. Between(w)'
    BY <1>2 DEF Between
  <1>8. Unfinishing(w)'
    <2>1. lo + 1 \in Heads(w) /\ w[lo + 1][3] = kFirstType /\ w[lo + 1][2] = id
          /\ rd'.lo = Behind(w, lo + 1)
      BY <1>1, <1>2, <1>3 DEF Comes
    <2> QED
      BY <1>2, <1>3, <2>1 DEF Unfinishing, Behind
  <1> QED
    BY <1>2, <1>4, <1>6, <1>7, <1>8, TakenMoves

LEMMA MiddleServes ==
  ASSUME TypeOK, Counters, phase = "read", NEW w, Serving(w), NEW o, Taken(w, o),
         ReadMiddle(o), UNCHANGED <<file, size, start, damage>>
  PROVE  Serving(w)' /\ dropped' \in Nat
  <1>1. PICK lo \in Nat, e \in Nat, id \in 1..Len(size) : Comes(w, o, lo, e, id)
    BY TakenFacts
  <1>2. /\ rd'.lo = o.lo /\ rd'.hi = rd.hi /\ rd'.eof = rd.eof /\ rd'.initial = rd.initial
        /\ rd'.fragmented = rd.fragmented /\ rd'.prospective = rd.prospective
        /\ rd'.resyncing = rd.resyncing /\ phase' = "read" /\ returned' = returned
    BY DEF ReadMiddle, TypeOK, ReaderStates
  <1>3. o.type = kMiddleType /\ ~rd.resyncing
    BY DEF ReadMiddle
  <1>4. damage = <<>> /\ Aligned => rd.fragmented
    BY <1>1, <1>3 DEF Comes
  <1>5. /\ dropped \in Nat /\ dropped' \in Nat /\ dropped' >= dropped
        /\ damage = <<>> /\ Aligned => dropped' = dropped
    <2>1. PICK r \in {0, 1} : r = MissingStart(o.lo, Len(o.data))
      BY Reported DEF MissingStart
    <2>2. dropped' = dropped + r /\ dropped \in Nat
      BY <2>1 DEF ReadMiddle, Counters
    <2>3. rd.fragmented => r = 0
      BY <2>1 DEF MissingStart
    <2> QED
      BY <1>4, <2>1, <2>2, <2>3
  <1>6. ASSUME NEW other \in 1..Len(size), Kept(other), Coming(other)
        PROVE  Coming(other)'
    <2>1. start[other] >= e \/ other = id
      BY <1>1, <1>6 DEF Comes
    <2>2. e \in Nat /\ start[other] \in Nat /\ rd'.lo = e
      BY <1>1, <1>2, RecordBegins DEF Comes, Serving
    <2>3. CASE start[other] >= e
      BY <2>2, <2>3 DEF Coming
    <2>4. CASE other = id
      <3>1. CASE rd.fragmented
        BY <1>1, <1>2, <2>4, <3>1 DEF Coming, Comes
      <3>2. CASE ~rd.fragmented
        <4>1. rd.lo = lo /\ lo + 1 \in Heads(w) /\ w[lo + 1][2] = id
              /\ w[lo + 1][3] = kMiddleType /\ start[id] \in Nat /\ start[id] < Len(file)
          BY <1>1, <1>3 DEF Comes
        <4>2. lo = start[id]
          BY <1>1, <1>6, <2>4, <3>2, <4>1 DEF Coming, Comes
        <4>3. w[start[id] + 1][3] \in {kFullType, kFirstType}
          BY <4>1, RecordBegins DEF Serving
        <4> QED
          BY <4>1, <4>2, <4>3
      <3> QED
        BY <3>1, <3>2
    <2> QED
      BY <2>1, <2>3, <2>4
  <1>7. Delivers'
    BY <1>2, <1>5, <1>6, DeliversAgain DEF Serving
  <1>8. Between(w)'
    BY <1>2, <1>3, <1>4 DEF Between, Aligned
  <1>9. Unfinishing(w)'
    <2> SUFFICES ASSUME rd.fragmented PROVE Unfinishing(w)'
      BY <1>2 DEF Unfinishing
    <2>1. lo + 1 \in Heads(w) /\ w[lo + 1][3] = kMiddleType /\ w[lo + 1][2] = id
          /\ rd'.lo = Behind(w, lo + 1) /\ rd.prospective = start[id]
      BY <1>1, <1>2, <1>3 DEF Comes
    <2> QED
      BY <1>2, <1>3, <2>1 DEF Unfinishing, Behind
  <1> QED
    BY <1>2, <1>5, <1>7, <1>8, <1>9, TakenMoves

LEMMA LastServes ==
  ASSUME TypeOK, Counters, phase = "read", NEW w, Serving(w), NEW o, Taken(w, o),
         ReadLast(o), UNCHANGED <<file, size, start, damage>>
  PROVE  Serving(w)' /\ dropped' \in Nat
  <1>1. PICK lo \in Nat, e \in Nat, id \in 1..Len(size) : Comes(w, o, lo, e, id)
    BY TakenFacts
  <1>2. /\ rd'.lo = o.lo /\ rd'.hi = rd.hi /\ rd'.eof = rd.eof /\ rd'.initial = rd.initial
        /\ ~rd'.fragmented /\ phase' = "read"
    BY DEF ReadLast, TypeOK, ReaderStates
  <1>3. o.type = kLastType /\ ~rd.resyncing /\ e = End(id)
    BY <1>1 DEF ReadLast, Comes
  <1>4. damage = <<>> /\ Aligned => rd.fragmented
    BY <1>1, <1>3 DEF Comes
  <1>5. /\ dropped \in Nat /\ dropped' \in Nat /\ dropped' >= dropped
        /\ damage = <<>> /\ Aligned => dropped' = dropped
    <2>1. PICK r \in {0, 1} : r = MissingStart(o.lo, Len(o.data))
      BY Reported DEF MissingStart
    <2>2. dropped' = dropped + r /\ dropped \in Nat
      BY <2>1 DEF ReadLast, Counters
    <2>3. rd.fragmented => r = 0
      BY <2>1 DEF MissingStart
    <2> QED
      BY <1>4, <2>1, <2>2, <2>3
  <1>6. ASSUME rd.fragmented
        PROVE  /\ \E item \in Items : /\ returned' = Append(returned, item)
                                      /\ WholeInFile(item.offset)
               /\ Returned(id)'
    <2>1. rd.scratch \o o.data \in Seq(Bytes) /\ rd.prospective \in Nat
      <3>1. rd.scratch \in Seq(Bytes) /\ o.data \in Seq(Bytes)
        BY DEF TypeOK, ReaderStates, Taken
      <3> QED
        BY <3>1, ConcatProperties DEF TypeOK, ReaderStates
    <2>2. PICK item : item = [data |-> rd.scratch \o o.data, offset |-> rd.prospective]
      OBVIOUS
    <2>3. item \in Items /\ item.offset = start[id]
      BY <1>1, <1>6, <2>1, <2>2 DEF Items, Comes
    <2>4. returned' = Append(returned, item)
      BY <1>6, <2>2 DEF ReadLast, Return
    <2>5. WholeInFile(item.offset)
      BY <1>1, <1>3, <2>3 DEF WholeInFile, Comes
    <2>6. PICK n \in Nat : n = Len(returned) /\ returned \in Seq(Items)
      BY DEF TypeOK
    <2>7. n + 1 \in 1..Len(returned') /\ returned'[n + 1] = item
      BY <2>3, <2>4, <2>6
    <2>8. Returned(id)'
      BY <2>3, <2>7 DEF Returned
    <2> QED
      BY <2>3, <2>4, <2>5, <2>8
  <1>7. ~rd.fragmented => returned' = returned
    BY DEF ReadLast
  <1>8. ASSUME NEW other \in 1..Len(size), Kept(other), Coming(other)
        PROVE  Returned(other)' \/ (phase' = "read" /\ Coming(other)')
    <2>1. start[other] >= e \/ other = id
      BY <1>1, <1>8 DEF Comes
    <2>2. e \in Nat /\ start[other] \in Nat /\ rd'.lo = e
      BY <1>1, <1>2, RecordBegins DEF Comes, Serving
    <2>3. CASE start[other] >= e
      BY <1>2, <2>2, <2>3 DEF Coming
    <2>4. CASE other = id
      <3>1. CASE rd.fragmented
        BY <1>6, <2>4, <3>1
      <3>2. CASE ~rd.fragmented
        <4>1. rd.lo = lo /\ lo + 1 \in Heads(w) /\ w[lo + 1][2] = id
              /\ w[lo + 1][3] = kLastType /\ start[id] \in Nat /\ start[id] < Len(file)
          BY <1>1, <1>3 DEF Comes
        <4>2. lo = start[id]
          BY <1>1, <1>8, <2>4, <3>2, <4>1 DEF Coming, Comes
        <4>3. w[start[id] + 1][3] \in {kFullType, kFirstType}
          BY <4>1, RecordBegins DEF Serving
        <4> QED
          BY <4>1, <4>2, <4>3
      <3> QED
        BY <3>1, <3>2
    <2> QED
      BY <2>1, <2>3, <2>4
  <1>9. Delivers'
    BY <1>2, <1>5, <1>6, <1>7, <1>8, DeliversAgain DEF Serving
  <1>10. Between(w)'
    BY <1>1, <1>2, <1>3, BetweenRecords DEF Serving, Comes
  <1>11. Unfinishing(w)'
    BY <1>2 DEF Unfinishing
  <1> QED
    BY <1>2, <1>5, <1>9, <1>10, <1>11, TakenMoves

\* The rest of a record that begins before the initial offset.
LEMMA ResyncingServes ==
  ASSUME TypeOK, Counters, phase = "read", NEW w, Serving(w), NEW o, Taken(w, o),
         ReadResyncing(o), UNCHANGED <<file, size, start, damage>>
  PROVE  Serving(w)' /\ dropped' \in Nat
  <1>1. PICK lo \in Nat, e \in Nat, id \in 1..Len(size) : Comes(w, o, lo, e, id)
    BY TakenFacts
  <1>2. /\ rd'.lo = o.lo /\ rd'.hi = rd.hi /\ rd'.eof = rd.eof /\ rd'.initial = rd.initial
        /\ rd'.fragmented = rd.fragmented /\ phase' = "read" /\ returned' = returned
        /\ rd'.resyncing = (o.type = kMiddleType)
        /\ dropped' = dropped /\ dropped \in Nat
    BY DEF ReadResyncing, TypeOK, ReaderStates, Counters
  <1>3. o.type \in {kMiddleType, kLastType} /\ ~rd.fragmented
    BY <1>1 DEF ReadResyncing, Comes
  <1>4. ASSUME NEW other \in 1..Len(size), Kept(other), Coming(other)
        PROVE  Coming(other)'
    <2>1. start[other] >= e \/ other = id
      BY <1>1, <1>4 DEF Comes
    <2>2. e \in Nat /\ start[other] \in Nat /\ rd'.lo = e
      BY <1>1, <1>2, RecordBegins DEF Comes, Serving
    <2>3. CASE start[other] >= e
      BY <2>2, <2>3 DEF Coming
    <2>4. CASE other = id
      <3>1. rd.lo = lo /\ lo + 1 \in Heads(w) /\ w[lo + 1][2] = id
            /\ w[lo + 1][3] \in {kMiddleType, kLastType}
            /\ start[id] \in Nat /\ start[id] < Len(file)
        BY <1>1, <1>3 DEF Comes
      <3>2. lo = start[id]
        BY <1>1, <1>3, <1>4, <2>4, <3>1 DEF Coming, Comes
      <3>3. w[start[id] + 1][3] \in {kFullType, kFirstType}
        BY <3>1, RecordBegins DEF Serving
      <3> QED
        BY <3>1, <3>2, <3>3
    <2> QED
      BY <2>1, <2>3, <2>4
  <1>5. Delivers'
    BY <1>2, <1>4, DeliversAgain DEF Serving
  <1>6. Between(w)'
    <2>1. CASE o.type = kMiddleType
      BY <1>2, <2>1 DEF Between
    <2>2. CASE o.type = kLastType
      BY <1>1, <1>2, <2>2, BetweenRecords DEF Serving, Comes
    <2> QED
      BY <1>3, <2>1, <2>2
  <1>7. Unfinishing(w)'
    BY <1>2, <1>3 DEF Unfinishing
  <1> QED
    BY <1>2, <1>5, <1>6, <1>7, TakenMoves

LEMMA ReadRecordReceives ==
  ASSUME Inv, Counters, Receiving, ReadRecord
  PROVE  Receiving' /\ dropped' \in Nat
  <1>1. /\ TypeOK /\ phase = "read" /\ (Buffered >= kHeaderSize \/ rd.eof)
        /\ UNCHANGED <<file, size, start, damage>>
    BY DEF Inv, ReadRecord, writerVars
  <1>2. PICK w : Serving(w)
    BY <1>1 DEF Receiving, Serving
  <1>3. PICK o \in ReadPhysicalRecord :
          LET offset == o.lo - kHeaderSize - Len(o.data)
          IN  \/ ReadFull(o, offset) \/ ReadFirst(o, offset) \/ ReadMiddle(o)
              \/ ReadLast(o) \/ ReadResyncing(o) \/ ReadBad(o) \/ ReadEof(o)
    BY DEF ReadRecord
  <1>4. Position(w) /\ (rd.resyncing => ~rd.fragmented)
    BY <1>1, <1>2 DEF Serving, Reads, Unfinishing
  <1>5. o.drops \in {0, 1} /\ (Taken(w, o) \/ Passed(w, o) \/ CutOff(w, o) \/ Lost(w, o))
    BY <1>1, <1>2, <1>4, PhysicalOutcomes DEF Serving
  <1>6. CASE Taken(w, o)
    <2>1. o.lo - kHeaderSize - Len(o.data) = rd.lo
      BY <1>6 DEF Taken
    <2>2. o.type \in {kFullType, kFirstType, kMiddleType, kLastType}
      BY <1>1, <1>2, <1>6, TakenFacts DEF Comes
    <2>3. \/ ReadFull(o, rd.lo) \/ ReadFirst(o, rd.lo) \/ ReadMiddle(o)
          \/ ReadLast(o) \/ ReadResyncing(o)
      <3>1. ~ReadBad(o) /\ ~ReadEof(o)
        BY <2>2 DEF ReadBad, ReadEof
      <3>2. \/ ReadFull(o, rd.lo) \/ ReadFirst(o, rd.lo) \/ ReadMiddle(o)
            \/ ReadLast(o) \/ ReadResyncing(o) \/ ReadBad(o) \/ ReadEof(o)
        BY <1>3, <2>1, Zenon
      <3> QED
        BY <3>1, <3>2
    <2>4. ASSUME ReadFull(o, rd.lo) PROVE Serving(w)' /\ dropped' \in Nat
      BY <1>1, <1>2, <1>6, <2>4, FullServes
    <2>5. ASSUME ReadFirst(o, rd.lo) PROVE Serving(w)' /\ dropped' \in Nat
      BY <1>1, <1>2, <1>6, <2>5, FirstServes
    <2>6. ASSUME ReadMiddle(o) PROVE Serving(w)' /\ dropped' \in Nat
      BY <1>1, <1>2, <1>6, <2>6, MiddleServes
    <2>7. ASSUME ReadLast(o) PROVE Serving(w)' /\ dropped' \in Nat
      BY <1>1, <1>2, <1>6, <2>7, LastServes
    <2>8. ASSUME ReadResyncing(o) PROVE Serving(w)' /\ dropped' \in Nat
      BY <1>1, <1>2, <1>6, <2>8, ResyncingServes
    <2>9. Serving(w)' /\ dropped' \in Nat
      BY <2>3, <2>4, <2>5, <2>6, <2>7, <2>8
    <2> QED
      BY <2>9 DEF Receiving, Serving
  <1>7. CASE Passed(w, o)
    <2>1. ReadBad(o)
      BY <1>3, <1>7 DEF Passed, ReadFull, ReadFirst, ReadMiddle, ReadLast, ReadResyncing, ReadEof
    <2>2. Serving(w)' /\ dropped' \in Nat
      BY <1>1, <1>2, <1>5, <1>7, <2>1, PassedServes
    <2> QED
      BY <2>2 DEF Receiving, Serving
  <1>8. CASE CutOff(w, o)
    <2>1. ReadEof(o)
      BY <1>3, <1>8 DEF CutOff, ReadFull, ReadFirst, ReadMiddle, ReadLast, ReadResyncing, ReadBad
    <2>2. Serving(w)' /\ dropped' \in Nat
      BY <1>1, <1>2, <1>8, <2>1, CutOffServes DEF ReadEof, Counters
    <2> QED
      BY <2>2 DEF Receiving, Serving
  <1>9. CASE Lost(w, o)
    <2>1. ReadBad(o) \/ ReadEof(o)
      BY <1>3, <1>9 DEF Lost, ReadFull, ReadFirst, ReadMiddle, ReadLast, ReadResyncing
    <2>2. Serving(w)' /\ dropped' \in Nat
      BY <1>1, <1>2, <1>5, <1>9, <2>1, LostServes
    <2> QED
      BY <2>2 DEF Receiving, Serving
  <1> QED
    BY <1>5, <1>6, <1>7, <1>8, <1>9

-----------------------------------------------------------------------------
(* The invariant of a file no append to which failed.                      *)

LEMMA DropsCounted ==
  ASSUME Counters, ReadRecord
  PROVE  dropped' \in Nat
  <1>1. PICK o \in ReadPhysicalRecord :
          LET offset == o.lo - kHeaderSize - Len(o.data)
          IN  \/ ReadFull(o, offset) \/ ReadFirst(o, offset) \/ ReadMiddle(o)
              \/ ReadLast(o) \/ ReadResyncing(o) \/ ReadBad(o) \/ ReadEof(o)
    BY DEF ReadRecord
  <1>2. o.drops \in {0, 1}
    <2>1. \A d \in {BadLength, Mismatch, Preallocated} : d.drops \in {0, 1}
      BY Reported DEF BadLength, Mismatch, Preallocated, Outcome
    <2>2. \A type, data, lo : Outcome(type, data, lo, 0).drops = 0
      BY DEF Outcome
    <2> QED
      BY <2>1, <2>2 DEF ReadPhysicalRecord, Parsed
  <1>3. PICK offset : offset = o.lo - kHeaderSize - Len(o.data)
    OBVIOUS
  <1>4. \/ ReadFull(o, offset) \/ ReadFirst(o, offset) \/ ReadMiddle(o)
        \/ ReadLast(o) \/ ReadResyncing(o) \/ ReadBad(o) \/ ReadEof(o)
    BY <1>1, <1>3, Zenon
  <1>5. Unfinished(o.lo) \in {0, 1} /\ MissingStart(o.lo, Len(o.data)) \in {0, 1}
    BY Reported DEF Unfinished, MissingStart
  <1>6. dropped \in Nat
    BY DEF Counters
  <1>7. ReadFull(o, offset) \/ ReadFirst(o, offset) => dropped' \in Nat
    BY <1>5, <1>6 DEF ReadFull, ReadFirst
  <1>8. ReadMiddle(o) \/ ReadLast(o) => dropped' \in Nat
    BY <1>5, <1>6 DEF ReadMiddle, ReadLast
  <1>9. ReadResyncing(o) \/ ReadEof(o) => dropped' \in Nat
    BY <1>6 DEF ReadResyncing, ReadEof
  <1>10. ReadBad(o) => dropped' \in Nat
    BY <1>2, BadCounts
  <1> QED
    BY <1>4, <1>7, <1>8, <1>9, <1>10

LEMMA CountersKeep ==
  ASSUME Inv, Counters, [Next]_vars
  PROVE  Counters'
  <1>1. rd \in ReaderStates /\ file \in Seq(Bytes)
    BY DEF Inv, TypeOK
  <1>2. CASE UNCHANGED vars
    BY <1>2 DEF vars, Counters
  <1>3. ASSUME NEW n \in Sizes, AddRecord(n) PROVE Counters'
    BY <1>3 DEF AddRecord, readerVars, Counters
  <1>4. ASSUME NEW trailer \in 0..(kHeaderSize - 1), NEW bytes \in 0..kBlockSize,
               NEW ok \in BOOLEAN, EmitPhysicalRecord(trailer, bytes, ok)
        PROVE  Counters'
    <2>1. FragmentLength \in Nat /\ Len(Trailer) \in Nat
      BY <1>4, FragmentFacts DEF EmitPhysicalRecord, Inv, Writing
    <2>2. /\ failures' = failures + (IF trailer < Len(Trailer) THEN 1 ELSE 0)
                                  + (IF ok THEN 0 ELSE 1)
          /\ UNCHANGED <<damage, rd, returned, dropped>>
      BY <1>4 DEF EmitPhysicalRecord, readerVars
    <2> QED
      BY <2>2 DEF Counters
  <1>5. ASSUME NEW n \in 0..Len(file), NEW initial \in InitialOffsets, Crash(n, initial)
        PROVE  Counters'
    BY <1>1, <1>5 DEF Crash, writerVars, ReaderStates, Counters
  <1>6. ASSUME NEW p \in 1..Len(file), Damage(p) PROVE Counters'
    <2>1. file[p][1] \in {"H", "h", "P", "Z", "X"}
      <3>1. file[p] \in Bytes
        BY <1>1, ElementOfSeq
      <3> QED
        BY <3>1 DEF Bytes
    <2>2. damage' = Append(damage, file[p][1]) /\ UNCHANGED <<failures, dropped, rd>>
      BY <1>6 DEF Damage, writerVars, readerVars
    <2>3. damage' \in Seq({"H", "h", "P", "Z", "X"})
      BY <2>1, <2>2, AppendProperties DEF Counters
    <2> QED
      BY <2>2, <2>3 DEF Counters
  <1>7. CASE Refill
    BY <1>1, <1>7 DEF Refill, writerVars, ReaderStates, Counters
  <1>8. CASE RefillFails
    <2>1. ReportDrop(rd.hi, rd.hi, kBlockSize) \in {0, 1}
      BY Reported
    <2> QED
      BY <1>1, <1>8, <2>1 DEF RefillFails, ReaderStates, Counters
  <1>9. CASE ReadRecord
    <2>1. rd'.initial = rd.initial
      BY <1>1, <1>9 DEF ReadRecord, ReadFull, ReadFirst, ReadMiddle, ReadLast, ReadResyncing,
         ReadBad, ReadEof, ReaderStates
    <2> QED
      BY <1>9, <2>1, DropsCounted DEF ReadRecord, writerVars, Counters
  <1> QED
    BY <1>2, <1>3, <1>4, <1>5, <1>6, <1>7, <1>8, <1>9 DEF Next, Stopped

LEMMA ExactKeeps ==
  ASSUME Inv, Counters, Exact, [Next]_vars
  PROVE  Exact'
  <1> SUFFICES ASSUME failures' = 0 PROVE Appending' /\ Receiving'
    BY DEF Exact
  <1>1. CASE UNCHANGED vars
    <2>1. Appending'
      <3>1. Appending
        BY <1>1 DEF vars, Exact
      <3> QED
        BY <1>1, <3>1 DEF vars, Appending, OffsetFollows
    <2>2. Receiving'
      <3> SUFFICES ASSUME phase \in {"read", "eof"}
                   PROVE  \E w : Serving(w)'
        BY <1>1 DEF vars, Receiving, Serving
      <3>1. PICK w : Serving(w)
        BY <1>1 DEF vars, Exact, Receiving, Serving
      <3>2. (phase = "read" => Reads(w))'
        BY <1>1, <3>1 DEF vars, Serving, Reads, Position, Unfinishing, Fresh, Sought, Between,
           Buffered, Aligned
      <3>3. Delivers'
        BY <1>1, <3>1 DEF vars, Serving, Delivers, WholeInFile, Kept, Unharmed, Quiet, Aligned,
           Returned, Coming, End
      <3>4. /\ Written(w)' /\ HeadersSound(w, size, start)' /\ Dense(w, size, start)'
            /\ DamageKnown(w)'
        BY <1>1, <3>1 DEF vars, Serving, Written, DamageKnown
      <3> QED
        BY <3>2, <3>3, <3>4 DEF Serving
    <2> QED
      BY <2>1, <2>2
  <1>2. ASSUME NEW n \in Sizes, AddRecord(n) PROVE Appending' /\ Receiving'
    <2>1. failures = 0 /\ phase' = "emit"
      BY <1>2 DEF AddRecord
    <2> QED
      BY <1>2, <2>1, AddRecordAppends DEF Exact, Receiving
  <1>3. ASSUME NEW trailer \in 0..(kHeaderSize - 1), NEW bytes \in 0..kBlockSize,
               NEW ok \in BOOLEAN, EmitPhysicalRecord(trailer, bytes, ok)
        PROVE  Appending' /\ Receiving'
    <2>1. /\ failures' = failures + (IF trailer < Len(Trailer) THEN 1 ELSE 0)
                                  + (IF ok THEN 0 ELSE 1)
          /\ trailer \in 0..Len(Trailer) /\ phase' \in {"emit", "idle"}
      BY <1>3 DEF EmitPhysicalRecord
    <2>2. failures = 0 /\ ok /\ trailer = Len(Trailer)
      <3>1. failures \in Nat
        BY DEF Counters
      <3>2. trailer < Len(Trailer) \/ trailer = Len(Trailer)
        BY <2>1
      <3> QED
        BY <2>1, <3>1, <3>2
    <2> QED
      BY <1>3, <2>1, <2>2, EmitAppends DEF Exact, Receiving
  <1>4. ASSUME NEW n \in 0..Len(file), NEW initial \in InitialOffsets, Crash(n, initial)
        PROVE  Appending' /\ Receiving'
    <2>1. failures = 0 /\ phase' = "read"
      BY <1>4 DEF Crash, writerVars
    <2> QED
      BY <1>4, <2>1, CrashReceives DEF Exact, Appending
  <1>5. ASSUME NEW p \in 1..Len(file), Damage(p) PROVE Appending' /\ Receiving'
    <2>1. failures = 0 /\ phase' = "read"
      BY <1>5 DEF Damage, writerVars
    <2> QED
      BY <1>5, <2>1, DamageReceives DEF Exact, Appending
  <1>6. CASE Refill
    <2>1. failures = 0 /\ phase' = "read"
      BY <1>6 DEF Refill, writerVars
    <2> QED
      BY <1>6, <2>1, RefillReceives DEF Exact, Appending
  <1>7. CASE RefillFails
    BY <1>7 DEF RefillFails, Counters
  <1>8. CASE ReadRecord
    <2>1. failures = 0 /\ phase' \in {"read", "eof"}
      BY <1>8 DEF ReadRecord, writerVars, ReadFull, ReadFirst, ReadMiddle, ReadLast,
         ReadResyncing, ReadBad, ReadEof
    <2> QED
      BY <1>8, <2>1, ReadRecordReceives DEF Exact, Appending
  <1> QED
    BY <1>1, <1>2, <1>3, <1>4, <1>5, <1>6, <1>7, <1>8 DEF Next, Stopped

LEMMA ExactAlways == Spec => [](Inv /\ Counters /\ Exact)
  <1>1. Init => Inv /\ Counters /\ Exact
    BY Init_, InitExact
  <1>2. Inv /\ Counters /\ Exact /\ [Next]_vars => (Inv /\ Counters /\ Exact)'
    BY NextKeeps, CountersKeep, ExactKeeps
  <1> QED
    BY <1>1, <1>2, PTL DEF Spec

\* What a reader has returned at its end, from a file no append to which failed,
\* is every record from the initial offset on that is wholly in it and in none of
\* whose blocks a byte was damaged, and no record that is cut off.
THEOREM LocalDamage == Spec => []DamageIsLocal
  <1>1. Inv /\ Exact => DamageIsLocal
    <2> SUFFICES ASSUME Inv, Exact, phase = "eof", failures = 0, NEW id \in 1..Len(size)
                 PROVE  /\ /\ start[id] >= rd.initial /\ End(id) <= Len(file)
                           /\ \A p \in 1..Len(file) : file[p] = Garbage =>
                                 \/ (p - 1) \div kBlockSize < start[id] \div kBlockSize
                                 \/ (p - 1) \div kBlockSize > (End(id) - 1) \div kBlockSize
                           => Returned(id)
                        /\ Returned(id) => End(id) <= Len(file)
      BY DEF DamageIsLocal
    <2>1. PICK w : Serving(w)
      BY DEF Exact, Receiving, Serving
    <2>2. TypeOK /\ Written(w) /\ Dense(w, size, start) /\ Delivers
      BY <2>1 DEF Inv, Serving
    <2>3. PICK x \in Nat, end \in Nat : x = start[id] /\ end = End(id) /\ end >= x + 7
      BY <2>2, RecordBegins
    <2>4. ASSUME start[id] >= rd.initial, End(id) <= Len(file),
                 \A p \in 1..Len(file) : file[p] = Garbage =>
                    \/ (p - 1) \div kBlockSize < start[id] \div kBlockSize
                    \/ (p - 1) \div kBlockSize > (End(id) - 1) \div kBlockSize
          PROVE  Returned(id)
      <3>1. ASSUME NEW y \in 1..Len(file), file[y] = Garbage
            PROVE  \/ y - 1 < BlockAt(start[id])
                   \/ y - 1 >= BlockAt(End(id) - 1) + kBlockSize
        <4>0. Len(file) \in Nat
          BY <2>2 DEF TypeOK
        <4>4. y - 1 \in Nat /\ end - 1 \in Nat
          BY <2>3, <4>0
        <4>1. PICK z \in Nat, f \in Nat : z = y - 1 /\ f = end - 1
          BY <4>4
        <4>2. z \div kBlockSize < x \div kBlockSize \/ z \div kBlockSize > f \div kBlockSize
          BY <2>3, <2>4, <3>1, <4>1
        <4>3. z < BlockAt(x) \/ z >= BlockAt(f) + kBlockSize
          BY <4>2, BlocksOrdered
        <4> QED
          BY <2>3, <4>1, <4>3
      <3>2. Kept(id)
        BY <2>4, <3>1 DEF Kept, Unharmed
      <3> QED
        BY <2>2, <3>2 DEF Delivers
    <2>5. ASSUME Returned(id) PROVE End(id) <= Len(file)
      <3>1. PICK i \in 1..Len(returned) : returned[i].offset = start[id]
        BY <2>5 DEF Returned
      <3>2. PICK other \in 1..Len(size) :
              start[id] = start[other] /\ start[other] < Len(file) /\ End(other) <= Len(file)
        BY <2>2, <3>1 DEF Delivers, WholeInFile
      <3>3. id = other
        BY <2>2, <3>2, SameRecord
      <3> QED
        BY <3>2, <3>3
    <2> QED
      BY <2>4, <2>5
  <1> QED
    BY <1>1, ExactAlways, PTL

\* Corruption is reported when a record is lost to damaged payload bytes, and
\* never of a file that was only cut off, provided that a reader with an initial
\* offset begins at a block.
THEOREM ExactAlarms ==
  ASSUME \A i \in InitialOffsets : i % kBlockSize = 0
  PROVE  Spec => []AlarmsExact
  <1>1. Inv /\ Counters /\ Exact => AlarmsExact
    <2> SUFFICES ASSUME Inv, Counters, Exact PROVE AlarmsExact
      OBVIOUS
    <2>1. Aligned
      <3>1. InBlock(0) = 0
        BY FileStarts
      <3> QED
        BY <3>1 DEF Counters, Aligned, InBlock
    <2>2. LossReported
      BY <2>1 DEF LossReported, Exact, Receiving, Delivers, Kept, Quiet
    <2>3. NoFalseAlarm
      BY <2>1 DEF NoFalseAlarm, Exact, Receiving, Appending, Delivers, Inv, TypeOK
    <2> QED
      BY <2>2, <2>3 DEF AlarmsExact
  <1> QED
    BY <1>1, ExactAlways, PTL
=============================================================================
