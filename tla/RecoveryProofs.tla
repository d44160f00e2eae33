--------------------------- MODULE RecoveryProofs ---------------------------
(***************************************************************************)
(* Theorems about Recovery, for any number of writes, restarts and faults. *)
(***************************************************************************)
EXTENDS Recovery, SequenceTheorems, WellFoundedInduction, TLAPS

-----------------------------------------------------------------------------
(***************************************************************************)
(* Facts about naturals and sequences.                                     *)
(***************************************************************************)

\* The naturals are well founded under <.
LEMMA NatLess == IsWellFoundedOn({p \in Nat \X Nat : p[1] < p[2]}, Nat)
  BY NatLessThanWellFounded DEF OpToRel

\* Every nonempty set of naturals has a least element.
LEMMA LeastNatural ==
  ASSUME NEW T \in SUBSET Nat, T # {}
  PROVE  \E m \in T : \A y \in T : m <= y
  <1> DEFINE R == {p \in Nat \X Nat : p[1] < p[2]}
  <1>1. PICK m \in T : \A y \in T : ~(<<y, m>> \in R)
    <2>1. IsWellFoundedOn(R, Nat)
      BY NatLess
    <2> HIDE DEF R
    <2> QED
      BY <2>1, WFMin
  <1>2. ASSUME NEW y \in T PROVE m <= y
    <2>1. ~(y < m)
      BY <1>1
    <2>2. y \in Nat /\ m \in Nat
      OBVIOUS
    <2> QED
      BY <2>1, <2>2
  <1> QED
    BY <1>2

\* A sequence is a function on 1..Len(s).
LEMMA SeqIsFunction ==
  ASSUME NEW S, NEW s \in Seq(S)
  PROVE  /\ Len(s) \in Nat
         /\ DOMAIN s = 1..Len(s)
         /\ s \in [1..Len(s) -> S]
         /\ \A i \in 1..Len(s) : s[i] \in S
  OBVIOUS

-----------------------------------------------------------------------------
(***************************************************************************)
(* The inductive invariant.                                                *)
(***************************************************************************)

IsDirectory(f, S) == DOMAIN f \subseteq Nat /\ f \in [DOMAIN f -> S]

Writes == Nat \X Nat
Fields == Nat \cup {Unset}
Edits == [log: Fields, next: Fields, last: Fields,
          del: SUBSET Nat, add: SUBSET Nat, logged: BOOLEAN]
LogFiles == [recs: Seq(Writes), synced: Nat]
TableFiles == [data: SUBSET Writes, whole: BOOLEAN, level: Nat]
Manifests == [edits: Seq(Edits), synced: Nat]
VersionRecords == [files: SUBSET Nat, refs: Nat]

Early == {"down", "corrupt", "new", "new_temp", "new_rename", "recover"}
Written == {"temp", "rename", "install"}
Opening == {"replay", "manifest", "edit"} \cup Written
Up == {"up", "closing"}

TypeOK ==
  /\ IsDirectory(logs, LogFiles)
  /\ IsDirectory(tables, TableFiles)
  /\ IsDirectory(manifests, Manifests)
  /\ current \in Nat /\ temps \in SUBSET Nat
  /\ phase \in Early \cup Opening \cup Up
  /\ vset \in [next_file: Nat, manifest: Nat, log_number: Nat, last: Nat]
  /\ IsDirectory(versions, VersionRecords)
  /\ mem \in SUBSET Writes /\ imm \in SUBSET (SUBSET Writes)
  /\ logfile \in Nat /\ todo \in SUBSET Nat
  /\ edit = None \/ edit \in Edits
  /\ flush = None \/ flush \in [number: Nat, base: Nat]
  /\ comp = None \/ comp \in [v: Nat, inputs: SUBSET Nat, outs: SUBSET Nat, done: BOOLEAN]
  /\ pending \in SUBSET Nat /\ bg_ok \in BOOLEAN /\ reader \in Nat
  /\ written \in Nat /\ promised \in SUBSET Writes /\ opened \in BOOLEAN
  /\ restarts \in Nat /\ faults \in Nat

\* The files the first k edits of a manifest add up to.
FilesAt(edits, k) == SaveTo({}, SubSeq(edits, 1, k))

Whole(t) == t \in DOMAIN tables /\ tables[t].whole
AllSet(e) == e.log # Unset /\ e.next # Unset /\ e.last # Unset

\* A database whose CURRENT names manifest n, of which the first k edits are
\* left, can be opened, and the numbers it goes on with are not in use.
Readable(edits, k, n) ==
  /\ k >= 1 /\ AllSet(edits[k])
  /\ n < edits[k].next /\ edits[k].next <= edits[Len(edits)].next
  /\ \A t \in FilesAt(edits, k) : t < edits[k].next /\ Whole(t)

\* ... whatever a crash leaves of it.
Sound(n) ==
  /\ n \in DOMAIN manifests
  /\ manifests[n].synced <= Len(manifests[n].edits)
  /\ \A k \in manifests[n].synced..Len(manifests[n].edits) :
       Readable(manifests[n].edits, k, n) \/ (k = 0 /\ ~opened)

\* The last edit of manifest n.
LastEdit(n) == manifests[n].edits[Len(manifests[n].edits)]
LastFiles(n) == FilesAt(manifests[n].edits, Len(manifests[n].edits))

DiskSound ==
  /\ current # 0 => Sound(current)
  /\ opened => current # 0 /\ phase # "corrupt"

Resting ==
  /\ phase \in Early => versions = None /\ edit = None
  /\ phase \notin Up => /\ flush = None /\ comp = None /\ pending = {}
                        /\ bg_ok /\ reader = 0
  /\ phase \in {"new", "new_temp", "new_rename"} => current = 0
  /\ phase \in {"new_temp", "new_rename"} => vset.manifest = 1 /\ Sound(1)
  /\ phase = "recover" => current # 0

\* Opening: the tables the version and the edit name are there, and the
\* manifest being written is not the one CURRENT names.
OpeningSound ==
  phase \in Opening =>
    /\ current # 0 /\ DOMAIN versions = {1} /\ versions[1].refs = 1
    /\ vset.manifest < vset.next_file
    /\ \A t \in versions[1].files : t < vset.manifest /\ Whole(t)
    /\ edit \in Edits /\ edit.del = {} 
    /\ \A t \in edit.add : t < vset.next_file /\ Whole(t)
    /\ phase # "install" => /\ current < vset.manifest
                            /\ manifests[current].edits # <<>>
                            /\ LastEdit(current).next <= vset.manifest
    /\ phase = "replay" => todo \subseteq DOMAIN logs
    /\ phase # "replay" => AllSet(edit) /\ edit.next = vset.next_file
    /\ phase = "edit" => /\ vset.manifest \in DOMAIN manifests
                         /\ manifests[vset.manifest] =
                              [edits |-> <<Edit(Unset, Unset, Unset, {}, versions[1].files)>>,
                               synced |-> 0]
    /\ phase \in Written =>
         /\ Sound(vset.manifest) /\ manifests[vset.manifest].synced >= 1
         /\ manifests[vset.manifest].synced = Len(manifests[vset.manifest].edits)
         /\ LastEdit(vset.manifest).next <= vset.next_file
         /\ LastFiles(vset.manifest) = Applied(versions[1].files, edit)
    /\ phase = "install" => current = vset.manifest

\* The version that is current is the last one, and its users hold versions.
VersionsHeld ==
  /\ \E c \in DOMAIN versions : \A v \in DOMAIN versions : v <= c
  /\ 0 \notin DOMAIN versions
  /\ reader # 0 => reader \in DOMAIN versions
  /\ comp # None => comp.v \in DOMAIN versions /\ comp.inputs = versions[comp.v].files
  /\ flush # None /\ edit = None => flush.base \in DOMAIN versions
  /\ \A v \in DOMAIN versions : \A t \in versions[v].files : t < vset.next_file /\ Whole(t)

\* The background thread's files are its own, and no edit is left unattended.
OutputsHeld ==
  /\ comp # None => /\ comp.outs \subseteq DOMAIN tables /\ comp.outs \subseteq pending
                    /\ \A t \in comp.outs : t < vset.next_file
                    /\ comp.done => edit # None /\ flush = None
  /\ flush # None /\ edit = None =>
       /\ flush.number \in DOMAIN tables /\ flush.number < vset.next_file
       /\ comp # None => flush.number \notin comp.outs
       /\ \A v \in DOMAIN versions : flush.number \notin versions[v].files
       /\ \A k \in manifests[current].synced..Len(manifests[current].edits) :
            flush.number \notin FilesAt(manifests[current].edits, k)
  /\ edit # None => /\ AllSet(edit) /\ edit.next <= vset.next_file
                    /\ \A t \in edit.add : t < edit.next /\ Whole(t)
                    /\ ~edit.logged => LastEdit(current).next <= edit.next
                    /\ flush = None => comp # None /\ comp.done

\* Unless a write failed, the manifest adds up to the current version, with the
\* edit if it has it already.
ManifestFollows ==
  bg_ok => LastFiles(current) =
             IF edit # None /\ edit.logged THEN Applied(CurrentFiles, edit) ELSE CurrentFiles

RunningSound ==
  phase \in Up =>
    /\ opened /\ current = vset.manifest
    /\ LastEdit(current).next <= vset.next_file
    /\ VersionsHeld /\ OutputsHeld /\ ManifestFollows /\ ReferencesExact
    /\ phase = "closing" => reader = 0

Inv == TypeOK /\ DiskSound /\ Resting /\ OpeningSound /\ RunningSound

-----------------------------------------------------------------------------
(***************************************************************************)
(* Directories.                                                            *)
(***************************************************************************)

LEMMA NoneFacts ==
  ASSUME NEW S
  PROVE  DOMAIN None = {} /\ IsDirectory(None, S)
  <1>1. None \in Seq(S) /\ Len(None) = 0
    BY DEF None
  <1>2. DOMAIN None = 1..0 /\ None \in [1..0 -> S]
    BY <1>1, SeqIsFunction
  <1>3. 1..0 = {}
    OBVIOUS
  <1> QED
    BY <1>2, <1>3 DEF IsDirectory

\* A record is not None.
LEMMA EditNotNone ==
  ASSUME NEW e \in Edits
  PROVE  e # None
  <1>1. "log" \in DOMAIN e
    BY DEF Edits
  <1> QED
    BY <1>1, NoneFacts

LEMMA FlushNotNone ==
  ASSUME NEW f \in [number: Nat, base: Nat]
  PROVE  f # None
  <1>1. "base" \in DOMAIN f
    OBVIOUS
  <1> QED
    BY <1>1, NoneFacts

LEMMA CompNotNone ==
  ASSUME NEW c \in [v: Nat, inputs: SUBSET Nat, outs: SUBSET Nat, done: BOOLEAN]
  PROVE  c # None
  <1>1. "v" \in DOMAIN c
    OBVIOUS
  <1> QED
    BY <1>1, NoneFacts

\* What g, the directory f with a file more, holds.
Extends(g, f, n, x) ==
  /\ DOMAIN g = DOMAIN f \cup {n} /\ g[n] = x
  /\ \A i \in DOMAIN f : i # n => g[i] = f[i]

LEMMA PutFacts ==
  ASSUME NEW S, NEW f, IsDirectory(f, S), NEW n \in Nat, NEW x \in S
  PROVE  IsDirectory(Put(f, n, x), S) /\ Extends(Put(f, n, x), f, n, x)
  BY DEF IsDirectory, Put, Extends

\* What g, the files D of the directory f, holds.
Kept(g, f, D) == DOMAIN g = D /\ D \subseteq DOMAIN f /\ \A i \in D : g[i] = f[i]

LEMMA RestrictFacts ==
  ASSUME NEW S, NEW f, IsDirectory(f, S), NEW T
  PROVE  IsDirectory(Restrict1(f, T), S) /\ Kept(Restrict1(f, T), f, DOMAIN f \cap T)
  BY DEF IsDirectory, Restrict1, Kept

LEMMA WithoutFacts ==
  ASSUME NEW S, NEW f, IsDirectory(f, S), NEW n
  PROVE  IsDirectory(Without(f, n), S) /\ Kept(Without(f, n), f, DOMAIN f \ {n})
  <1>1. PICK T : T = DOMAIN f \ {n}
    OBVIOUS
  <1>2. DOMAIN f \cap T = T
    BY <1>1
  <1> QED
    BY <1>1, <1>2, RestrictFacts DEF Without

\* What g, the directory f with another file n, holds.
Changed(g, f, n, x) ==
  DOMAIN g = DOMAIN f /\ g[n] = x /\ \A i \in DOMAIN f : i # n => g[i] = f[i]

LEMMA ExceptFacts ==
  ASSUME NEW S, NEW f, IsDirectory(f, S), NEW n \in DOMAIN f, NEW x \in S
  PROVE  IsDirectory([f EXCEPT ![n] = x], S) /\ Changed([f EXCEPT ![n] = x], f, n, x)
  BY DEF IsDirectory, Changed

-----------------------------------------------------------------------------
(***************************************************************************)
(* Greatest and least numbers.                                             *)
(***************************************************************************)

LEMMA MaxIs ==
  ASSUME NEW S \in SUBSET Nat, NEW c \in S, \A v \in S : v <= c
  PROVE  Max(S) = c
  <1>1. \E x \in S : \A y \in S : x >= y
    OBVIOUS
  <1>2. PICK m : m = Max(S)
    OBVIOUS
  <1>3. m \in S /\ \A y \in S : m >= y
    BY <1>1, <1>2 DEF Max
  <1>4. m >= c /\ m <= c /\ m \in Nat
    BY <1>3
  <1> QED
    BY <1>2, <1>4

LEMMA MinIn ==
  ASSUME NEW S \in SUBSET Nat, S # {}
  PROVE  Min(S) \in S
  BY LeastNatural DEF Min

\* The numbers of a sequence have a greatest one: by induction, in the form of
\* a least counterexample.
LEMMA Bounded ==
  ASSUME NEW f, NEW n \in Nat, f \in [1..n -> Nat]
  PROVE  \E b \in Nat : \A i \in 1..n : f[i] <= b
  <1> DEFINE Has(k) == \E b \in Nat : \A i \in 1..k : f[i] <= b
             Bad == {k \in 0..n : ~Has(k)}
  <1>1. SUFFICES ASSUME Bad # {} PROVE FALSE
    <2>1. n \notin Bad => Has(n)
      OBVIOUS
    <2> QED
      BY <1>1, <2>1
  <1>2. Bad \in SUBSET Nat
    OBVIOUS
  <1>3. PICK k \in Bad : \A y \in Bad : k <= y
    <2> HIDE DEF Bad
    <2> QED
      BY <1>1, <1>2, LeastNatural
  <1>4. k \in 0..n /\ ~Has(k)
    OBVIOUS
  <1>5. k # 0
    <2>1. \A i \in 1..0 : f[i] <= 0
      OBVIOUS
    <2> QED
      BY <1>4, <2>1
  <1>6. PICK m \in Nat : k = m + 1 /\ m \in 0..n
    <2>1. k - 1 \in Nat /\ k = (k - 1) + 1 /\ k - 1 \in 0..n
      BY <1>4, <1>5
    <2> QED
      BY <2>1
  <1>7. Has(m)
    <2>1. m \notin Bad
      <3> HIDE DEF Bad
      <3> QED
        BY <1>3, <1>6
    <2> QED
      BY <1>6, <2>1
  <1>8. PICK b \in Nat : \A i \in 1..m : f[i] <= b
    BY <1>7
  <1>9. f[k] \in Nat
    BY <1>4, <1>5
  <1>10. PICK c \in Nat : b <= c /\ f[k] <= c
    <2>1. b + f[k] \in Nat /\ b <= b + f[k] /\ f[k] <= b + f[k]
      BY <1>9
    <2> QED
      BY <2>1
  <1>11. ASSUME NEW i \in 1..k PROVE f[i] <= c
    <2>1. CASE i = k
      BY <2>1, <1>10
    <2>2. CASE i # k
      <3>1. i \in 1..m /\ f[i] \in Nat
        BY <1>4, <1>6, <2>2
      <3>2. f[i] <= b
        BY <1>8, <3>1
      <3> QED
        BY <1>10, <3>1, <3>2
    <2> QED
      BY <2>1, <2>2
  <1> QED
    BY <1>4, <1>11

\* ... and so has a set of naturals with a bound.
LEMMA MaxExists ==
  ASSUME NEW S \in SUBSET Nat, S # {}, NEW b \in Nat, \A v \in S : v <= b
  PROVE  Max(S) \in S /\ \A v \in S : v <= Max(S)
  <1> DEFINE T == {u \in Nat : \A v \in S : v <= u}
  <1>1. T \in SUBSET Nat /\ b \in T
    OBVIOUS
  <1>2. PICK m \in T : \A y \in T : m <= y
    <2> HIDE DEF T
    <2> QED
      BY <1>1, LeastNatural
  <1>3. m \in Nat /\ \A v \in S : v <= m
    OBVIOUS
  <1>4. m \in S
    <2>1. SUFFICES ASSUME m \notin S PROVE FALSE
      OBVIOUS
    <2>2. PICK v \in S : TRUE
      OBVIOUS
    <2>3. m # 0
      BY <1>3, <2>1, <2>2
    <2>4. m - 1 \in Nat
      BY <1>3, <2>3
    <2>5. ASSUME NEW u \in S PROVE u <= m - 1
      <3>1. u \in Nat /\ u <= m /\ u # m
        BY <1>3, <2>1
      <3> QED
        BY <1>3, <3>1
    <2>6. m - 1 \in T
      BY <2>4, <2>5
    <2>7. m <= m - 1
      <3> HIDE DEF T
      <3> QED
        BY <1>2, <2>6
    <2> QED
      BY <1>3, <2>7
  <1> QED
    BY <1>3, <1>4, MaxIs

LEMMA MaxSequenceFacts ==
  ASSUME NEW last \in Nat, NEW recs \in Seq(Writes)
  PROVE  /\ MaxSequence(last, recs) \in Nat
         /\ last <= MaxSequence(last, recs)
         /\ \A i \in 1..Len(recs) : recs[i][1] <= MaxSequence(last, recs)
  <1> DEFINE f == [i \in 1..Len(recs) |-> recs[i][1]]
             S == {last} \cup {recs[i][1] : i \in 1..Len(recs)}
  <1>1. PICK n \in Nat : n = Len(recs)
    OBVIOUS
  <1>2. \A i \in 1..n : recs[i][1] \in Nat
    BY <1>1 DEF Writes
  <1>3. f \in [1..n -> Nat]
    BY <1>1, <1>2
  <1>4. PICK b \in Nat : \A i \in 1..n : f[i] <= b
    <2> HIDE DEF f
    <2> QED
      BY <1>3, Bounded
  <1>5. PICK c \in Nat : b <= c /\ last <= c
    <2>1. b + last \in Nat /\ b <= b + last /\ last <= b + last
      OBVIOUS
    <2> QED
      BY <2>1
  <1>6. S \in SUBSET Nat /\ S # {}
    BY <1>1, <1>2
  <1>7. \A v \in S : v <= c
    <2>1. ASSUME NEW i \in 1..n PROVE recs[i][1] <= c
      <3>1. recs[i][1] <= b
        BY <1>1, <1>4
      <3> QED
        BY <1>2, <1>5, <3>1
    <2> QED
      BY <1>1, <1>5, <2>1
  <1>8. Max(S) \in S /\ \A v \in S : v <= Max(S)
    <2> HIDE DEF S
    <2> QED
      BY <1>6, <1>7, MaxExists
  <1> QED
    BY <1>6, <1>8 DEF MaxSequence

-----------------------------------------------------------------------------
(***************************************************************************)
(* The edits of a manifest.                                                *)
(***************************************************************************)

\* LogAndApply's Builder: what one edit does to the files of a version.
LEMMA AppliedIs ==
  ASSUME NEW files \in SUBSET Nat, NEW e \in Edits
  PROVE  Applied(files, e) = (files \ e.del) \cup e.add
  <1>1. PICK s : s = <<e>> /\ DOMAIN s = {1} /\ s[1] = e
    <2>1. PICK s \in Seq(Edits) : s = <<e>> /\ Len(s) = 1 /\ s[1] = e
      <3>1. <<e>> \in Seq(Edits)
        OBVIOUS
      <3>2. Len(<<e>>) = 1 /\ <<e>>[1] = e
        OBVIOUS
      <3> QED
        BY <3>1, <3>2
    <2>2. DOMAIN s = 1..1 /\ 1..1 = {1}
      BY <2>1
    <2> QED
      BY <2>1, <2>2
  <1>2. e.add \in SUBSET Nat /\ e.del \in SUBSET Nat
    BY DEF Edits
  <1>3. AddedFiles(s) = e.add
    BY <1>1 DEF AddedFiles
  <1>4. DeletedFiles(s) = e.del \ e.add
    BY <1>1 DEF DeletedFiles
  <1> QED
    BY <1>1, <1>3, <1>4 DEF Applied, SaveTo

\* What is left of a sequence whose end is lost.
LEMMA CutFacts ==
  ASSUME NEW S, NEW s \in Seq(S), NEW k \in 0..Len(s)
  PROVE  /\ SubSeq(s, 1, k) \in Seq(S) /\ Len(SubSeq(s, 1, k)) = k
         /\ DOMAIN SubSeq(s, 1, k) = 1..k
         /\ \A i \in 1..k : SubSeq(s, 1, k)[i] = s[i]
  <1>1. \A i \in 1..k : s[i] \in S
    OBVIOUS
  <1>2. SubSeq(s, 1, k) \in Seq(S)
    BY <1>1
  <1>3. Len(SubSeq(s, 1, k)) = k /\ \A i \in 1..k : SubSeq(s, 1, k)[i] = s[i]
    OBVIOUS
  <1> QED
    BY <1>2, <1>3, SeqIsFunction

\* FilesAt, file by file.
LEMMA FilesAtIs ==
  ASSUME NEW edits \in Seq(Edits), NEW k \in 0..Len(edits), NEW t
  PROVE  t \in FilesAt(edits, k) <=>
           \E i \in 1..k : /\ t \in edits[i].add
                           /\ \A j \in 1..k : t \in edits[j].del =>
                                \E l \in 1..k : l >= j /\ t \in edits[l].add
  <1>1. PICK s \in Seq(Edits) : /\ s = SubSeq(edits, 1, k) /\ DOMAIN s = 1..k
                                /\ \A i \in 1..k : s[i] = edits[i]
    BY CutFacts
  <1>2. t \in AddedFiles(s) <=> \E i \in 1..k : t \in edits[i].add
    BY <1>1 DEF AddedFiles
  <1>3. t \in DeletedFiles(s) <=>
          \E j \in 1..k : t \in edits[j].del /\ \A l \in 1..k : l >= j => t \notin edits[l].add
    BY <1>1 DEF DeletedFiles
  <1>4. t \in FilesAt(edits, k) <=> t \in AddedFiles(s) /\ t \notin DeletedFiles(s)
    BY <1>1 DEF FilesAt, SaveTo
  <1> QED
    BY <1>2, <1>3, <1>4

LEMMA FilesAtNumbers ==
  ASSUME NEW edits \in Seq(Edits), NEW k \in 0..Len(edits)
  PROVE  FilesAt(edits, k) \in SUBSET Nat
  <1> SUFFICES ASSUME NEW t \in FilesAt(edits, k) PROVE t \in Nat
    OBVIOUS
  <1>1. PICK i \in 1..k : t \in edits[i].add
    BY FilesAtIs
  <1>2. edits[i] \in Edits
    OBVIOUS
  <1> QED
    BY <1>1, <1>2 DEF Edits

\* Two manifests with the same first k edits.
LEMMA FilesAtSame ==
  ASSUME NEW a \in Seq(Edits), NEW b \in Seq(Edits), NEW k \in 0..Len(a), k <= Len(b),
         \A i \in 1..k : a[i] = b[i]
  PROVE  FilesAt(a, k) = FilesAt(b, k)
  <1>1. k \in 0..Len(b)
    OBVIOUS
  <1>2. ASSUME NEW t PROVE t \in FilesAt(a, k) <=> t \in FilesAt(b, k)
    <2>1. t \in FilesAt(a, k) <=>
            \E i \in 1..k : /\ t \in a[i].add
                            /\ \A j \in 1..k : t \in a[j].del =>
                                 \E l \in 1..k : l >= j /\ t \in a[l].add
      BY FilesAtIs
    <2>2. t \in FilesAt(b, k) <=>
            \E i \in 1..k : /\ t \in b[i].add
                            /\ \A j \in 1..k : t \in b[j].del =>
                                 \E l \in 1..k : l >= j /\ t \in b[l].add
      BY <1>1, FilesAtIs
    <2> QED
      BY <2>1, <2>2
  <1> QED
    BY <1>2

\* An edit more.
LEMMA FilesAppend ==
  ASSUME NEW edits \in Seq(Edits), NEW e \in Edits
  PROVE  /\ Append(edits, e) \in Seq(Edits)
         /\ Len(Append(edits, e)) = Len(edits) + 1
         /\ Append(edits, e)[Len(edits) + 1] = e
         /\ \A k \in 1..Len(edits) : Append(edits, e)[k] = edits[k]
         /\ \A k \in 0..Len(edits) : FilesAt(Append(edits, e), k) = FilesAt(edits, k)
         /\ FilesAt(Append(edits, e), Len(edits) + 1) = Applied(FilesAt(edits, Len(edits)), e)
  <1>1. PICK n \in Nat : n = Len(edits)
    OBVIOUS
  <1>2. PICK s \in Seq(Edits) : /\ s = Append(edits, e) /\ Len(s) = n + 1 /\ s[n + 1] = e
                                /\ \A i \in 1..n : s[i] = edits[i]
    <2>1. Append(edits, e) \in Seq(Edits)
      OBVIOUS
    <2>2. Len(Append(edits, e)) = n + 1 /\ Append(edits, e)[n + 1] = e
      BY <1>1
    <2>3. \A i \in 1..n : Append(edits, e)[i] = edits[i]
      BY <1>1
    <2> QED
      BY <2>1, <2>2, <2>3
  <1>3. ASSUME NEW k \in 0..n PROVE FilesAt(s, k) = FilesAt(edits, k)
    <2>1. k \in 0..Len(s) /\ k <= Len(edits) /\ \A i \in 1..k : s[i] = edits[i]
      BY <1>1, <1>2
    <2> QED
      BY <2>1, FilesAtSame
  <1>4. FilesAt(edits, n) \in SUBSET Nat
    BY <1>1, FilesAtNumbers
  <1>5. Applied(FilesAt(edits, n), e) = (FilesAt(edits, n) \ e.del) \cup e.add
    BY <1>4, AppliedIs
  <1>6. ASSUME NEW t
        PROVE  t \in FilesAt(s, n + 1) <=> (t \in FilesAt(edits, n) /\ t \notin e.del) \/ t \in e.add
    <2>1. t \in FilesAt(s, n + 1) <=>
            \E i \in 1..(n + 1) : /\ t \in s[i].add
                                  /\ \A j \in 1..(n + 1) : t \in s[j].del =>
                                       \E l \in 1..(n + 1) : l >= j /\ t \in s[l].add
      <3>1. n + 1 \in 0..Len(s)
        BY <1>2
      <3> QED
        BY <3>1, FilesAtIs
    <2>2. t \in FilesAt(edits, n) <=>
            \E i \in 1..n : /\ t \in s[i].add
                            /\ \A j \in 1..n : t \in s[j].del =>
                                 \E l \in 1..n : l >= j /\ t \in s[l].add
      <3>1. n \in 0..Len(s)
        BY <1>2
      <3>2. FilesAt(s, n) = FilesAt(edits, n)
        BY <1>3
      <3> QED
        BY <3>1, <3>2, FilesAtIs
    <2>3. CASE t \in e.add
      <3>1. n + 1 \in 1..(n + 1) /\ \A j \in 1..(n + 1) : n + 1 >= j
        OBVIOUS
      <3> QED
        BY <1>2, <2>1, <2>3, <3>1
    <2>4. CASE t \notin e.add
      <3>1. \A i \in 1..(n + 1) : t \in s[i].add => i \in 1..n
        BY <1>2, <2>4
      <3>2. 1..n \subseteq 1..(n + 1) /\ n + 1 \in 1..(n + 1) /\ \A l \in 1..n : ~(l >= n + 1)
        OBVIOUS
      <3>3. \A j \in 1..(n + 1) : j \in 1..n \/ j = n + 1
        OBVIOUS
      <3>4. ASSUME t \in FilesAt(s, n + 1) PROVE t \in FilesAt(edits, n) /\ t \notin e.del
        BY <1>2, <2>1, <2>2, <3>1, <3>2, <3>4
      <3>5. ASSUME t \in FilesAt(edits, n), t \notin e.del PROVE t \in FilesAt(s, n + 1)
        <4>1. PICK i \in 1..n : /\ t \in s[i].add
                                /\ \A j \in 1..n : t \in s[j].del =>
                                     \E l \in 1..n : l >= j /\ t \in s[l].add
          BY <2>2, <3>5
        <4>2. \A j \in 1..(n + 1) : t \in s[j].del =>
                \E l \in 1..(n + 1) : l >= j /\ t \in s[l].add
          BY <1>2, <3>2, <3>3, <3>5, <4>1
        <4> QED
          BY <2>1, <3>2, <4>1, <4>2
      <3> QED
        BY <2>4, <3>4, <3>5
    <2> QED
      BY <2>3, <2>4
  <1>7. FilesAt(s, n + 1) = (FilesAt(edits, n) \ e.del) \cup e.add
    BY <1>6
  <1> QED
    BY <1>1, <1>2, <1>3, <1>5, <1>7

\* An edit less: what a crash leaves of a manifest.
LEMMA FilesCut ==
  ASSUME NEW edits \in Seq(Edits), NEW n \in 0..Len(edits)
  PROVE  \A k \in 0..n : FilesAt(SubSeq(edits, 1, n), k) = FilesAt(edits, k)
  <1> SUFFICES ASSUME NEW k \in 0..n
               PROVE  FilesAt(SubSeq(edits, 1, n), k) = FilesAt(edits, k)
    OBVIOUS
  <1>1. PICK s \in Seq(Edits) : /\ s = SubSeq(edits, 1, n) /\ Len(s) = n
                                /\ \A i \in 1..n : s[i] = edits[i]
    <2>1. /\ SubSeq(edits, 1, n) \in Seq(Edits) /\ Len(SubSeq(edits, 1, n)) = n
          /\ \A i \in 1..n : SubSeq(edits, 1, n)[i] = edits[i]
      BY CutFacts
    <2> QED
      BY <2>1
  <1>2. k \in 0..Len(s) /\ k <= Len(edits) /\ \A i \in 1..k : s[i] = edits[i]
    BY <1>1
  <1> QED
    BY <1>1, <1>2, FilesAtSame

LEMMA FilesAll ==
  ASSUME NEW edits \in Seq(Edits)
  PROVE  SaveTo({}, edits) = FilesAt(edits, Len(edits))
  <1>1. SubSeq(edits, 1, Len(edits)) = edits
    OBVIOUS
  <1> QED
    BY <1>1 DEF FilesAt

\* A number is what the last edit says, if that one sets it.
LEMMA LastSetIs ==
  ASSUME NEW n \in Nat, n >= 1, NEW f, f \in [1..n -> Fields], f[n] # Unset
  PROVE  LastSet(f) = f[n]
  <1> DEFINE set == {i \in DOMAIN f : f[i] # Unset}
  <1>1. set \in SUBSET Nat /\ n \in set /\ \A i \in set : i <= n
    OBVIOUS
  <1>2. Max(set) = n
    <2> HIDE DEF set
    <2> QED
      BY <1>1, MaxIs
  <1> QED
    BY <1>1, <1>2 DEF LastSet

\* VersionSet::Recover finds what the last edit of a readable manifest says.
LEMMA ReplayIs ==
  ASSUME NEW edits \in Seq(Edits), edits # <<>>, AllSet(edits[Len(edits)])
  PROVE  Replay(edits) = [files |-> FilesAt(edits, Len(edits)),
                          log |-> edits[Len(edits)].log,
                          next |-> edits[Len(edits)].next,
                          last |-> edits[Len(edits)].last]
  <1>1. PICK n \in Nat : n = Len(edits) /\ n >= 1 /\ DOMAIN edits = 1..n
    OBVIOUS
  <1>2. \A i \in 1..n : edits[i].log \in Fields /\ edits[i].next \in Fields /\ edits[i].last \in Fields
    <2>1. \A i \in 1..n : edits[i] \in Edits
      BY <1>1
    <2> QED
      BY <2>1 DEF Edits
  <1>3. LastSet([i \in DOMAIN edits |-> edits[i].log]) = edits[n].log
    <2>1. PICK f : f = [i \in 1..n |-> edits[i].log]
      OBVIOUS
    <2>2. f \in [1..n -> Fields] /\ f[n] = edits[n].log /\ f[n] # Unset
      BY <1>1, <1>2, <2>1 DEF AllSet
    <2> QED
      BY <1>1, <2>1, <2>2, LastSetIs
  <1>4. LastSet([i \in DOMAIN edits |-> edits[i].next]) = edits[n].next
    <2>1. PICK f : f = [i \in 1..n |-> edits[i].next]
      OBVIOUS
    <2>2. f \in [1..n -> Fields] /\ f[n] = edits[n].next /\ f[n] # Unset
      BY <1>1, <1>2, <2>1 DEF AllSet
    <2> QED
      BY <1>1, <2>1, <2>2, LastSetIs
  <1>5. LastSet([i \in DOMAIN edits |-> edits[i].last]) = edits[n].last
    <2>1. PICK f : f = [i \in 1..n |-> edits[i].last]
      OBVIOUS
    <2>2. f \in [1..n -> Fields] /\ f[n] = edits[n].last /\ f[n] # Unset
      BY <1>1, <1>2, <2>1 DEF AllSet
    <2> QED
      BY <1>1, <2>1, <2>2, LastSetIs
  <1> QED
    BY <1>1, <1>3, <1>4, <1>5, FilesAll DEF Replay

\* A manifest with one edit.
LEMMA FilesOne ==
  ASSUME NEW e \in Edits, e.del = {}
  PROVE  /\ <<e>> \in Seq(Edits) /\ Len(<<e>>) = 1 /\ <<e>>[1] = e
         /\ FilesAt(<<e>>, 1) = e.add
  <1>1. <<e>> \in Seq(Edits)
    OBVIOUS
  <1>2. Len(<<e>>) = 1 /\ <<e>>[1] = e
    OBVIOUS
  <1>3. PICK s \in Seq(Edits) : s = <<e>> /\ Len(s) = 1 /\ s[1] = e
    BY <1>1, <1>2
  <1>4. 1 \in 0..Len(s) /\ 1..1 = {1}
    BY <1>3
  <1>5. ASSUME NEW t PROVE t \in FilesAt(s, 1) <=> t \in e.add
    <2>1. t \in FilesAt(s, 1) <=>
            \E i \in 1..1 : /\ t \in s[i].add
                            /\ \A j \in 1..1 : t \in s[j].del =>
                                 \E l \in 1..1 : l >= j /\ t \in s[l].add
      BY <1>4, FilesAtIs
    <2> QED
      BY <1>3, <1>4, <2>1
  <1> QED
    BY <1>1, <1>2, <1>3, <1>5

-----------------------------------------------------------------------------
(***************************************************************************)
(* Versions.                                                               *)
(***************************************************************************)

LEMMA CurrentIs ==
  ASSUME NEW vs, IsDirectory(vs, VersionRecords), NEW c \in DOMAIN vs,
         \A v \in DOMAIN vs : v <= c
  PROVE  CurrentVersion(vs) = c
  BY MaxIs DEF CurrentVersion, IsDirectory

\* The versions w are vs with a reference more to version v...
Taken(w, vs, v) ==
  /\ IsDirectory(w, VersionRecords) /\ DOMAIN w = DOMAIN vs
  /\ \A u \in DOMAIN w : /\ w[u].files = vs[u].files
                        /\ w[u].refs = IF u = v THEN vs[u].refs + 1 ELSE vs[u].refs

LEMMA RefFacts ==
  ASSUME NEW vs, IsDirectory(vs, VersionRecords), NEW v \in DOMAIN vs
  PROVE  Taken(Ref(vs, v), vs, v)
  <1>1. PICK r : r = vs[v] /\ r \in VersionRecords
    BY DEF IsDirectory
  <1>2. PICK q : q = [r EXCEPT !.refs = r.refs + 1]
    OBVIOUS
  <1>3. q \in VersionRecords /\ q.files = r.files /\ q.refs = r.refs + 1
    BY <1>1, <1>2 DEF VersionRecords
  <1>4. Ref(vs, v) = [vs EXCEPT ![v] = q]
    BY <1>1, <1>2 DEF Ref
  <1>5. PICK w : w = [vs EXCEPT ![v] = q]
    OBVIOUS
  <1>6. /\ IsDirectory(w, VersionRecords) /\ DOMAIN w = DOMAIN vs /\ w[v] = q
        /\ \A i \in DOMAIN vs : i # v => w[i] = vs[i]
    BY <1>3, <1>5, ExceptFacts DEF Changed
  <1>7. \A u \in DOMAIN vs :
           /\ w[u].files = vs[u].files
           /\ w[u].refs = IF u = v THEN vs[u].refs + 1 ELSE vs[u].refs
    BY <1>1, <1>3, <1>6
  <1>8. Taken(w, vs, v)
    BY <1>6, <1>7 DEF Taken
  <1> QED
    BY <1>4, <1>5, <1>8

\* ... or with one less, and then without it if that was the last one.
Dropped(w, vs, v) ==
  /\ IsDirectory(w, VersionRecords)
  /\ DOMAIN w = IF vs[v].refs = 1 THEN DOMAIN vs \ {v} ELSE DOMAIN vs
  /\ \A u \in DOMAIN w : /\ w[u].files = vs[u].files
                        /\ w[u].refs = IF u = v THEN vs[u].refs - 1 ELSE vs[u].refs

LEMMA UnrefFacts ==
  ASSUME NEW vs, IsDirectory(vs, VersionRecords), NEW v \in DOMAIN vs, vs[v].refs >= 1
  PROVE  Dropped(Unref(vs, v), vs, v)
  <1>1. PICK r : r = vs[v] /\ r \in VersionRecords
    BY DEF IsDirectory
  <1>2. CASE r.refs = 1
    <2>1. Unref(vs, v) = Without(vs, v)
      BY <1>1, <1>2 DEF Unref, Destroyed
    <2>2. PICK w : w = Without(vs, v)
      OBVIOUS
    <2>3. /\ IsDirectory(w, VersionRecords) /\ DOMAIN w = DOMAIN vs \ {v}
          /\ \A i \in DOMAIN vs \ {v} : w[i] = vs[i]
      BY <2>2, WithoutFacts DEF Kept
    <2>4. DOMAIN w = IF vs[v].refs = 1 THEN DOMAIN vs \ {v} ELSE DOMAIN vs
      BY <1>1, <1>2, <2>3
    <2>5. \A u \in DOMAIN w : /\ w[u].files = vs[u].files
                              /\ w[u].refs = IF u = v THEN vs[u].refs - 1 ELSE vs[u].refs
      BY <2>3
    <2>6. Dropped(w, vs, v)
      BY <2>3, <2>4, <2>5 DEF Dropped
    <2> QED
      BY <2>1, <2>2, <2>6
  <1>3. CASE r.refs # 1
    <2>1. PICK q : q = [r EXCEPT !.refs = r.refs - 1]
      OBVIOUS
    <2>2. q \in VersionRecords /\ q.files = r.files /\ q.refs = r.refs - 1
      <3>1. r.refs - 1 \in Nat
        BY <1>1 DEF VersionRecords
      <3> QED
        BY <1>1, <2>1, <3>1 DEF VersionRecords
    <2>3. Unref(vs, v) = [vs EXCEPT ![v] = q]
      BY <1>1, <1>3, <2>1 DEF Unref
    <2>4. PICK w : w = [vs EXCEPT ![v] = q]
      OBVIOUS
    <2>5. /\ IsDirectory(w, VersionRecords) /\ DOMAIN w = DOMAIN vs /\ w[v] = q
          /\ \A i \in DOMAIN vs : i # v => w[i] = vs[i]
      BY <2>2, <2>4, ExceptFacts DEF Changed
    <2>6. DOMAIN w = IF vs[v].refs = 1 THEN DOMAIN vs \ {v} ELSE DOMAIN vs
      BY <1>1, <1>3, <2>5
    <2>7. \A u \in DOMAIN w : /\ w[u].files = vs[u].files
                              /\ w[u].refs = IF u = v THEN vs[u].refs - 1 ELSE vs[u].refs
      BY <1>1, <2>2, <2>5
    <2>8. Dropped(w, vs, v)
      BY <2>5, <2>6, <2>7 DEF Dropped
    <2> QED
      BY <2>3, <2>4, <2>8
  <1> QED
    BY <1>2, <1>3

LEMMA FirstVersion ==
  ASSUME NEW files \in SUBSET Nat
  PROVE  /\ IsDirectory(AppendVersion(None, files), VersionRecords)
         /\ DOMAIN AppendVersion(None, files) = {1}
         /\ AppendVersion(None, files)[1] = [files |-> files, refs |-> 1]
  <1>1. PICK r : r = [files |-> files, refs |-> 1]
    OBVIOUS
  <1>2. r \in VersionRecords
    BY <1>1 DEF VersionRecords
  <1>3. AppendVersion(None, files) = Put(None, 1, r)
    BY <1>1 DEF AppendVersion
  <1>4. DOMAIN None = {} /\ IsDirectory(None, VersionRecords)
    BY NoneFacts
  <1>5. PICK w : w = Put(None, 1, r)
    OBVIOUS
  <1>6. IsDirectory(w, VersionRecords) /\ DOMAIN w = DOMAIN None \cup {1} /\ w[1] = r
    <2> DEFINE z == None
    <2>1. PICK n \in Nat : n = 1
      OBVIOUS
    <2>2. IsDirectory(z, VersionRecords) /\ w = Put(z, n, r)
      BY <1>4, <1>5, <2>1
    <2> HIDE DEF z
    <2>3. IsDirectory(w, VersionRecords) /\ DOMAIN w = DOMAIN z \cup {n} /\ w[n] = r
      BY <1>2, <2>2, PutFacts DEF Extends
    <2> QED
      BY <2>1, <2>3 DEF z
  <1> QED
    BY <1>1, <1>3, <1>4, <1>5, <1>6

\* The versions w are vs, whose current one is c, with a new one.
Follows(w, vs, c, files) ==
  /\ IsDirectory(w, VersionRecords)
  /\ DOMAIN w = (IF vs[c].refs = 1 THEN DOMAIN vs \ {c} ELSE DOMAIN vs) \cup {c + 1}
  /\ w[c + 1] = [files |-> files, refs |-> 1]
  /\ \A u \in DOMAIN w : u # c + 1 =>
       /\ u \in DOMAIN vs
       /\ w[u].files = vs[u].files
       /\ w[u].refs = IF u = c THEN vs[u].refs - 1 ELSE vs[u].refs
  /\ c + 1 \notin DOMAIN vs
  /\ \A u \in DOMAIN w : u <= c + 1
  /\ CurrentVersion(w) = c + 1

LEMMA NextVersion ==
  ASSUME NEW vs, IsDirectory(vs, VersionRecords), NEW c \in DOMAIN vs,
         \A v \in DOMAIN vs : v <= c, vs[c].refs >= 1, NEW files \in SUBSET Nat
  PROVE  Follows(AppendVersion(vs, files), vs, c, files)
  <1>1. PICK r : r = [files |-> files, refs |-> 1]
    OBVIOUS
  <1>2. r \in VersionRecords
    BY <1>1 DEF VersionRecords
  <1>3. vs # None
    BY NoneFacts
  <1>4. PICK x : x = Unref(vs, c)
    OBVIOUS
  <1>5. c \in Nat /\ DOMAIN vs \subseteq Nat
    BY DEF IsDirectory
  <1>6. PICK d \in Nat : d = c + 1
    BY <1>5
  <1>7. PICK w : w = AppendVersion(vs, files) /\ w = Put(x, d, r)
    BY <1>1, <1>3, <1>4, <1>6, CurrentIs DEF AppendVersion
  <1>8. /\ IsDirectory(x, VersionRecords)
        /\ DOMAIN x = IF vs[c].refs = 1 THEN DOMAIN vs \ {c} ELSE DOMAIN vs
        /\ \A u \in DOMAIN x :
              /\ x[u].files = vs[u].files
              /\ x[u].refs = IF u = c THEN vs[u].refs - 1 ELSE vs[u].refs
    BY <1>4, UnrefFacts DEF Dropped
  <1>9. /\ IsDirectory(w, VersionRecords) /\ DOMAIN w = DOMAIN x \cup {d} /\ w[d] = r
        /\ \A i \in DOMAIN x : i # d => w[i] = x[i]
    <2>1. IsDirectory(x, VersionRecords)
      BY <1>8
    <2>2. PICK g : g = Put(x, d, r)
      OBVIOUS
    <2>3. IsDirectory(g, VersionRecords) /\ Extends(g, x, d, r)
      BY <1>2, <2>1, <2>2, PutFacts
    <2>4. g = w
      BY <1>7, <2>2
    <2> QED
      BY <2>3, <2>4 DEF Extends
  <1>10. d \notin DOMAIN vs /\ \A u \in DOMAIN w : u <= d
    BY <1>5, <1>6, <1>8, <1>9
  <1>11. CurrentVersion(w) = d
    BY <1>9, <1>10, CurrentIs
  <1>12. Follows(w, vs, c, files)
    BY <1>1, <1>6, <1>8, <1>9, <1>10, <1>11 DEF Follows
  <1> QED
    BY <1>7, <1>12

-----------------------------------------------------------------------------
(***************************************************************************)
(* What changes to the disk leave of a manifest.                           *)
(***************************************************************************)

\* The files that may be needed if CURRENT names manifest n.
Needed(n) == UNION {FilesAt(manifests[n].edits, k) :
                      k \in manifests[n].synced..Len(manifests[n].edits)}

LEMMA SoundKeeps ==
  ASSUME NEW n, Sound(n), manifests[n].synced \in Nat, n \in DOMAIN manifests', manifests'[n] = manifests[n],
         opened' => opened \/ manifests[n].synced >= 1,
         \A t \in Needed(n) : Whole(t) => Whole(t)'
  PROVE  Sound(n)'
  <1>1. PICK es, s : es = manifests[n].edits /\ s = manifests[n].synced
    OBVIOUS
  <1>2. ASSUME NEW k \in s..Len(es), Readable(es, k, n) PROVE Readable(es, k, n)'
    <2>1. \A t \in FilesAt(es, k) : t \in Needed(n)
      BY <1>1 DEF Needed
    <2> QED
      BY <1>2, <2>1 DEF Readable
  <1>3. ASSUME NEW k \in s..Len(es), k = 0, ~opened PROVE ~opened'
    <2>1. ~(s >= 1)
      BY <1>1, <1>3
    <2> QED
      BY <1>1, <1>3, <2>1
  <1> QED
    BY <1>1, <1>2, <1>3 DEF Sound

LEMMA SoundFacts ==
  ASSUME TypeOK, NEW n, Sound(n)
  PROVE  /\ n \in Nat /\ manifests[n] \in Manifests
         /\ manifests[n].edits \in Seq(Edits) /\ manifests[n].synced \in Nat
         /\ manifests[n].synced <= Len(manifests[n].edits)
         /\ Needed(n) \in SUBSET Nat
         /\ manifests[n].edits # <<>> \/ opened =>
              /\ Len(manifests[n].edits) >= 1
              /\ LastEdit(n) \in Edits /\ AllSet(LastEdit(n))
              /\ LastEdit(n).next \in Nat /\ n < LastEdit(n).next
              /\ \A t \in Needed(n) : t < LastEdit(n).next /\ Whole(t)
              /\ LastFiles(n) \subseteq Needed(n)
  <1>1. PICK m : m = manifests[n] /\ m \in Manifests /\ n \in Nat
    BY DEF TypeOK, IsDirectory, Sound
  <1>2. PICK es \in Seq(Edits) : es = m.edits
    BY <1>1 DEF Manifests
  <1>3. PICK s \in Nat : s = m.synced
    BY <1>1 DEF Manifests
  <1>4. PICK l \in Nat : l = Len(es)
    OBVIOUS
  <1>5. s <= l /\ \A k \in s..l : Readable(es, k, n) \/ (k = 0 /\ ~opened)
    BY <1>1, <1>2, <1>3, <1>4 DEF Sound
  <1>6. Needed(n) = UNION {FilesAt(es, k) : k \in s..l}
    BY <1>1, <1>2, <1>3, <1>4 DEF Needed
  <1>7. \A k \in s..l : k \in 0..Len(es) /\ FilesAt(es, k) \in SUBSET Nat
    <2>1. \A k \in s..l : k \in 0..Len(es)
      BY <1>4
    <2> QED
      BY <2>1, FilesAtNumbers
  <1>8. Needed(n) \in SUBSET Nat
    BY <1>6, <1>7
  <1>9. ASSUME es # <<>> \/ opened
        PROVE  /\ l >= 1 /\ es[l] \in Edits /\ AllSet(es[l]) /\ es[l].next \in Nat
               /\ n < es[l].next
               /\ \A t \in Needed(n) : t < es[l].next /\ Whole(t)
               /\ FilesAt(es, l) \subseteq Needed(n)
    <2>1. l \in s..l
      BY <1>5
    <2>2. l >= 1
      <3>1. CASE opened
        BY <1>5, <2>1, <3>1 DEF Readable
      <3>2. CASE es # <<>>
        BY <1>4, <3>2
      <3> QED
        BY <1>9, <3>1, <3>2
    <2>3. Readable(es, l, n)
      BY <1>5, <2>1, <2>2
    <2>4. es[l] \in Edits
      BY <1>4, <2>2
    <2>5. AllSet(es[l]) /\ es[l].next \in Nat /\ n < es[l].next
      BY <2>3, <2>4 DEF Readable, AllSet, Edits, Fields
    <2>6. FilesAt(es, l) \subseteq Needed(n)
      BY <1>6, <2>1
    <2>7. ASSUME NEW t \in Needed(n) PROVE t < es[l].next /\ Whole(t)
      <3>1. PICK k \in s..l : t \in FilesAt(es, k)
        BY <1>6
      <3>2. k # 0
        <4>1. SUFFICES ASSUME k = 0 PROVE FALSE
          OBVIOUS
        <4>2. k \in 0..Len(es)
          BY <1>7
        <4>3. \E i \in 1..k : t \in es[i].add
          BY <3>1, <4>2, FilesAtIs
        <4> QED
          BY <4>1, <4>3
      <3>3. Readable(es, k, n)
        BY <1>5, <3>2
      <3>4. es[k] \in Edits
        BY <1>4, <3>2
      <3>5. t < es[k].next /\ Whole(t) /\ es[k].next <= es[l].next /\ es[k].next \in Nat
        BY <1>4, <3>1, <3>3, <3>4 DEF Readable, AllSet, Edits, Fields
      <3>6. t \in Nat
        BY <1>8
      <3> QED
        BY <2>5, <3>5, <3>6
    <2> QED
      BY <2>2, <2>4, <2>5, <2>6, <2>7
  <1>10. LastEdit(n) = es[l] /\ LastFiles(n) = FilesAt(es, l)
    BY <1>1, <1>2, <1>4 DEF LastEdit, LastFiles
  <1> QED
    BY <1>1, <1>2, <1>3, <1>4, <1>5, <1>8, <1>9, <1>10

\* Steps that leave the tables and the manifests alone.
LEMMA SameDisk ==
  ASSUME NEW n, tables' = tables, manifests' = manifests, opened' = opened
  PROVE  /\ Sound(n) => Sound(n)'
         /\ LastEdit(n)' = LastEdit(n) /\ LastFiles(n)' = LastFiles(n)
         /\ \A t : Whole(t) => Whole(t)'
  BY DEF Sound, Readable, Whole, LastEdit, LastFiles

-----------------------------------------------------------------------------
(***************************************************************************)
(* The first states of DB::Open.                                           *)
(***************************************************************************)

LEMMA InvInit == Init => Inv
  <1> SUFFICES ASSUME Init PROVE Inv
    OBVIOUS
  <1>1. IsDirectory(None, LogFiles) /\ IsDirectory(None, TableFiles)
        /\ IsDirectory(None, Manifests) /\ IsDirectory(None, VersionRecords)
    BY NoneFacts
  <1>2. TypeOK
    BY <1>1 DEF Init, TypeOK, NoVset, Early
  <1>3. DiskSound /\ Resting /\ OpeningSound /\ RunningSound
    BY DEF Init, DiskSound, Resting, OpeningSound, RunningSound, Early, Opening, Written, Up
  <1> QED
    BY <1>2, <1>3 DEF Inv

LEMMA OpenKeeps ==
  ASSUME Inv, Open
  PROVE  Inv'
  <1>1. /\ phase = "down" /\ phase' = IF current = 0 THEN "new" ELSE "recover"
        /\ logs' = logs /\ tables' = tables /\ manifests' = manifests /\ current' = current
        /\ temps' = temps /\ vset' = vset /\ versions' = versions /\ mem' = mem /\ imm' = imm
        /\ logfile' = logfile /\ todo' = todo /\ edit' = edit /\ flush' = flush /\ comp' = comp
        /\ pending' = pending /\ bg_ok' = bg_ok /\ reader' = reader /\ written' = written
        /\ promised' = promised /\ opened' = opened /\ restarts' = restarts /\ faults' = faults
    BY DEF Open, disk, memory, background, history
  <1>2. TypeOK'
    BY <1>1 DEF Inv, TypeOK, Early
  <1>3. PICK n : n = current
    OBVIOUS
  <1>4. DiskSound'
    <2>1. Sound(n) => Sound(n)'
      BY <1>1, SameDisk
    <2> QED
      BY <1>1, <1>3, <2>1 DEF Inv, DiskSound
  <1>5. Resting'
    BY <1>1 DEF Inv, Resting, Early, Up
  <1>6. OpeningSound' /\ RunningSound'
    BY <1>1 DEF OpeningSound, RunningSound, Opening, Written, Up
  <1> QED
    BY <1>2, <1>4, <1>5, <1>6 DEF Inv

LEMMA NewDBKeeps ==
  ASSUME Inv, NewDB
  PROVE  Inv'
  <1>1. PICK e : e = Edit(0, 2, 0, {}, {})
    OBVIOUS
  <1>2. PICK m : m = [edits |-> <<e>>, synced |-> 0]
    OBVIOUS
  <1>3. /\ phase = "new" /\ phase' = "new_temp"
        /\ manifests' = Put(manifests, 1, m) /\ vset' = [NoVset EXCEPT !.manifest = 1]
        /\ logs' = logs /\ tables' = tables /\ current' = current
        /\ temps' = temps /\ versions' = versions /\ mem' = mem /\ imm' = imm
        /\ logfile' = logfile /\ todo' = todo /\ edit' = edit /\ flush' = flush /\ comp' = comp
        /\ pending' = pending /\ bg_ok' = bg_ok /\ reader' = reader /\ written' = written
        /\ promised' = promised /\ opened' = opened /\ restarts' = restarts /\ faults' = faults
    BY <1>1, <1>2 DEF NewDB, memory, background, history
  <1>4. e \in Edits /\ e.del = {} /\ e.add = {} /\ AllSet(e) /\ e.next = 2
    BY <1>1 DEF Edit, Edits, Fields, AllSet, Unset
  <1>5. <<e>> \in Seq(Edits) /\ Len(<<e>>) = 1 /\ <<e>>[1] = e /\ FilesAt(<<e>>, 1) = {}
    BY <1>4, FilesOne
  <1>6. PICK es \in Seq(Edits) : es = <<e>> /\ Len(es) = 1 /\ es[1] = e /\ FilesAt(es, 1) = {}
    BY <1>5
  <1>7. m \in Manifests /\ m.edits = es /\ m.synced = 0
    BY <1>2, <1>6 DEF Manifests
  <1>8. /\ IsDirectory(manifests', Manifests) /\ 1 \in DOMAIN manifests' /\ manifests'[1] = m
    <2>1. PICK f : f = manifests /\ IsDirectory(f, Manifests)
      BY DEF Inv, TypeOK
    <2>2. PICK i \in Nat : i = 1
      OBVIOUS
    <2>3. m \in Manifests
      BY <1>7
    <2>4. PICK g : g = Put(f, i, m)
      OBVIOUS
    <2>5. IsDirectory(g, Manifests) /\ Extends(g, f, i, m)
      BY <2>1, <2>3, <2>4, PutFacts
    <2> QED
      BY <1>3, <2>1, <2>2, <2>4, <2>5 DEF Extends
  <1>9. vset' \in [next_file: Nat, manifest: Nat, log_number: Nat, last: Nat] /\ vset'.manifest = 1
    BY <1>3 DEF NoVset
  <1>10. TypeOK'
    BY <1>3, <1>8, <1>9 DEF Inv, TypeOK, Early
  <1>11. current = 0 /\ ~opened
    BY <1>3 DEF Inv, Resting, DiskSound
  <1>12. Sound(1)'
    <2>1. ASSUME NEW k \in 0..1 PROVE Readable(es, k, 1)' \/ k = 0
      <3>1. CASE k = 1
        BY <1>4, <1>6, <3>1 DEF Readable
      <3> QED
        BY <3>1
    <2>2. /\ manifests'[1].edits = es /\ manifests'[1].synced = 0 /\ ~opened'
          /\ 0 <= Len(es) /\ 0..Len(es) = 0..1
      BY <1>3, <1>6, <1>7, <1>8, <1>11
    <2> QED
      BY <1>8, <2>1, <2>2 DEF Sound
  <1>13. DiskSound' /\ Resting'
    BY <1>3, <1>9, <1>11, <1>12 DEF Inv, DiskSound, Resting, Early, Up
  <1>14. OpeningSound' /\ RunningSound'
    BY <1>3 DEF OpeningSound, RunningSound, Opening, Written, Up
  <1> QED
    BY <1>10, <1>13, <1>14 DEF Inv

LEMMA WriteTempFileKeeps ==
  ASSUME Inv, WriteTempFile
  PROVE  Inv'
  <1>1. /\ phase \in {"new_temp", "temp"}
        /\ phase' = IF phase = "temp" THEN "rename" ELSE "new_rename"
        /\ temps' = temps \cup {vset.manifest}
        /\ logs' = logs /\ tables' = tables /\ manifests' = manifests /\ current' = current
        /\ vset' = vset /\ versions' = versions /\ mem' = mem /\ imm' = imm
        /\ logfile' = logfile /\ todo' = todo /\ edit' = edit /\ flush' = flush /\ comp' = comp
        /\ pending' = pending /\ bg_ok' = bg_ok /\ reader' = reader /\ written' = written
        /\ promised' = promised /\ opened' = opened /\ restarts' = restarts /\ faults' = faults
    BY DEF WriteTempFile, memory, background, history
  <1>2. TypeOK'
    BY <1>1 DEF Inv, TypeOK, Early, Opening, Written
  <1>3. PICK n, m : n = current /\ m = vset.manifest
    OBVIOUS
  <1>4. /\ \A t : Whole(t) => Whole(t)'
        /\ Sound(n) => Sound(n)'
        /\ Sound(m) => Sound(m)'
        /\ Sound(1) => Sound(1)'
        /\ LastEdit(n)' = LastEdit(n) /\ LastEdit(m)' = LastEdit(m) /\ LastFiles(m)' = LastFiles(m)
    BY <1>1, SameDisk
  <1>5. DiskSound' /\ Resting'
    BY <1>1, <1>3, <1>4 DEF Inv, DiskSound, Resting, Early, Up
  <1>6. OpeningSound'
    BY <1>1, <1>3, <1>4 DEF Inv, OpeningSound, Opening, Written
  <1>7. RunningSound'
    BY <1>1 DEF RunningSound, Up
  <1> QED
    BY <1>2, <1>5, <1>6, <1>7 DEF Inv

LEMMA RenameTempFileKeeps ==
  ASSUME Inv, RenameTempFile
  PROVE  Inv'
  <1>1. /\ phase \in {"new_rename", "rename"}
        /\ phase' = IF phase = "rename" THEN "install" ELSE "recover"
        /\ temps' = temps \ {vset.manifest} /\ current' = vset.manifest
        /\ logs' = logs /\ tables' = tables /\ manifests' = manifests
        /\ vset' = vset /\ versions' = versions /\ mem' = mem /\ imm' = imm
        /\ logfile' = logfile /\ todo' = todo /\ edit' = edit /\ flush' = flush /\ comp' = comp
        /\ pending' = pending /\ bg_ok' = bg_ok /\ reader' = reader /\ written' = written
        /\ promised' = promised /\ opened' = opened /\ restarts' = restarts /\ faults' = faults
    BY DEF RenameTempFile, memory, background, history
  <1>2. TypeOK'
    BY <1>1 DEF Inv, TypeOK, Early, Opening, Written
  <1>3. PICK m \in Nat : m = vset.manifest
    BY DEF Inv, TypeOK
  <1>4. /\ \A t : Whole(t) => Whole(t)'
        /\ Sound(m) => Sound(m)'
        /\ LastEdit(m)' = LastEdit(m) /\ LastFiles(m)' = LastFiles(m)
    BY <1>1, SameDisk
  <1>5. Sound(m) /\ m # 0
    <2>1. CASE phase = "new_rename"
      BY <1>3, <2>1 DEF Inv, Resting
    <2>2. CASE phase = "rename"
      <3>1. current \in Nat /\ current < m /\ Sound(m)
        BY <1>3, <2>2 DEF Inv, TypeOK, OpeningSound, Opening, Written
      <3> QED
        BY <3>1
    <2> QED
      BY <1>1, <2>1, <2>2
  <1>6. DiskSound' /\ Resting'
    BY <1>1, <1>3, <1>4, <1>5 DEF Inv, DiskSound, Resting, Early, Up
  <1>7. OpeningSound'
    BY <1>1, <1>3, <1>4, <1>5 DEF Inv, OpeningSound, Opening, Written
  <1>8. RunningSound'
    BY <1>1 DEF RunningSound, Up
  <1> QED
    BY <1>2, <1>6, <1>7, <1>8 DEF Inv

\* A step that ends DB::Open with an error, or that a crash ends, leaves CURRENT
\* and the manifest it names.
LEMMA BackDown ==
  ASSUME TypeOK', Resting', phase' = "down", current' = current, opened' = opened,
         DiskSound, current # 0 => Sound(current)'
  PROVE  Inv'
  <1>1. DiskSound'
    BY DEF DiskSound
  <1>2. OpeningSound' /\ RunningSound'
    BY DEF OpeningSound, RunningSound, Opening, Written, Up
  <1> QED
    BY <1>1, <1>2 DEF Inv

LEMMA SetCurrentFileFailsKeeps ==
  ASSUME Inv, SetCurrentFileFails
  PROVE  Inv'
  <1>1. /\ phase \in {"new_temp", "new_rename", "temp", "rename"} /\ phase' = "down"
        /\ temps' = temps \ {vset.manifest} /\ current' = current
        /\ manifests' = IF phase \in {"temp", "rename"} THEN Without(manifests, vset.manifest)
                        ELSE manifests
        /\ vset' = NoVset /\ versions' = None /\ edit' = None /\ mem' = {} /\ logfile' = 0
        /\ logs' = logs /\ tables' = tables /\ imm' = imm /\ todo' = todo
        /\ flush' = flush /\ comp' = comp
        /\ pending' = pending /\ bg_ok' = bg_ok /\ reader' = reader /\ written' = written
        /\ promised' = promised /\ opened' = opened /\ restarts' = restarts /\ faults' = faults + 1
    BY DEF SetCurrentFileFails, OpenFails, Fails, background
  <1>2. PICK n \in Nat : n = current
    BY DEF Inv, TypeOK
  <1>3. PICK m \in Nat : m = vset.manifest
    BY DEF Inv, TypeOK
  <1>4. PICK f : f = manifests /\ IsDirectory(f, Manifests)
    BY DEF Inv, TypeOK
  <1>5. /\ IsDirectory(manifests', Manifests)
        /\ n # 0 => n \in DOMAIN manifests' /\ manifests'[n] = manifests[n]
    <2>1. CASE phase \in {"temp", "rename"}
      <3>1. PICK g : g = Without(f, m)
        OBVIOUS
      <3>2. IsDirectory(g, Manifests) /\ Kept(g, f, DOMAIN f \ {m})
        BY <1>4, <3>1, WithoutFacts
      <3>3. n < m
        BY <1>2, <1>3, <2>1 DEF Inv, OpeningSound, Opening, Written
      <3>4. n # 0 => n \in DOMAIN f \ {m}
        BY <1>2, <1>4, <3>3 DEF Inv, DiskSound, Sound
      <3>5. manifests' = g
        BY <1>1, <1>3, <1>4, <2>1, <3>1
      <3> QED
        BY <1>4, <3>2, <3>4, <3>5 DEF Kept
    <2>2. CASE phase \notin {"temp", "rename"}
      BY <1>1, <1>2, <1>4, <2>2 DEF Inv, DiskSound, Sound
    <2> QED
      BY <2>1, <2>2
  <1>6. ASSUME n # 0 PROVE Sound(n)'
    <2>1. Sound(n) /\ TypeOK
      BY <1>2, <1>6 DEF Inv, DiskSound
    <2>2. manifests[n].synced \in Nat
      BY <2>1, SoundFacts
    <2>3. \A t : Whole(t) => Whole(t)'
      BY <1>1 DEF Whole
    <2> QED
      BY <1>1, <1>5, <1>6, <2>1, <2>2, <2>3, SoundKeeps
  <1>7. TypeOK'
    <2>1. IsDirectory(None, VersionRecords)
      BY NoneFacts
    <2>2. vset' \in [next_file: Nat, manifest: Nat, log_number: Nat, last: Nat]
      BY <1>1 DEF NoVset
    <2>3. faults' \in Nat
      BY <1>1 DEF Inv, TypeOK
    <2> QED
      BY <1>1, <1>5, <2>1, <2>2, <2>3 DEF Inv, TypeOK, Early
  <1>8. Resting'
    BY <1>1 DEF Inv, Resting, Early, Up
  <1> QED
    BY <1>1, <1>2, <1>6, <1>7, <1>8, BackDown DEF Inv

-----------------------------------------------------------------------------
(***************************************************************************)
(* Recovery: the manifest is read, the logs replayed, a new manifest       *)
(* written and installed.                                                  *)
(***************************************************************************)

\* An empty manifest.
LEMMA ReplayNone ==
  Replay(<<>>).next = Unset
  <1>1. DOMAIN <<>> = {}
    BY NoneFacts DEF None
  <1>2. PICK f : f = [i \in DOMAIN <<>> |-> <<>>[i].next]
    OBVIOUS
  <1>3. DOMAIN f = {}
    BY <1>1, <1>2
  <1>4. LastSet(f) = Unset
    BY <1>3 DEF LastSet
  <1> QED
    BY <1>2, <1>4 DEF Replay

LEMMA RecoverKeeps ==
  ASSUME Inv, Recover
  PROVE  Inv'
  <1>1. /\ phase = "recover" /\ logs' = logs /\ tables' = tables /\ manifests' = manifests
        /\ current' = current /\ temps' = temps /\ mem' = mem /\ imm' = imm
        /\ logfile' = logfile /\ flush' = flush /\ comp' = comp
        /\ pending' = pending /\ bg_ok' = bg_ok /\ reader' = reader /\ written' = written
        /\ promised' = promised /\ opened' = opened /\ restarts' = restarts /\ faults' = faults
    BY DEF Recover, disk, memory, background, history
  <1>2. PICK n \in Nat : n = current /\ n # 0 /\ Sound(n)
    BY <1>1 DEF Inv, TypeOK, Resting, DiskSound
  <1>3. TypeOK
    BY DEF Inv
  <1>4. PICK es \in Seq(Edits) : es = manifests[n].edits
    BY <1>2, <1>3, SoundFacts
  <1>5. PICK s : s = Replay(es)
    OBVIOUS
  <1>6. /\ \A t : Whole(t) => Whole(t)'
        /\ Sound(n)' /\ LastEdit(n)' = LastEdit(n)
    BY <1>1, <1>2, SameDisk
  <1>7. s = Replay(IF current \in DOMAIN manifests THEN manifests[current].edits ELSE <<>>)
    BY <1>2, <1>4, <1>5 DEF Sound
  <1>8. CASE es = <<>> /\ ~opened
    <2>1. s.next = Unset
      BY <1>5, <1>8, ReplayNone
    <2>2. phase' = "corrupt" /\ vset' = vset /\ versions' = versions /\ todo' = todo /\ edit' = edit
      BY <1>7, <2>1 DEF Recover
    <2>3. TypeOK'
      BY <1>1, <2>2 DEF Inv, TypeOK, Early
    <2>4. DiskSound' /\ Resting'
      BY <1>1, <1>2, <1>6, <1>8, <2>2 DEF Inv, DiskSound, Resting, Early, Up
    <2>5. OpeningSound' /\ RunningSound'
      BY <2>2 DEF OpeningSound, RunningSound, Opening, Written, Up
    <2> QED
      BY <2>3, <2>4, <2>5 DEF Inv
  <1>9. CASE es # <<>> \/ opened
    <2>1. PICK e \in Edits : /\ e = es[Len(es)] /\ e = LastEdit(n) /\ AllSet(e) /\ es # <<>>
                             /\ e.next \in Nat /\ n < e.next
                             /\ \A t \in Needed(n) : t < e.next /\ Whole(t)
                             /\ LastFiles(n) \subseteq Needed(n)
      <3>1. /\ Len(es) >= 1 /\ LastEdit(n) \in Edits /\ AllSet(LastEdit(n))
            /\ LastEdit(n).next \in Nat /\ n < LastEdit(n).next
            /\ \A t \in Needed(n) : t < LastEdit(n).next /\ Whole(t)
            /\ LastFiles(n) \subseteq Needed(n)
        BY <1>2, <1>3, <1>4, <1>9, SoundFacts
      <3>2. LastEdit(n) = es[Len(es)] /\ es # <<>>
        BY <1>4, <3>1 DEF LastEdit
      <3> QED
        BY <3>1, <3>2
    <2>2. PICK files \in SUBSET Nat : files = LastFiles(n)
      <3>1. LastFiles(n) \subseteq Needed(n) /\ Needed(n) \in SUBSET Nat
        BY <1>2, <1>3, <2>1, SoundFacts
      <3> QED
        BY <3>1
    <2>3. s = [files |-> files, log |-> e.log, next |-> e.next, last |-> e.last]
      <3>1. files = FilesAt(es, Len(es))
        BY <1>4, <2>2 DEF LastFiles
      <3> QED
        BY <1>5, <2>1, <3>1, ReplayIs
    <2>4. e.log \in Nat /\ e.last \in Nat /\ e.next # Unset /\ e.log # Unset /\ e.last # Unset
      BY <2>1 DEF Edits, Fields, AllSet
    <2>5. Missing(s.files) = {}
      BY <2>1, <2>2, <2>3 DEF Missing, Whole
    <2>6. /\ phase' = "replay"
          /\ vset' = [next_file |-> MarkFileNumberUsed(e.next + 1, e.log),
                      manifest |-> e.next, log_number |-> e.log, last |-> e.last]
          /\ versions' = AppendVersion(None, files)
          /\ todo' = LogsToReplay(e.log)
          /\ edit' = Edit(Unset, Unset, Unset, {}, {})
      BY <1>7, <2>3, <2>4, <2>5 DEF Recover
    <2>7. PICK next \in Nat : next = MarkFileNumberUsed(e.next + 1, e.log) /\ e.next < next
      <3>1. /\ MarkFileNumberUsed(e.next + 1, e.log) \in Nat
            /\ e.next < MarkFileNumberUsed(e.next + 1, e.log)
        BY <2>1, <2>4 DEF MarkFileNumberUsed
      <3> QED
        BY <3>1
    <2>8. /\ vset' \in [next_file: Nat, manifest: Nat, log_number: Nat, last: Nat]
          /\ vset'.next_file = next /\ vset'.manifest = e.next
      BY <2>1, <2>4, <2>6, <2>7
    <2>9. /\ IsDirectory(versions', VersionRecords) /\ DOMAIN versions' = {1}
          /\ versions'[1].refs = 1 /\ versions'[1].files = files
      <3>1. /\ IsDirectory(AppendVersion(None, files), VersionRecords)
            /\ DOMAIN AppendVersion(None, files) = {1}
            /\ AppendVersion(None, files)[1] = [files |-> files, refs |-> 1]
        BY FirstVersion
      <3>2. PICK w : w = AppendVersion(None, files)
        OBVIOUS
      <3>3. IsDirectory(w, VersionRecords) /\ DOMAIN w = {1} /\ w[1].refs = 1 /\ w[1].files = files
        BY <3>1, <3>2
      <3> QED
        BY <2>6, <3>2, <3>3
    <2>10. edit' \in Edits /\ edit'.del = {} /\ edit'.add = {}
      BY <2>6 DEF Edit, Edits, Fields
    <2>11. todo' \subseteq DOMAIN logs /\ todo' \in SUBSET Nat
      BY <2>6 DEF Inv, TypeOK, IsDirectory, LogsToReplay
    <2>12. TypeOK'
      BY <1>1, <2>6, <2>8, <2>9, <2>10, <2>11 DEF Inv, TypeOK, Opening
    <2>13. DiskSound' /\ Resting'
      BY <1>1, <1>2, <1>6, <2>6 DEF Inv, DiskSound, Resting, Early, Up
    <2>14. OpeningSound'
      <3>1. \A t \in versions'[1].files : t < vset'.manifest /\ Whole(t)'
        BY <1>6, <2>1, <2>2, <2>8, <2>9
      <3>2. /\ current' < vset'.manifest /\ manifests'[current'].edits # <<>>
            /\ LastEdit(current)'.next <= vset'.manifest
        BY <1>1, <1>2, <1>4, <1>6, <2>1, <2>8
      <3> QED
        BY <1>1, <1>2, <2>6, <2>7, <2>8, <2>9, <2>10, <2>11, <3>1, <3>2
           DEF OpeningSound, Opening, Written
    <2>15. RunningSound'
      BY <2>6 DEF RunningSound, Up
    <2> QED
      BY <2>12, <2>13, <2>14, <2>15 DEF Inv
  <1> QED
    BY <1>8, <1>9

LEMMA RecoverLogFileKeeps ==
  ASSUME Inv, RecoverLogFile
  PROVE  Inv'
  <1>1. /\ phase = "replay" /\ todo # {} /\ phase' = phase
        /\ logs' = logs /\ manifests' = manifests
        /\ current' = current /\ temps' = temps /\ versions' = versions /\ mem' = mem /\ imm' = imm
        /\ logfile' = logfile /\ flush' = flush /\ comp' = comp
        /\ pending' = pending /\ bg_ok' = bg_ok /\ reader' = reader /\ written' = written
        /\ promised' = promised /\ opened' = opened /\ restarts' = restarts /\ faults' = faults
    BY DEF RecoverLogFile, memory, background, history
  <1>2. TypeOK
    BY DEF Inv
  <1>3. /\ current # 0 /\ DOMAIN versions = {1} /\ versions[1].refs = 1
        /\ vset.manifest < vset.next_file
        /\ \A t \in versions[1].files : t < vset.manifest /\ Whole(t)
        /\ edit \in Edits /\ edit.del = {}
        /\ \A t \in edit.add : t < vset.next_file /\ Whole(t)
        /\ current < vset.manifest /\ manifests[current].edits # <<>>
        /\ LastEdit(current).next <= vset.manifest
        /\ todo \subseteq DOMAIN logs
    BY <1>1 DEF Inv, OpeningSound, Opening
  <1>4. PICK n \in DOMAIN logs : n = OldestLog(todo) /\ n \in Nat
    <2>1. todo \in SUBSET Nat /\ todo # {}
      BY <1>1, <1>2 DEF TypeOK
    <2>2. Min(todo) \in todo
      BY <2>1, MinIn
    <2> QED
      BY <1>3, <2>1, <2>2 DEF OldestLog
  <1>5. PICK recs \in Seq(Writes) : recs = logs[n].recs
    BY <1>2, <1>4 DEF TypeOK, IsDirectory, LogFiles
  <1>6. PICK t \in Nat : t = vset.next_file
    BY <1>2 DEF TypeOK
  <1>7. PICK next \in Nat : /\ next = MarkLog(IF recs = <<>> THEN t ELSE t + 1, n)
                            /\ next >= t /\ (recs # <<>> => next > t)
    BY <1>4 DEF MarkLog, MarkFileNumberUsed
  <1>8. PICK last \in Nat : last = MaxSequence(vset.last, recs)
    BY <1>2, MaxSequenceFacts DEF TypeOK
  <1>9. /\ vset' = [vset EXCEPT !.next_file = next, !.last = last]
        /\ todo' = todo \ {n}
        /\ recs = <<>> => tables' = tables /\ edit' = edit
        /\ recs # <<>> => /\ tables' = Put(tables, t, [data |-> {recs[i] : i \in 1..Len(recs)},
                                                      whole |-> TRUE, level |-> 0])
                          /\ edit' = [edit EXCEPT !.add = edit.add \cup {t}]
    BY <1>4, <1>5, <1>6, <1>7, <1>8 DEF RecoverLogFile
  <1>10. /\ vset' \in [next_file: Nat, manifest: Nat, log_number: Nat, last: Nat]
         /\ vset'.next_file = next /\ vset'.manifest = vset.manifest
    BY <1>2, <1>9 DEF TypeOK
  <1>11. /\ IsDirectory(tables', TableFiles)
         /\ recs # <<>> => Whole(t)'
         /\ \A u : u # t /\ Whole(u) => Whole(u)'
         /\ recs = <<>> => \A u : Whole(u) => Whole(u)'
    <2>1. CASE recs = <<>>
      BY <1>2, <1>9, <2>1 DEF TypeOK, Whole
    <2>2. CASE recs # <<>>
      <3>1. PICK x : x = [data |-> {recs[i] : i \in 1..Len(recs)}, whole |-> TRUE, level |-> 0]
        OBVIOUS
      <3>2. x \in TableFiles /\ x.whole
        <4>1. {recs[i] : i \in 1..Len(recs)} \in SUBSET Writes
          OBVIOUS
        <4> QED
          BY <3>1, <4>1 DEF TableFiles
      <3>3. PICK f : f = tables /\ IsDirectory(f, TableFiles)
        BY <1>2 DEF TypeOK
      <3>4. PICK g : g = Put(f, t, x)
        OBVIOUS
      <3>5. IsDirectory(g, TableFiles) /\ Extends(g, f, t, x)
        BY <3>2, <3>3, <3>4, PutFacts
      <3>6. tables' = g
        BY <1>9, <2>2, <3>1, <3>3, <3>4
      <3> QED
        BY <2>2, <3>2, <3>3, <3>5, <3>6 DEF Whole, Extends
    <2> QED
      BY <2>1, <2>2
  <1>12. /\ edit' \in Edits /\ edit'.del = {}
         /\ \A u \in edit'.add : u < next /\ Whole(u)'
    <2>1. \A u \in edit.add : u \in Nat /\ u < t /\ Whole(u)
      BY <1>3, <1>6 DEF Edits
    <2>2. CASE recs = <<>>
      <3>1. \A u \in edit.add : u < next
        BY <1>7, <2>1
      <3> QED
        BY <1>3, <1>9, <1>11, <2>1, <2>2, <3>1
    <2>3. CASE recs # <<>>
      <3>1. edit' \in Edits /\ edit'.del = {} /\ edit'.add = edit.add \cup {t}
        BY <1>3, <1>9, <2>3 DEF Edits
      <3>2. \A u \in edit.add : u < next /\ Whole(u)'
        BY <1>7, <1>11, <2>1
      <3>3. t < next /\ Whole(t)'
        BY <1>7, <1>11, <2>3
      <3> QED
        BY <3>1, <3>2, <3>3
    <2> QED
      BY <2>2, <2>3
  <1>13. TypeOK'
    BY <1>1, <1>9, <1>10, <1>11, <1>12 DEF Inv, TypeOK, Opening
  <1>14. PICK c \in Nat : c = current
    BY <1>2 DEF TypeOK
  <1>15. Sound(c) /\ c # 0
    BY <1>3, <1>14 DEF Inv, DiskSound
  <1>16. Sound(c)'
    <2>1. manifests[c].synced \in Nat /\ Needed(c) \in SUBSET Nat
      BY <1>2, <1>15, SoundFacts
    <2>2. LastEdit(c).next \in Nat /\ \A u \in Needed(c) : u < LastEdit(c).next
      BY <1>2, <1>3, <1>14, <1>15, SoundFacts
    <2>3. vset.manifest \in Nat /\ LastEdit(c).next <= vset.manifest /\ vset.manifest < t
      BY <1>2, <1>3, <1>6, <1>14 DEF TypeOK
    <2>4. \A u \in Needed(c) : u # t
      BY <2>1, <2>2, <2>3
    <2>5. c \in DOMAIN manifests
      BY <1>15 DEF Sound
    <2> QED
      BY <1>1, <1>11, <1>15, <2>1, <2>4, <2>5, SoundKeeps
  <1>17. DiskSound' /\ Resting'
    BY <1>1, <1>14, <1>15, <1>16 DEF Inv, DiskSound, Resting, Early, Up
  <1>18. \A u \in versions[1].files : u < vset.manifest /\ Whole(u)'
    <2>1. versions[1].files \in SUBSET Nat
      BY <1>2, <1>3 DEF TypeOK, IsDirectory, VersionRecords
    <2>2. vset.manifest \in Nat /\ vset.manifest < t
      BY <1>2, <1>3, <1>6 DEF TypeOK
    <2>3. \A u \in versions[1].files : u # t
      BY <1>3, <2>1, <2>2
    <2> QED
      BY <1>3, <1>11, <2>3
  <1>19. OpeningSound'
    <2>1. LastEdit(c)' = LastEdit(c)
      BY <1>1 DEF LastEdit
    <2>2. vset.manifest < next
      BY <1>2, <1>3, <1>6, <1>7 DEF TypeOK
    <2> QED
      BY <1>1, <1>3, <1>9, <1>10, <1>12, <1>14, <1>18, <2>1, <2>2
         DEF OpeningSound, Opening, Written
  <1>20. RunningSound'
    BY <1>1 DEF RunningSound, Up
  <1> QED
    BY <1>13, <1>17, <1>19, <1>20 DEF Inv

LEMMA NewLogKeeps ==
  ASSUME Inv, NewLog
  PROVE  Inv'
  <1>1. /\ phase = "replay" /\ phase' = "manifest"
        /\ logs' = Put(logs, vset.next_file, [recs |-> <<>>, synced |-> 0])
        /\ logfile' = vset.next_file /\ mem' = {}
        /\ vset' = [vset EXCEPT !.next_file = vset.next_file + 1]
        /\ edit' = Edit(logfile', vset'.next_file, vset.last, {}, edit.add)
        /\ tables' = tables /\ manifests' = manifests
        /\ current' = current /\ temps' = temps /\ versions' = versions /\ imm' = imm
        /\ todo' = todo /\ flush' = flush /\ comp' = comp
        /\ pending' = pending /\ bg_ok' = bg_ok /\ reader' = reader /\ written' = written
        /\ promised' = promised /\ opened' = opened /\ restarts' = restarts /\ faults' = faults
    BY DEF NewLog, background, history
  <1>2. TypeOK
    BY DEF Inv
  <1>3. PICK t \in Nat : t = vset.next_file
    BY <1>2 DEF TypeOK
  <1>4. /\ vset' \in [next_file: Nat, manifest: Nat, log_number: Nat, last: Nat]
        /\ vset'.next_file = t + 1 /\ vset'.manifest = vset.manifest
    BY <1>1, <1>2, <1>3 DEF TypeOK
  <1>5. IsDirectory(logs', LogFiles)
    <2>1. PICK f : f = logs /\ IsDirectory(f, LogFiles)
      BY <1>2 DEF TypeOK
    <2>2. PICK x : x = [recs |-> <<>>, synced |-> 0]
      OBVIOUS
    <2>3. x \in LogFiles
      BY <2>2 DEF LogFiles
    <2>4. IsDirectory(Put(f, t, x), LogFiles)
      BY <2>1, <2>3, PutFacts
    <2> QED
      BY <1>1, <1>3, <2>1, <2>2, <2>4
  <1>6. /\ edit \in Edits /\ current # 0 /\ DOMAIN versions = {1} /\ versions[1].refs = 1
        /\ vset.manifest < vset.next_file
        /\ \A u \in versions[1].files : u < vset.manifest /\ Whole(u)
        /\ \A u \in edit.add : u < vset.next_file /\ Whole(u)
        /\ current < vset.manifest /\ manifests[current].edits # <<>>
        /\ LastEdit(current).next <= vset.manifest
    BY <1>1 DEF Inv, OpeningSound, Opening
  <1>7. /\ edit' \in Edits /\ edit'.del = {} /\ edit'.add = edit.add
        /\ AllSet(edit') /\ edit'.next = t + 1
    <2>1. vset.last \in Nat /\ edit.add \in SUBSET Nat
      BY <1>2, <1>6 DEF TypeOK, Edits
    <2>2. t \in Fields /\ t + 1 \in Fields /\ vset.last \in Fields
          /\ t # Unset /\ t + 1 # Unset /\ vset.last # Unset
      BY <2>1 DEF Fields, Unset
    <2>3. edit' = [log |-> t, next |-> t + 1, last |-> vset.last, del |-> {}, add |-> edit.add,
                   logged |-> FALSE]
      BY <1>1, <1>3, <1>4 DEF Edit
    <2> QED
      BY <2>1, <2>2, <2>3 DEF Edits, AllSet
  <1>8. TypeOK'
    BY <1>1, <1>3, <1>4, <1>5, <1>7 DEF Inv, TypeOK, Opening
  <1>9. PICK c \in Nat : c = current
    BY <1>2 DEF TypeOK
  <1>10. /\ \A u : Whole(u) => Whole(u)'
         /\ Sound(c) => Sound(c)'
         /\ LastEdit(c)' = LastEdit(c)
    BY <1>1, SameDisk
  <1>11. DiskSound' /\ Resting'
    BY <1>1, <1>9, <1>10 DEF Inv, DiskSound, Resting, Early, Up
  <1>12. OpeningSound'
    <2>1. \A u \in edit.add : u < t + 1 /\ Whole(u)'
      <3>1. \A u \in edit.add : u \in Nat /\ u < t /\ Whole(u)
        BY <1>3, <1>6 DEF Edits
      <3> QED
        BY <1>10, <3>1
    <2>2. vset.manifest < t + 1
      BY <1>2, <1>3, <1>6 DEF TypeOK
    <2> QED
      BY <1>1, <1>4, <1>6, <1>7, <1>9, <1>10, <2>1, <2>2 DEF OpeningSound, Opening, Written
  <1>13. RunningSound'
    BY <1>1 DEF RunningSound, Up
  <1> QED
    BY <1>8, <1>11, <1>12, <1>13 DEF Inv

LEMMA WriteSnapshotKeeps ==
  ASSUME Inv, WriteSnapshot
  PROVE  Inv'
  <1>1. /\ phase = "manifest" /\ phase' = "edit"
        /\ manifests' = Put(manifests, vset.manifest,
              [edits |-> <<Edit(Unset, Unset, Unset, {}, CurrentFiles)>>, synced |-> 0])
        /\ logs' = logs /\ tables' = tables
        /\ current' = current /\ temps' = temps /\ vset' = vset /\ versions' = versions
        /\ mem' = mem /\ imm' = imm /\ logfile' = logfile
        /\ todo' = todo /\ edit' = edit /\ flush' = flush /\ comp' = comp
        /\ pending' = pending /\ bg_ok' = bg_ok /\ reader' = reader /\ written' = written
        /\ promised' = promised /\ opened' = opened /\ restarts' = restarts /\ faults' = faults
    BY DEF WriteSnapshot, memory, background, history
  <1>2. TypeOK
    BY DEF Inv
  <1>3. /\ edit \in Edits /\ edit.del = {} /\ current # 0 /\ DOMAIN versions = {1} /\ versions[1].refs = 1
        /\ vset.manifest < vset.next_file
        /\ \A u \in versions[1].files : u < vset.manifest /\ Whole(u)
        /\ \A u \in edit.add : u < vset.next_file /\ Whole(u)
        /\ current < vset.manifest /\ manifests[current].edits # <<>>
        /\ LastEdit(current).next <= vset.manifest
        /\ AllSet(edit) /\ edit.next = vset.next_file
    BY <1>1 DEF Inv, OpeningSound, Opening
  <1>4. CurrentFiles = versions[1].files
    <2>1. PICK vs : vs = versions /\ IsDirectory(vs, VersionRecords) /\ DOMAIN vs = {1}
      BY <1>2, <1>3 DEF TypeOK
    <2>2. CurrentVersion(vs) = 1
      BY <2>1, CurrentIs
    <2> QED
      BY <2>1, <2>2 DEF CurrentFiles
  <1>5. PICK e : e = Edit(Unset, Unset, Unset, {}, versions[1].files)
    OBVIOUS
  <1>6. e \in Edits
    <2>1. versions[1].files \in SUBSET Nat
      BY <1>2, <1>3 DEF TypeOK, IsDirectory, VersionRecords
    <2> QED
      BY <1>5, <2>1 DEF Edit, Edits, Fields
  <1>7. PICK x : x = [edits |-> <<e>>, synced |-> 0]
    OBVIOUS
  <1>8. x \in Manifests
    <2>1. <<e>> \in Seq(Edits)
      BY <1>6
    <2> QED
      BY <1>7, <2>1 DEF Manifests
  <1>9. PICK m \in Nat : m = vset.manifest
    BY <1>2 DEF TypeOK
  <1>10. PICK c \in Nat : c = current
    BY <1>2 DEF TypeOK
  <1>11. /\ IsDirectory(manifests', Manifests) /\ m \in DOMAIN manifests' /\ manifests'[m] = x
         /\ c \in DOMAIN manifests' /\ manifests'[c] = manifests[c]
    <2>1. PICK f : f = manifests /\ IsDirectory(f, Manifests)
      BY <1>2 DEF TypeOK
    <2>2. PICK g : g = Put(f, m, x)
      OBVIOUS
    <2>3. IsDirectory(g, Manifests) /\ Extends(g, f, m, x)
      BY <1>8, <2>1, <2>2, PutFacts
    <2>4. manifests' = g
      BY <1>1, <1>4, <1>5, <1>7, <1>9, <2>1, <2>2
    <2>5. c \in DOMAIN f /\ c # m
      BY <1>3, <1>9, <1>10, <2>1 DEF Inv, DiskSound, Sound
    <2> QED
      BY <2>1, <2>3, <2>4, <2>5 DEF Extends
  <1>12. TypeOK'
    BY <1>1, <1>11 DEF Inv, TypeOK, Opening
  <1>13. Sound(c)' /\ LastEdit(c)' = LastEdit(c)
    <2>1. Sound(c)
      BY <1>3, <1>10 DEF Inv, DiskSound
    <2>2. manifests[c].synced \in Nat
      BY <1>2, <2>1, SoundFacts
    <2>3. \A u : Whole(u) => Whole(u)'
      BY <1>1 DEF Whole
    <2>4. LastEdit(c)' = LastEdit(c)
      BY <1>11 DEF LastEdit
    <2> QED
      BY <1>1, <1>11, <2>1, <2>2, <2>3, <2>4, SoundKeeps
  <1>14. DiskSound' /\ Resting'
    BY <1>1, <1>10, <1>13 DEF Inv, DiskSound, Resting, Early, Up
  <1>15. OpeningSound'
    <2>1. \A u : Whole(u) => Whole(u)'
      BY <1>1 DEF Whole
    <2>2. vset.manifest \in DOMAIN manifests' /\ manifests'[vset.manifest] = x
      BY <1>9, <1>11
    <2>3. manifests'[current].edits # <<>> /\ LastEdit(current)'.next <= vset.manifest
      BY <1>1, <1>3, <1>10, <1>11, <1>13
    <2> QED
      BY <1>1, <1>3, <1>5, <1>7, <2>1, <2>2, <2>3 DEF OpeningSound, Opening, Written
  <1>16. RunningSound'
    BY <1>1 DEF RunningSound, Up
  <1> QED
    BY <1>12, <1>14, <1>15, <1>16 DEF Inv

LEMMA WriteFirstEditKeeps ==
  ASSUME Inv, WriteFirstEdit
  PROVE  Inv'
  <1>1. /\ phase = "edit"
        /\ logs' = logs /\ tables' = tables /\ current' = current /\ temps' = temps
        /\ todo' = todo /\ flush' = flush /\ comp' = comp
        /\ pending' = pending /\ bg_ok' = bg_ok /\ reader' = reader
    BY DEF WriteFirstEdit, background
  <1>2. TypeOK
    BY DEF Inv
  <1>3. /\ edit \in Edits /\ edit.del = {} /\ current # 0 /\ DOMAIN versions = {1} /\ versions[1].refs = 1
        /\ vset.manifest < vset.next_file
        /\ \A u \in versions[1].files : u < vset.manifest /\ Whole(u)
        /\ \A u \in edit.add : u < vset.next_file /\ Whole(u)
        /\ current < vset.manifest /\ manifests[current].edits # <<>>
        /\ LastEdit(current).next <= vset.manifest
        /\ AllSet(edit) /\ edit.next = vset.next_file
        /\ vset.manifest \in DOMAIN manifests
        /\ manifests[vset.manifest] =
             [edits |-> <<Edit(Unset, Unset, Unset, {}, versions[1].files)>>, synced |-> 0]
    BY <1>1 DEF Inv, OpeningSound, Opening
  <1>4. PICK m \in Nat : m = vset.manifest
    BY <1>2 DEF TypeOK
  <1>5. PICK c \in Nat : c = current
    BY <1>2 DEF TypeOK
  <1>6. PICK f : f = manifests /\ IsDirectory(f, Manifests)
    BY <1>2 DEF TypeOK
  <1>7. c # 0 /\ c # m /\ c \in DOMAIN f /\ m \in DOMAIN f /\ Sound(c)
    BY <1>3, <1>4, <1>5, <1>6 DEF Inv, DiskSound, Sound
  <1>8. \A u : Whole(u) => Whole(u)'
    BY <1>1 DEF Whole
  <1>9. manifests[c].synced \in Nat
    BY <1>2, <1>7, SoundFacts
  <1>10. CASE /\ manifests' = [manifests EXCEPT ![vset.manifest] = Appended(@, edit)]
              /\ phase' = "temp" /\ UNCHANGED <<vset, versions, edit, memory, history>>
    <2>1. /\ phase' = "temp" /\ vset' = vset /\ versions' = versions /\ edit' = edit
          /\ mem' = mem /\ imm' = imm /\ logfile' = logfile /\ written' = written
          /\ promised' = promised /\ opened' = opened /\ restarts' = restarts /\ faults' = faults
      BY <1>10 DEF memory, history
    <2>2. PICK files \in SUBSET Nat : files = versions[1].files
      BY <1>2, <1>3 DEF TypeOK, IsDirectory, VersionRecords
    <2>3. PICK s \in Edits : s = Edit(Unset, Unset, Unset, {}, files) /\ s.del = {} /\ s.add = files
      <3>1. /\ Edit(Unset, Unset, Unset, {}, files) \in Edits
            /\ Edit(Unset, Unset, Unset, {}, files).del = {}
            /\ Edit(Unset, Unset, Unset, {}, files).add = files
        BY DEF Edit, Edits, Fields
      <3> QED
        BY <3>1
    <2>4. PICK e \in Edits : e = edit
      BY <1>3
    <2>5. PICK one \in Seq(Edits) : one = <<s>> /\ Len(one) = 1 /\ FilesAt(one, 1) = files
      <3>1. <<s>> \in Seq(Edits) /\ Len(<<s>>) = 1 /\ FilesAt(<<s>>, 1) = files
        BY <2>3, FilesOne
      <3> QED
        BY <3>1
    <2>6. PICK two \in Seq(Edits) : /\ two = Append(one, e) /\ Len(two) = 2 /\ two[2] = e
                                    /\ FilesAt(two, 2) = Applied(files, e)
      <3>1. /\ Append(one, e) \in Seq(Edits)
            /\ Len(Append(one, e)) = Len(one) + 1
            /\ Append(one, e)[Len(one) + 1] = e
            /\ FilesAt(Append(one, e), Len(one) + 1) = Applied(FilesAt(one, Len(one)), e)
        BY FilesAppend
      <3>2. Len(one) = 1 /\ 1 + 1 = 2
        BY <2>5
      <3>3. /\ Append(one, e) \in Seq(Edits) /\ Len(Append(one, e)) = 2
            /\ Append(one, e)[2] = e /\ FilesAt(Append(one, e), 2) = Applied(files, e)
        BY <2>5, <3>1, <3>2
      <3> QED
        BY <3>3
    <2>7. PICK x \in Manifests : x = [edits |-> two, synced |-> 2]
      <3>1. [edits |-> two, synced |-> 2] \in Manifests
        BY DEF Manifests
      <3> QED
        BY <3>1
    <2>8. Appended(manifests[m], edit) = x
      <3>1. manifests[m].edits = one
        BY <1>3, <1>4, <2>2, <2>3, <2>5
      <3> QED
        BY <2>4, <2>5, <2>6, <2>7, <3>1 DEF Appended
    <2>9. /\ IsDirectory(manifests', Manifests) /\ m \in DOMAIN manifests' /\ manifests'[m] = x
          /\ c \in DOMAIN manifests' /\ manifests'[c] = manifests[c]
      <3>1. PICK g : g = [f EXCEPT ![m] = x]
        OBVIOUS
      <3>2. IsDirectory(g, Manifests) /\ Changed(g, f, m, x)
        BY <1>6, <1>7, <3>1, ExceptFacts
      <3>3. manifests' = g
        BY <1>4, <1>6, <1>10, <2>8, <3>1
      <3> QED
        BY <1>6, <1>7, <3>2, <3>3 DEF Changed
    <2>10. TypeOK'
      BY <1>1, <2>1, <2>9 DEF Inv, TypeOK, Opening, Written
    <2>11. Sound(c)' /\ LastEdit(c)' = LastEdit(c)
      <3>1. Sound(c)'
        BY <1>7, <1>8, <1>9, <2>1, <2>9, SoundKeeps
      <3> QED
        BY <2>9, <3>1 DEF LastEdit
    <2>12. DiskSound' /\ Resting'
      BY <1>1, <1>5, <2>1, <2>11 DEF Inv, DiskSound, Resting, Early, Up
    <2>13. Applied(files, e) = files \cup e.add
      BY <1>3, <2>4, AppliedIs
    <2>14. \A u \in files \cup e.add : u < e.next /\ Whole(u)'
      <3>1. m < e.next /\ e.next \in Nat
        BY <1>2, <1>3, <1>4, <2>4 DEF TypeOK
      <3>2. \A u \in files : u < e.next /\ Whole(u)'
        BY <1>3, <1>4, <1>8, <2>2, <3>1
      <3>3. \A u \in e.add : u < e.next /\ Whole(u)'
        BY <1>3, <1>8, <2>4
      <3> QED
        BY <3>2, <3>3
    <2>15. Readable(two, 2, m)'
      <3>1. AllSet(e) /\ m < e.next /\ e.next \in Nat
        BY <1>2, <1>3, <1>4, <2>4 DEF TypeOK
      <3>2. AllSet(two[2]) /\ m < two[2].next /\ two[2].next <= two[Len(two)].next
        BY <2>6, <3>1
      <3>3. \A u \in FilesAt(two, 2) : u < two[2].next /\ Whole(u)'
        BY <2>6, <2>13, <2>14
      <3> QED
        BY <3>2, <3>3 DEF Readable
    <2>16. Sound(m)'
      <3>1. manifests'[m].edits = two /\ manifests'[m].synced = 2
        BY <2>7, <2>9
      <3>2. 2 <= Len(two) /\ \A k \in 2..Len(two) : k = 2
        BY <2>6
      <3> QED
        BY <2>9, <2>15, <3>1, <3>2 DEF Sound
    <2>17. /\ manifests'[m].synced >= 1 /\ manifests'[m].synced = Len(manifests'[m].edits)
           /\ LastEdit(m)'.next = vset.next_file
           /\ LastFiles(m)' = Applied(versions[1].files, edit)
      <3>1. manifests'[m].edits = two /\ manifests'[m].synced = 2
        BY <2>7, <2>9
      <3>2. LastEdit(m)' = e /\ LastFiles(m)' = Applied(files, e)
        BY <2>6, <3>1 DEF LastEdit, LastFiles
      <3> QED
        BY <1>3, <2>2, <2>4, <2>6, <3>1, <3>2
    <2>18. OpeningSound'
      <3>1. manifests'[current].edits # <<>> /\ LastEdit(current)'.next <= vset.manifest
        BY <1>1, <1>3, <1>5, <2>9, <2>11
      <3>2. vset.next_file \in Nat /\ LastEdit(m)'.next <= vset.next_file
        BY <1>2, <2>17 DEF TypeOK
      <3> QED
        BY <1>1, <1>3, <1>4, <1>8, <2>1, <2>16, <2>17, <3>1, <3>2 DEF OpeningSound, Opening, Written
    <2>19. RunningSound'
      BY <2>1 DEF RunningSound, Up
    <2> QED
      BY <2>10, <2>12, <2>18, <2>19 DEF Inv
  <1>11. CASE OpenFails /\ manifests' = Without(manifests, vset.manifest) /\ UNCHANGED imm
    <2>1. /\ phase' = "down" /\ vset' = NoVset /\ versions' = None /\ edit' = None
          /\ mem' = {} /\ imm' = imm /\ logfile' = 0 /\ written' = written
          /\ promised' = promised /\ opened' = opened /\ restarts' = restarts /\ faults' = faults + 1
      BY <1>11 DEF OpenFails, Fails
    <2>2. /\ IsDirectory(manifests', Manifests)
          /\ c \in DOMAIN manifests' /\ manifests'[c] = manifests[c]
      <3>1. PICK g : g = Without(f, m)
        OBVIOUS
      <3>2. IsDirectory(g, Manifests) /\ Kept(g, f, DOMAIN f \ {m})
        BY <1>6, <3>1, WithoutFacts
      <3>3. manifests' = g
        BY <1>4, <1>6, <1>11, <3>1
      <3> QED
        BY <1>6, <1>7, <3>2, <3>3 DEF Kept
    <2>3. Sound(c)'
      BY <1>7, <1>8, <1>9, <2>1, <2>2, SoundKeeps
    <2>4. TypeOK'
      <3>1. IsDirectory(None, VersionRecords)
        BY NoneFacts
      <3>2. vset' \in [next_file: Nat, manifest: Nat, log_number: Nat, last: Nat]
        BY <2>1 DEF NoVset
      <3>3. faults' \in Nat
        BY <1>2, <2>1 DEF TypeOK
      <3> QED
        BY <1>1, <2>1, <2>2, <3>1, <3>2, <3>3 DEF Inv, TypeOK, Early
    <2>5. Resting'
      BY <1>1, <2>1 DEF Inv, Resting, Early, Up
    <2> QED
      BY <1>1, <1>5, <2>1, <2>3, <2>4, <2>5, BackDown DEF Inv
  <1> QED
    BY <1>10, <1>11 DEF WriteFirstEdit

\* A step to a state in which the database is open.
LEMMA UpKeeps ==
  ASSUME TypeOK', DiskSound', phase' \in Up, RunningSound'
  PROVE  Inv'
  <1>1. Resting'
    BY DEF Resting, Early, Up
  <1>2. OpeningSound'
    BY DEF OpeningSound, Opening, Written, Up
  <1> QED
    BY <1>1, <1>2 DEF Inv

\* If all of a manifest is synced only its last version can be needed.
LEMMA SyncedNeeds ==
  ASSUME NEW n, manifests[n].synced = Len(manifests[n].edits), manifests[n].synced \in Nat
  PROVE  Needed(n) = LastFiles(n)
  <1>1. PICK k \in Nat : k = Len(manifests[n].edits) /\ k = manifests[n].synced
    OBVIOUS
  <1>2. k..k = {k}
    OBVIOUS
  <1> QED
    BY <1>1, <1>2 DEF Needed, LastFiles

LEMMA InstallFirstKeeps ==
  ASSUME Inv, InstallFirst
  PROVE  Inv'
  <1>1. /\ phase = "install" /\ phase' = "up" /\ opened' = TRUE /\ edit' = None
        /\ versions' = AppendVersion(versions, Applied(CurrentFiles, edit))
        /\ vset' = [vset EXCEPT !.log_number = edit.log]
        /\ tables' = Restrict1(tables, Live(versions', pending))
        /\ logs' = KeptLogs(logs, edit.log)
        /\ manifests' = Restrict1(manifests, {n \in DOMAIN manifests : n >= vset.manifest})
        /\ temps' = temps \cap Live(versions', pending)
        /\ current' = current /\ mem' = mem /\ imm' = imm /\ logfile' = logfile
        /\ todo' = todo /\ flush' = flush /\ comp' = comp
        /\ pending' = pending /\ bg_ok' = bg_ok /\ reader' = reader /\ written' = written
        /\ promised' = promised /\ restarts' = restarts /\ faults' = faults
    BY DEF InstallFirst, DeleteObsoleteFiles, memory, background
  <1>2. TypeOK
    BY DEF Inv
  <1>3. /\ edit \in Edits /\ edit.del = {} /\ current # 0 /\ DOMAIN versions = {1} /\ versions[1].refs = 1
        /\ vset.manifest < vset.next_file
        /\ \A u \in versions[1].files : u < vset.manifest /\ Whole(u)
        /\ \A u \in edit.add : u < vset.next_file /\ Whole(u)
        /\ AllSet(edit) /\ edit.next = vset.next_file
        /\ Sound(vset.manifest) /\ manifests[vset.manifest].synced >= 1
        /\ manifests[vset.manifest].synced = Len(manifests[vset.manifest].edits)
        /\ LastEdit(vset.manifest).next <= vset.next_file
        /\ LastFiles(vset.manifest) = Applied(versions[1].files, edit)
        /\ current = vset.manifest
    BY <1>1 DEF Inv, OpeningSound, Opening, Written
  <1>4. /\ flush = None /\ comp = None /\ pending = {} /\ bg_ok /\ reader = 0
    BY <1>1 DEF Inv, Resting, Up
  <1>5. PICK m \in Nat : m = vset.manifest /\ m = current
    BY <1>2, <1>3 DEF TypeOK
  <1>6. PICK next \in Nat : next = vset.next_file
    BY <1>2 DEF TypeOK
  <1>7. PICK vs : vs = versions /\ IsDirectory(vs, VersionRecords) /\ DOMAIN vs = {1}
                  /\ vs[1].refs = 1 /\ vs[1].files \in SUBSET Nat
    <2>1. IsDirectory(versions, VersionRecords)
      BY <1>2 DEF TypeOK
    <2> QED
      BY <1>3, <2>1 DEF IsDirectory, VersionRecords
  <1>8. PICK files \in SUBSET Nat : /\ files = Applied(vs[1].files, edit)
                                    /\ \A u \in files : u < next /\ Whole(u)
    <2>1. Applied(vs[1].files, edit) = vs[1].files \cup edit.add
      BY <1>3, <1>7, AppliedIs
    <2>2. edit.add \in SUBSET Nat
      BY <1>3 DEF Edits
    <2>3. \A u \in vs[1].files : u < next /\ Whole(u)
      BY <1>3, <1>5, <1>6, <1>7
    <2>4. \A u \in edit.add : u < next /\ Whole(u)
      BY <1>3, <1>6
    <2> QED
      BY <1>7, <2>1, <2>2, <2>3, <2>4
  <1>9. CurrentFiles = vs[1].files
    <2>1. CurrentVersion(vs) = 1
      BY <1>7, CurrentIs
    <2> QED
      BY <1>7, <2>1 DEF CurrentFiles
  <1>10. PICK w : /\ w = versions' /\ IsDirectory(w, VersionRecords) /\ DOMAIN w = {2}
                  /\ w[2].files = files /\ w[2].refs = 1 /\ CurrentVersion(w) = 2
    <2>1. PICK w : w = AppendVersion(vs, files)
      OBVIOUS
    <2>2. PICK c \in DOMAIN vs : /\ c = 1 /\ vs[c].refs = 1 /\ vs[c].refs >= 1
                                 /\ \A v \in DOMAIN vs : v <= c
      BY <1>7
    <2>3. /\ IsDirectory(w, VersionRecords)
          /\ DOMAIN w = (IF vs[c].refs = 1 THEN DOMAIN vs \ {c} ELSE DOMAIN vs) \cup {c + 1}
          /\ w[c + 1] = [files |-> files, refs |-> 1]
          /\ CurrentVersion(w) = c + 1
      <3>1. IsDirectory(vs, VersionRecords)
        BY <1>7
      <3>2. vs[c].refs >= 1 /\ \A v \in DOMAIN vs : v <= c
        BY <2>2
      <3> QED
        <4>1. Follows(w, vs, c, files)
          BY <2>1, <3>1, <3>2, NextVersion
        <4> QED
          BY <4>1 DEF Follows
    <2>4. c + 1 = 2 /\ DOMAIN vs \ {c} = {}
      BY <1>7, <2>2
    <2>5. w = versions'
      BY <1>1, <1>7, <1>8, <1>9, <2>1
    <2>6. w[2] = [files |-> files, refs |-> 1]
      BY <2>3, <2>4
    <2> QED
      BY <2>2, <2>3, <2>4, <2>5, <2>6
  <1>11. Live(versions', pending) = files
    BY <1>4, <1>10 DEF Live, AddLiveFiles
  <1>12. IsDirectory(tables', TableFiles) /\ \A u \in files : Whole(u)'
    <2>1. PICK f : f = tables /\ IsDirectory(f, TableFiles)
      BY <1>2 DEF TypeOK
    <2>2. PICK g : g = Restrict1(f, files)
      OBVIOUS
    <2>3. IsDirectory(g, TableFiles) /\ Kept(g, f, DOMAIN f \cap files)
      BY <2>1, <2>2, RestrictFacts
    <2>4. tables' = g
      BY <1>1, <1>11, <2>1, <2>2
    <2> QED
      BY <1>8, <2>1, <2>3, <2>4 DEF Whole, Kept
  <1>13. /\ IsDirectory(manifests', Manifests) /\ m \in DOMAIN manifests'
         /\ manifests'[m] = manifests[m]
    <2>1. PICK f : f = manifests /\ IsDirectory(f, Manifests)
      BY <1>2 DEF TypeOK
    <2>2. PICK T : T = {n \in DOMAIN f : n >= m}
      OBVIOUS
    <2>3. PICK g : g = Restrict1(f, T)
      OBVIOUS
    <2>4. IsDirectory(g, Manifests) /\ Kept(g, f, DOMAIN f \cap T)
      BY <2>1, <2>3, RestrictFacts
    <2>5. manifests' = g
      BY <1>1, <1>5, <2>1, <2>2, <2>3
    <2>6. m \in DOMAIN f \cap T
      BY <1>3, <1>5, <2>1, <2>2 DEF Sound
    <2> QED
      BY <2>1, <2>4, <2>5, <2>6 DEF Kept
  <1>14. IsDirectory(logs', LogFiles)
    <2>1. PICK f : f = logs /\ IsDirectory(f, LogFiles)
      BY <1>2 DEF TypeOK
    <2>2. PICK T : T = {n \in DOMAIN f : n >= edit.log}
      OBVIOUS
    <2>3. IsDirectory(Restrict1(f, T), LogFiles)
      BY <2>1, RestrictFacts
    <2> QED
      BY <1>1, <2>1, <2>2, <2>3 DEF KeptLogs
  <1>15. /\ vset' \in [next_file: Nat, manifest: Nat, log_number: Nat, last: Nat]
         /\ vset'.next_file = next /\ vset'.manifest = m
    <2>1. edit.log \in Nat
      BY <1>3 DEF Edits, Fields, AllSet
    <2> QED
      BY <1>1, <1>2, <1>5, <1>6, <2>1 DEF TypeOK
  <1>16. TypeOK'
    <2>1. temps' \in SUBSET Nat
      BY <1>1, <1>2 DEF TypeOK
    <2> QED
      BY <1>1, <1>10, <1>12, <1>13, <1>14, <1>15, <2>1 DEF Inv, TypeOK, Up
  <1>17. Sound(m)'
    <2>1. Sound(m) /\ manifests[m].synced >= 1 /\ manifests[m].synced = Len(manifests[m].edits)
      BY <1>3, <1>5
    <2>2. manifests[m].synced \in Nat
      BY <1>2, <2>1, SoundFacts
    <2>3. Needed(m) = files
      <3>1. Needed(m) = LastFiles(m)
        BY <2>1, <2>2, SyncedNeeds
      <3> QED
        BY <1>3, <1>5, <1>7, <1>8, <3>1
    <2> QED
      BY <1>12, <1>13, <2>1, <2>2, <2>3, SoundKeeps
  <1>18. DiskSound'
    BY <1>1, <1>3, <1>5, <1>17 DEF DiskSound
  <1>19. LastEdit(m)' = LastEdit(m) /\ LastFiles(m)' = files
    <2>1. LastEdit(m)' = LastEdit(m) /\ LastFiles(m)' = LastFiles(m)
      BY <1>13 DEF LastEdit, LastFiles
    <2> QED
      BY <1>3, <1>5, <1>7, <1>8, <2>1
  <1>20. VersionsHeld'
    <2>1. 2 \in DOMAIN versions' /\ \A v \in DOMAIN versions' : v <= 2
      BY <1>10
    <2>2. \A v \in DOMAIN versions' : \A u \in versions'[v].files : u < vset'.next_file /\ Whole(u)'
      BY <1>8, <1>10, <1>12, <1>15
    <2> QED
      BY <1>1, <1>4, <1>10, <2>1, <2>2 DEF VersionsHeld
  <1>21. OutputsHeld'
    BY <1>1, <1>4 DEF OutputsHeld
  <1>22. ManifestFollows'
    <2>1. CurrentFiles' = files
      BY <1>10 DEF CurrentFiles
    <2> QED
      BY <1>1, <1>5, <1>19, <2>1 DEF ManifestFollows
  <1>23. ReferencesExact'
    BY <1>1, <1>4, <1>10 DEF ReferencesExact
  <1>24. RunningSound'
    BY <1>1, <1>3, <1>5, <1>6, <1>15, <1>19, <1>20, <1>21, <1>22, <1>23 DEF RunningSound
  <1> QED
    BY <1>1, <1>16, <1>18, <1>24, UpKeeps DEF Up

-----------------------------------------------------------------------------
(***************************************************************************)
(* The open database: writes, iterators, closing.                          *)
(***************************************************************************)

\* Steps that leave tables, manifests and versions alone, and number files
\* upwards.
LEMMA QuietKeeps ==
  ASSUME Inv, phase \in Up, phase' \in Up, phase' = "closing" => reader = 0, TypeOK',
         tables' = tables, manifests' = manifests, current' = current, versions' = versions,
         edit' = edit, flush' = flush, comp' = comp, pending' = pending, bg_ok' = bg_ok,
         reader' = reader, opened' = opened,
         vset'.manifest = vset.manifest, vset'.next_file >= vset.next_file
  PROVE  Inv'
  <1>1. TypeOK
    BY DEF Inv
  <1>2. PICK c : c = current
    OBVIOUS
  <1>3. /\ \A t : Whole(t)' = Whole(t)
        /\ Sound(c) => Sound(c)'
        /\ LastEdit(c)' = LastEdit(c) /\ LastFiles(c)' = LastFiles(c)
        /\ CurrentFiles' = CurrentFiles
    <2>1. Sound(c) => Sound(c)'
      BY SameDisk
    <2> QED
      BY <2>1 DEF Whole, LastEdit, LastFiles, CurrentFiles
  <1>4. DiskSound'
    BY <1>2, <1>3 DEF Inv, DiskSound, Up
  <1>5. /\ opened /\ current = vset.manifest /\ LastEdit(c).next <= vset.next_file
        /\ VersionsHeld /\ OutputsHeld /\ ManifestFollows /\ ReferencesExact
    BY <1>2 DEF Inv, RunningSound
  <1>6. PICK n \in Nat : n = vset.next_file
    BY <1>1 DEF TypeOK
  <1>7. PICK m \in Nat : m = vset'.next_file /\ m >= n
    BY <1>6 DEF TypeOK
  <1>8. LastEdit(c)'.next <= m
    <2>1. Sound(c)
      BY <1>2, <1>5 DEF Inv, DiskSound
    <2>2. LastEdit(c).next \in Nat
      BY <1>1, <1>5, <2>1, SoundFacts
    <2> QED
      BY <1>3, <1>5, <1>6, <1>7, <2>2
  <1>9. \A t \in Nat : t < n => t < m
    BY <1>7
  <1>10. VersionsHeld'
    <2>1. \A v \in DOMAIN versions : versions[v].files \in SUBSET Nat
      BY <1>1 DEF TypeOK, IsDirectory, VersionRecords
    <2>2. \A v \in DOMAIN versions : \A t \in versions[v].files : t < m /\ Whole(t)'
      BY <1>3, <1>5, <1>6, <1>9, <2>1 DEF VersionsHeld
    <2> QED
      BY <1>5, <1>7, <2>2 DEF VersionsHeld
  <1>11. OutputsHeld'
    <2>1. comp # None => comp.outs \in SUBSET Nat
      BY <1>1 DEF TypeOK
    <2>2. comp # None => \A t \in comp.outs : t < m
      BY <1>5, <1>6, <1>9, <2>1 DEF OutputsHeld
    <2>3. flush # None => flush.number \in Nat
      BY <1>1 DEF TypeOK
    <2>4. flush # None /\ edit = None => flush.number < m
      BY <1>5, <1>6, <1>9, <2>3 DEF OutputsHeld
    <2>5. edit # None => edit.next <= m
      <3>1. SUFFICES ASSUME edit # None PROVE edit.next <= m
        OBVIOUS
      <3>2. edit.next \in Nat /\ edit.next <= n
        BY <1>1, <1>5, <1>6, <3>1 DEF TypeOK, OutputsHeld, AllSet, Edits, Fields
      <3> QED
        BY <1>7, <3>2
    <2> QED
      BY <1>2, <1>3, <1>5, <1>7, <2>2, <2>4, <2>5 DEF OutputsHeld
  <1>12. ManifestFollows'
    BY <1>2, <1>3, <1>5 DEF ManifestFollows
  <1>13. ReferencesExact'
    BY <1>5 DEF ReferencesExact, Running, Up
  <1>14. RunningSound'
    BY <1>2, <1>5, <1>7, <1>8, <1>10, <1>11, <1>12, <1>13 DEF RunningSound
  <1> QED
    BY <1>4, <1>14, UpKeeps

LEMMA WriteKeeps ==
  ASSUME Inv, NEW sync \in BOOLEAN, Write(sync)
  PROVE  Inv'
  <1>1. TypeOK
    BY DEF Inv
  <1>2. PICK n \in Nat : n = logfile
    BY <1>1 DEF TypeOK
  <1>3. PICK last \in Nat : last = vset.last + 1
    BY <1>1 DEF TypeOK
  <1>4. PICK id \in Nat : id = written + 1
    BY <1>1 DEF TypeOK
  <1>5. PICK w : w = <<last, id>>
    OBVIOUS
  <1>6. w \in Writes
    BY <1>5 DEF Writes
  <1>7. PICK f : f = logs /\ IsDirectory(f, LogFiles)
    BY <1>1 DEF TypeOK
  <1>8. PICK x : /\ x = [recs |-> Append(f[n].recs, w),
                         synced |-> IF sync THEN Len(Append(f[n].recs, w)) ELSE f[n].synced]
                 /\ n \in DOMAIN f => x \in LogFiles
    <2>1. SUFFICES ASSUME n \in DOMAIN f
                   PROVE [recs |-> Append(f[n].recs, w),
                          synced |-> IF sync THEN Len(Append(f[n].recs, w)) ELSE f[n].synced] \in LogFiles
      OBVIOUS
    <2>2. PICK l : l = f[n] /\ l \in LogFiles
      BY <1>7, <2>1 DEF IsDirectory
    <2>3. PICK old \in Seq(Writes) : old = l.recs
      BY <2>2 DEF LogFiles
    <2>4. Append(old, w) \in Seq(Writes)
      BY <1>6
    <2>5. Len(Append(old, w)) \in Nat /\ l.synced \in Nat
      BY <2>2, <2>4 DEF LogFiles
    <2> QED
      BY <2>2, <2>3, <2>4, <2>5 DEF LogFiles
  <1>9. /\ phase = "up" /\ phase' = phase
        /\ logs' = [f EXCEPT ![n] = x]
        /\ mem' = mem \cup {w} /\ vset' = [vset EXCEPT !.last = last]
        /\ written' = id /\ promised' = IF sync THEN promised \cup {w} ELSE promised
        /\ tables' = tables /\ manifests' = manifests /\ current' = current /\ temps' = temps
        /\ versions' = versions /\ imm' = imm /\ logfile' = logfile
        /\ todo' = todo /\ edit' = edit /\ flush' = flush /\ comp' = comp
        /\ pending' = pending /\ bg_ok' = bg_ok /\ reader' = reader
        /\ opened' = opened /\ restarts' = restarts /\ faults' = faults
    BY <1>2, <1>3, <1>4, <1>5, <1>7, <1>8 DEF Write, background
  <1>10. IsDirectory(logs', LogFiles)
    <2>1. CASE n \in DOMAIN f
      BY <1>7, <1>8, <1>9, <2>1, ExceptFacts
    <2>2. CASE n \notin DOMAIN f
      BY <1>7, <1>9, <2>2 DEF IsDirectory
    <2> QED
      BY <2>1, <2>2
  <1>11. /\ vset' \in [next_file: Nat, manifest: Nat, log_number: Nat, last: Nat]
         /\ vset'.manifest = vset.manifest /\ vset'.next_file = vset.next_file
         /\ vset.next_file \in Nat
    BY <1>1, <1>9 DEF TypeOK
  <1>12. mem' \in SUBSET Writes /\ promised' \in SUBSET Writes
    BY <1>1, <1>6, <1>9 DEF TypeOK
  <1>13. TypeOK'
    BY <1>1, <1>9, <1>10, <1>11, <1>12 DEF TypeOK
  <1> QED
    BY <1>9, <1>11, <1>13, QuietKeeps DEF Up

LEMMA SwitchMemTableKeeps ==
  ASSUME Inv, SwitchMemTable
  PROVE  Inv'
  <1>1. TypeOK
    BY DEF Inv
  <1>2. PICK t \in Nat : t = vset.next_file
    BY <1>1 DEF TypeOK
  <1>3. PICK x : x = [recs |-> <<>>, synced |-> 0]
    OBVIOUS
  <1>4. x \in LogFiles
    BY <1>3 DEF LogFiles
  <1>5. /\ phase = "up" /\ phase' = phase
        /\ logs' = Put(logs, t, x) /\ logfile' = t /\ imm' = {mem} /\ mem' = {}
        /\ vset' = [vset EXCEPT !.next_file = t + 1]
        /\ tables' = tables /\ manifests' = manifests /\ current' = current /\ temps' = temps
        /\ versions' = versions
        /\ todo' = todo /\ edit' = edit /\ flush' = flush /\ comp' = comp
        /\ pending' = pending /\ bg_ok' = bg_ok /\ reader' = reader /\ written' = written
        /\ promised' = promised /\ opened' = opened /\ restarts' = restarts /\ faults' = faults
    BY <1>2, <1>3 DEF SwitchMemTable, background, history
  <1>6. IsDirectory(logs', LogFiles)
    <2>1. PICK f : f = logs /\ IsDirectory(f, LogFiles)
      BY <1>1 DEF TypeOK
    <2>2. IsDirectory(Put(f, t, x), LogFiles)
      BY <1>4, <2>1, PutFacts
    <2> QED
      BY <1>5, <2>1, <2>2
  <1>7. /\ vset' \in [next_file: Nat, manifest: Nat, log_number: Nat, last: Nat]
        /\ vset'.manifest = vset.manifest /\ vset'.next_file >= vset.next_file
    BY <1>1, <1>2, <1>5 DEF TypeOK
  <1>8. TypeOK'
    BY <1>1, <1>5, <1>6, <1>7 DEF TypeOK
  <1> QED
    BY <1>5, <1>7, <1>8, QuietKeeps DEF Up

LEMMA CloseKeeps ==
  ASSUME Inv, Close
  PROVE  Inv'
  <1>1. TypeOK
    BY DEF Inv
  <1>2. /\ phase = "up" /\ phase' = "closing" /\ reader = 0 /\ restarts' = restarts + 1
        /\ logs' = logs /\ tables' = tables /\ manifests' = manifests /\ current' = current
        /\ temps' = temps /\ vset' = vset /\ versions' = versions /\ mem' = mem /\ imm' = imm
        /\ logfile' = logfile /\ todo' = todo /\ edit' = edit /\ flush' = flush /\ comp' = comp
        /\ pending' = pending /\ bg_ok' = bg_ok /\ reader' = reader /\ written' = written
        /\ promised' = promised /\ opened' = opened /\ faults' = faults
    BY DEF Close, disk, memory, background
  <1>3. TypeOK'
    BY <1>1, <1>2 DEF TypeOK, Up
  <1>4. vset'.manifest = vset.manifest /\ vset'.next_file >= vset.next_file
    BY <1>1, <1>2 DEF TypeOK
  <1> QED
    BY <1>2, <1>3, <1>4, QuietKeeps DEF Up

LEMMA CloseDoneKeeps ==
  ASSUME Inv, CloseDone
  PROVE  Inv'
  <1>1. /\ phase' = "down" /\ vset' = NoVset /\ versions' = None
        /\ mem' = {} /\ imm' = {} /\ logfile' = 0 /\ todo' = {} /\ edit' = None
        /\ flush' = None /\ comp' = None /\ pending' = {} /\ bg_ok' = TRUE /\ reader' = 0
        /\ logs' = logs /\ tables' = tables /\ manifests' = manifests /\ current' = current
        /\ temps' = temps /\ written' = written
        /\ promised' = promised /\ opened' = opened /\ restarts' = restarts /\ faults' = faults
    BY DEF CloseDone, Forget, disk, history
  <1>2. PICK n : n = current
    OBVIOUS
  <1>3. n # 0 => Sound(n)'
    <2>1. Sound(n) => Sound(n)'
      BY <1>1, SameDisk
    <2> QED
      BY <1>2, <2>1 DEF Inv, DiskSound
  <1>4. TypeOK'
    <2>1. IsDirectory(None, VersionRecords)
      BY NoneFacts
    <2>2. vset' \in [next_file: Nat, manifest: Nat, log_number: Nat, last: Nat]
      BY <1>1 DEF NoVset
    <2> QED
      BY <1>1, <2>1, <2>2 DEF Inv, TypeOK, Early
  <1>5. Resting'
    BY <1>1 DEF Resting, Early, Up
  <1> QED
    BY <1>1, <1>2, <1>3, <1>4, <1>5, BackDown DEF Inv

\* What becomes of the current version when a reference is taken...
LEMMA TakenCurrent ==
  ASSUME NEW vs, IsDirectory(vs, VersionRecords), NEW c \in DOMAIN vs,
         \A v \in DOMAIN vs : v <= c, NEW v \in DOMAIN vs, NEW w, Taken(w, vs, v)
  PROVE  /\ c \in DOMAIN w /\ CurrentVersion(vs) = c /\ CurrentVersion(w) = c
         /\ w[c].files = vs[c].files
  <1>1. CurrentVersion(vs) = c
    BY CurrentIs
  <1>2. DOMAIN w = DOMAIN vs /\ w[c].files = vs[c].files
    BY DEF Taken
  <1>3. CurrentVersion(w) = CurrentVersion(vs)
    BY <1>2 DEF CurrentVersion
  <1> QED
    BY <1>1, <1>2, <1>3

\* ... or dropped by one of its users.
LEMMA DroppedCurrent ==
  ASSUME NEW vs, IsDirectory(vs, VersionRecords), NEW c \in DOMAIN vs,
         \A v \in DOMAIN vs : v <= c, NEW v \in DOMAIN vs,
         v = c => vs[v].refs >= 2, NEW w, Dropped(w, vs, v)
  PROVE  /\ c \in DOMAIN w /\ CurrentVersion(vs) = c /\ CurrentVersion(w) = c
         /\ w[c].files = vs[c].files /\ DOMAIN w \subseteq DOMAIN vs
         /\ \A u \in DOMAIN w : u <= c
  <1>1. CurrentVersion(vs) = c
    BY CurrentIs
  <1>2. IsDirectory(w, VersionRecords) /\ DOMAIN w \subseteq DOMAIN vs
    BY DEF Dropped
  <1>3. c \in DOMAIN w
    <2>1. CASE vs[v].refs = 1
      <3>1. vs[v].refs \in Nat
        BY DEF IsDirectory, VersionRecords
      <3>2. v # c
        BY <2>1, <3>1
      <3> QED
        BY <2>1, <3>2 DEF Dropped
    <2>2. CASE vs[v].refs # 1
      BY <2>2 DEF Dropped
    <2> QED
      BY <2>1, <2>2
  <1>4. \A u \in DOMAIN w : u <= c
    BY <1>2
  <1>5. CurrentVersion(w) = c
    BY <1>2, <1>3, <1>4, CurrentIs
  <1>6. w[c].files = vs[c].files
    BY <1>3 DEF Dropped
  <1> QED
    BY <1>1, <1>2, <1>3, <1>4, <1>5, <1>6

LEMMA NewIteratorKeeps ==
  ASSUME Inv, NewIterator
  PROVE  Inv'
  <1>1. /\ phase = "up" /\ phase' = phase /\ reader = 0
        /\ reader' = CurrentVersion(versions) /\ versions' = Ref(versions, CurrentVersion(versions))
        /\ logs' = logs /\ tables' = tables /\ manifests' = manifests /\ current' = current
        /\ temps' = temps /\ vset' = vset /\ mem' = mem /\ imm' = imm
        /\ logfile' = logfile /\ todo' = todo /\ edit' = edit /\ flush' = flush /\ comp' = comp
        /\ pending' = pending /\ bg_ok' = bg_ok /\ written' = written
        /\ promised' = promised /\ opened' = opened /\ restarts' = restarts /\ faults' = faults
    BY DEF NewIterator, disk, memory, background, history
  <1>2. TypeOK
    BY DEF Inv
  <1>3. PICK n : n = current
    OBVIOUS
  <1>4. /\ opened /\ current = vset.manifest /\ LastEdit(n).next <= vset.next_file
        /\ VersionsHeld /\ OutputsHeld /\ ManifestFollows /\ ReferencesExact
    BY <1>1, <1>3 DEF Inv, RunningSound, Up
  <1>5. PICK vs : vs = versions /\ IsDirectory(vs, VersionRecords)
    BY <1>2 DEF TypeOK
  <1>6. PICK c \in DOMAIN vs : \A v \in DOMAIN vs : v <= c
    BY <1>4, <1>5 DEF VersionsHeld
  <1>7. c \in Nat /\ c # 0
    BY <1>4, <1>5, <1>6 DEF VersionsHeld, IsDirectory
  <1>8. CurrentVersion(vs) = c
    BY <1>5, <1>6, CurrentIs
  <1>9. PICK w : w = versions' /\ Taken(w, vs, c)
    BY <1>1, <1>5, <1>8, RefFacts
  <1>10. CurrentVersion(w) = c /\ w[c].files = vs[c].files
    BY <1>5, <1>6, <1>9, TakenCurrent
  <1>11. /\ \A t : Whole(t)' = Whole(t)
         /\ Sound(n) => Sound(n)'
         /\ LastEdit(n)' = LastEdit(n) /\ LastFiles(n)' = LastFiles(n)
         /\ CurrentFiles' = CurrentFiles
    <2>1. Sound(n) => Sound(n)'
      BY <1>1, SameDisk
    <2>2. CurrentFiles' = CurrentFiles
      BY <1>5, <1>8, <1>9, <1>10 DEF CurrentFiles
    <2> QED
      BY <1>1, <2>1, <2>2 DEF Whole, LastEdit, LastFiles
  <1>12. DiskSound'
    BY <1>1, <1>3, <1>11 DEF Inv, DiskSound
  <1>13. TypeOK'
    BY <1>1, <1>2, <1>7, <1>8, <1>9, <1>5 DEF TypeOK, Taken
  <1>14. DOMAIN versions' = DOMAIN versions /\ \A v \in DOMAIN versions : versions'[v].files = versions[v].files
    BY <1>5, <1>9 DEF Taken
  <1>15. VersionsHeld'
    BY <1>1, <1>4, <1>5, <1>6, <1>8, <1>11, <1>14 DEF VersionsHeld
  <1>16. OutputsHeld'
    BY <1>1, <1>3, <1>4, <1>11, <1>14 DEF OutputsHeld
  <1>17. ManifestFollows'
    BY <1>1, <1>3, <1>4, <1>11 DEF ManifestFollows
  <1>18. ReferencesExact'
    <2>1. ASSUME NEW v \in DOMAIN w
          PROVE  w[v].refs = (IF v = c THEN 1 ELSE 0) + (IF v = c THEN 1 ELSE 0)
                             + (IF comp # None /\ v = comp.v THEN 1 ELSE 0)
                             + (IF flush # None /\ edit = None /\ v = flush.base THEN 1 ELSE 0)
      <3>1. v \in DOMAIN vs /\ v \in Nat
        BY <1>5, <1>9 DEF Taken, IsDirectory
      <3>2. vs[v].refs = (IF v = c THEN 1 ELSE 0) + (IF v = 0 THEN 1 ELSE 0)
                         + (IF comp # None /\ v = comp.v THEN 1 ELSE 0)
                         + (IF flush # None /\ edit = None /\ v = flush.base THEN 1 ELSE 0)
        BY <1>1, <1>4, <1>5, <1>8, <3>1 DEF ReferencesExact, Running
      <3>3. v # 0
        BY <1>4, <1>5, <3>1 DEF VersionsHeld
      <3>4. w[v].refs = IF v = c THEN vs[v].refs + 1 ELSE vs[v].refs
        BY <1>9 DEF Taken
      <3> QED
        BY <3>2, <3>3, <3>4
    <2> QED
      BY <1>1, <1>5, <1>8, <1>9, <1>10, <2>1 DEF ReferencesExact
  <1>19. RunningSound'
    BY <1>1, <1>3, <1>4, <1>11, <1>15, <1>16, <1>17, <1>18 DEF RunningSound
  <1> QED
    BY <1>1, <1>12, <1>13, <1>19, UpKeeps DEF Up

LEMMA CleanupIteratorStateKeeps ==
  ASSUME Inv, CleanupIteratorState
  PROVE  Inv'
  <1>1. /\ phase' = phase /\ reader # 0
        /\ reader' = 0 /\ versions' = Unref(versions, reader)
        /\ logs' = logs /\ tables' = tables /\ manifests' = manifests /\ current' = current
        /\ temps' = temps /\ vset' = vset /\ mem' = mem /\ imm' = imm
        /\ logfile' = logfile /\ todo' = todo /\ edit' = edit /\ flush' = flush /\ comp' = comp
        /\ pending' = pending /\ bg_ok' = bg_ok /\ written' = written
        /\ promised' = promised /\ opened' = opened /\ restarts' = restarts /\ faults' = faults
    BY DEF CleanupIteratorState, disk, memory, background, history
  <1>2. TypeOK
    BY DEF Inv
  <1>3. PICK n : n = current
    OBVIOUS
  <1>4. phase \in Up
    BY <1>1 DEF Inv, Resting
  <1>5. /\ opened /\ current = vset.manifest /\ LastEdit(n).next <= vset.next_file
        /\ VersionsHeld /\ OutputsHeld /\ ManifestFollows /\ ReferencesExact
    BY <1>3, <1>4 DEF Inv, RunningSound
  <1>6. PICK vs : vs = versions /\ IsDirectory(vs, VersionRecords)
    BY <1>2 DEF TypeOK
  <1>7. PICK c \in DOMAIN vs : \A v \in DOMAIN vs : v <= c
    BY <1>5, <1>6 DEF VersionsHeld
  <1>8. PICK r \in DOMAIN vs : r = reader
    BY <1>1, <1>5, <1>6 DEF VersionsHeld
  <1>9. CurrentVersion(vs) = c
    BY <1>6, <1>7, CurrentIs
  <1>10. ASSUME NEW v \in DOMAIN vs
         PROVE  vs[v].refs = (IF v = c THEN 1 ELSE 0) + (IF v = r THEN 1 ELSE 0)
                         + (IF comp # None /\ v = comp.v THEN 1 ELSE 0)
                         + (IF flush # None /\ edit = None /\ v = flush.base THEN 1 ELSE 0)
    BY <1>4, <1>5, <1>6, <1>8, <1>9 DEF ReferencesExact, Running, Up
  <1>11. vs[r].refs >= 1 /\ (r = c => vs[r].refs >= 2)
    BY <1>10
  <1>12. PICK w : w = versions' /\ Dropped(w, vs, r)
    <2>1. vs[r].refs >= 1
      BY <1>11
    <2> QED
      BY <1>1, <1>6, <1>8, <2>1, UnrefFacts
  <1>13. /\ c \in DOMAIN w /\ CurrentVersion(w) = c /\ w[c].files = vs[c].files
         /\ DOMAIN w \subseteq DOMAIN vs /\ \A u \in DOMAIN w : u <= c
    <2>1. r = c => vs[r].refs >= 2
      BY <1>11
    <2> QED
      BY <1>6, <1>7, <1>12, <2>1, DroppedCurrent
  <1>14. /\ \A t : Whole(t)' = Whole(t)
         /\ Sound(n) => Sound(n)'
         /\ LastEdit(n)' = LastEdit(n) /\ LastFiles(n)' = LastFiles(n)
         /\ CurrentFiles' = CurrentFiles
    <2>1. Sound(n) => Sound(n)'
      BY <1>1, SameDisk
    <2>2. CurrentFiles' = CurrentFiles
      BY <1>6, <1>9, <1>12, <1>13 DEF CurrentFiles
    <2> QED
      BY <1>1, <2>1, <2>2 DEF Whole, LastEdit, LastFiles
  <1>15. DiskSound'
    BY <1>1, <1>3, <1>14 DEF Inv, DiskSound
  <1>16. TypeOK'
    BY <1>1, <1>2, <1>12 DEF TypeOK, Dropped
  <1>17. \A v \in DOMAIN w : v \in DOMAIN vs /\ w[v].files = vs[v].files
    BY <1>12, <1>13 DEF Dropped
  \* A version with another user stays.
  <1>18. ASSUME NEW v \in DOMAIN vs, v # r \/ vs[v].refs # 1 PROVE v \in DOMAIN w
    BY <1>12, <1>18 DEF Dropped
  <1>19. VersionsHeld'
    <2>1. comp # None => comp.v \in DOMAIN w /\ comp.inputs = w[comp.v].files
      <3>1. comp # None => comp.v \in DOMAIN vs /\ comp.inputs = vs[comp.v].files
        BY <1>5, <1>6 DEF VersionsHeld
      <3>2. comp # None => comp.v # r \/ vs[comp.v].refs # 1
        BY <1>10, <3>1
      <3>3. comp # None => comp.v \in DOMAIN w
        BY <1>18, <3>1, <3>2
      <3> QED
        BY <1>17, <3>1, <3>3
    <2>2. flush # None /\ edit = None => flush.base \in DOMAIN w
      <3>1. flush # None /\ edit = None => flush.base \in DOMAIN vs
        BY <1>5, <1>6 DEF VersionsHeld
      <3>2. flush # None /\ edit = None => flush.base # r \/ vs[flush.base].refs # 1
        BY <1>10, <3>1
      <3> QED
        BY <1>18, <3>1, <3>2
    <2>3. 0 \notin DOMAIN w
      BY <1>5, <1>6, <1>13 DEF VersionsHeld
    <2>4. \A v \in DOMAIN w : \A t \in w[v].files : t < vset.next_file /\ Whole(t)'
      BY <1>5, <1>6, <1>14, <1>17 DEF VersionsHeld
    <2> QED
      BY <1>1, <1>12, <1>13, <2>1, <2>2, <2>3, <2>4 DEF VersionsHeld
  <1>20. OutputsHeld'
    <2>1. flush # None /\ edit = None => \A v \in DOMAIN w : flush.number \notin w[v].files
      BY <1>5, <1>6, <1>17 DEF OutputsHeld
    <2> QED
      BY <1>1, <1>3, <1>5, <1>12, <1>14, <2>1 DEF OutputsHeld
  <1>21. ManifestFollows'
    BY <1>1, <1>3, <1>5, <1>14 DEF ManifestFollows
  <1>22. ReferencesExact'
    <2>1. ASSUME NEW v \in DOMAIN w
          PROVE  w[v].refs = (IF v = c THEN 1 ELSE 0) + (IF v = 0 THEN 1 ELSE 0)
                             + (IF comp # None /\ v = comp.v THEN 1 ELSE 0)
                             + (IF flush # None /\ edit = None /\ v = flush.base THEN 1 ELSE 0)
      <3>1. v \in DOMAIN vs /\ v # 0
        BY <1>5, <1>6, <1>17 DEF VersionsHeld
      <3>2. w[v].refs = IF v = r THEN vs[v].refs - 1 ELSE vs[v].refs
        BY <1>12 DEF Dropped
      <3> QED
        BY <1>10, <3>1, <3>2
    <2> QED
      BY <1>1, <1>12, <1>13, <2>1 DEF ReferencesExact
  <1>23. RunningSound'
    BY <1>1, <1>3, <1>5, <1>14, <1>19, <1>20, <1>21, <1>22 DEF RunningSound
  <1> QED
    BY <1>1, <1>4, <1>15, <1>16, <1>23, UpKeeps

-----------------------------------------------------------------------------
(***************************************************************************)
(* The background thread.                                                  *)
(***************************************************************************)

\* A new table, of the number that is next.
LEMMA NewTable ==
  ASSUME Inv, phase \in Up, NEW n, n = current, NEW t, t = vset.next_file, NEW x \in TableFiles,
         tables' = Put(tables, t, x), manifests' = manifests, opened' = opened
  PROVE  /\ IsDirectory(tables', TableFiles) /\ t \in DOMAIN tables'
         /\ DOMAIN tables \subseteq DOMAIN tables'
         /\ \A u \in Nat : u < t /\ Whole(u) => Whole(u)'
         /\ Sound(n)' /\ LastEdit(n)' = LastEdit(n) /\ LastFiles(n)' = LastFiles(n)
         /\ t \notin Needed(n)
  <1>1. TypeOK
    BY DEF Inv
  <1>2. t \in Nat
    BY <1>1 DEF TypeOK
  <1>3. PICK f : f = tables /\ IsDirectory(f, TableFiles)
    BY <1>1 DEF TypeOK
  <1>4. PICK g : g = Put(f, t, x)
    OBVIOUS
  <1>5. IsDirectory(g, TableFiles) /\ Extends(g, f, t, x)
    BY <1>2, <1>3, <1>4, PutFacts
  <1>6. g = tables'
    BY <1>3, <1>4
  <1>7. \A u : u # t /\ Whole(u) => Whole(u)'
    BY <1>3, <1>5, <1>6 DEF Whole, Extends
  <1>8. /\ IsDirectory(tables', TableFiles) /\ t \in DOMAIN tables'
        /\ DOMAIN tables \subseteq DOMAIN tables'
    BY <1>3, <1>5, <1>6 DEF Extends
  <1>9. Sound(n) /\ opened
    BY DEF Inv, DiskSound, RunningSound
  <1>10. /\ Needed(n) \in SUBSET Nat /\ manifests[n].synced \in Nat
         /\ LastEdit(n).next \in Nat /\ \A u \in Needed(n) : u < LastEdit(n).next
    BY <1>1, <1>9, SoundFacts
  <1>11. LastEdit(n).next <= t
    BY DEF Inv, RunningSound
  <1>12. t \notin Needed(n)
    BY <1>2, <1>10, <1>11
  <1>13. n \in DOMAIN manifests
    BY <1>9 DEF Sound
  <1>14. Sound(n)'
    BY <1>7, <1>9, <1>10, <1>12, <1>13, SoundKeeps
  <1>15. \A u \in Nat : u < t /\ Whole(u) => Whole(u)'
    BY <1>2, <1>7
  <1>16. LastEdit(n)' = LastEdit(n) /\ LastFiles(n)' = LastFiles(n)
    BY DEF LastEdit, LastFiles
  <1> QED
    BY <1>8, <1>12, <1>14, <1>15, <1>16

LEMMA WriteLevel0TableKeeps ==
  ASSUME Inv, WriteLevel0Table
  PROVE  Inv'
  <1>1. TypeOK
    BY DEF Inv
  <1>2. PICK t \in Nat : t = vset.next_file
    BY <1>1 DEF TypeOK
  <1>3. PICK x \in TableFiles : x = [data |-> {}, whole |-> FALSE, level |-> 0]
    <2>1. [data |-> {}, whole |-> FALSE, level |-> 0] \in TableFiles
      BY DEF TableFiles
    <2> QED
      BY <2>1
  <1>4. PICK vs : vs = versions /\ IsDirectory(vs, VersionRecords)
    BY <1>1 DEF TypeOK
  <1>5. PICK b : b = CurrentVersion(vs)
    OBVIOUS
  <1>6. /\ phase = "up" /\ phase' = phase /\ flush = None /\ edit = None
        /\ flush' = [number |-> t, base |-> b]
        /\ tables' = Put(tables, t, x) /\ pending' = pending \cup {t}
        /\ vset' = [vset EXCEPT !.next_file = t + 1]
        /\ versions' = Ref(vs, b)
        /\ logs' = logs /\ manifests' = manifests /\ current' = current
        /\ temps' = temps /\ mem' = mem /\ imm' = imm
        /\ logfile' = logfile /\ todo' = todo /\ edit' = edit /\ comp' = comp
        /\ bg_ok' = bg_ok /\ reader' = reader /\ written' = written
        /\ promised' = promised /\ opened' = opened /\ restarts' = restarts /\ faults' = faults
    BY <1>2, <1>3, <1>4, <1>5 DEF WriteLevel0Table, memory, history
  <1>7. PICK n : n = current
    OBVIOUS
  <1>8. /\ opened /\ current = vset.manifest /\ LastEdit(n).next <= t
        /\ VersionsHeld /\ OutputsHeld /\ ManifestFollows /\ ReferencesExact
    BY <1>2, <1>6, <1>7 DEF Inv, RunningSound, Up
  <1>9. PICK c \in DOMAIN vs : \A v \in DOMAIN vs : v <= c
    BY <1>4, <1>8 DEF VersionsHeld
  <1>10. c \in Nat /\ b = c
    BY <1>4, <1>5, <1>9, CurrentIs DEF IsDirectory
  <1>11. PICK w : w = versions' /\ Taken(w, vs, c)
    BY <1>4, <1>6, <1>10, RefFacts
  <1>12. CurrentVersion(w) = c /\ CurrentVersion(vs) = c /\ w[c].files = vs[c].files
    BY <1>4, <1>9, <1>11, TakenCurrent
  <1>13. /\ IsDirectory(tables', TableFiles) /\ t \in DOMAIN tables'
         /\ DOMAIN tables \subseteq DOMAIN tables'
         /\ \A u \in Nat : u < t /\ Whole(u) => Whole(u)'
         /\ Sound(n)' /\ LastEdit(n)' = LastEdit(n) /\ LastFiles(n)' = LastFiles(n)
         /\ t \notin Needed(n)
    BY <1>2, <1>6, <1>7, NewTable DEF Up
  <1>14. /\ flush' \in [number: Nat, base: Nat] /\ flush'.number = t /\ flush'.base = c
         /\ flush' # None
    <2>1. flush' \in [number: Nat, base: Nat] /\ flush'.number = t /\ flush'.base = c
      BY <1>6, <1>10
    <2> QED
      BY <2>1, FlushNotNone
  <1>15. /\ vset' \in [next_file: Nat, manifest: Nat, log_number: Nat, last: Nat]
         /\ vset'.next_file = t + 1 /\ vset'.manifest = vset.manifest
    BY <1>1, <1>6 DEF TypeOK
  <1>16. TypeOK'
    BY <1>1, <1>6, <1>11, <1>13, <1>14, <1>15 DEF TypeOK, Taken
  <1>17. DiskSound'
    BY <1>6, <1>7, <1>13 DEF Inv, DiskSound
  <1>18. DOMAIN w = DOMAIN vs /\ \A v \in DOMAIN vs : w[v].files = vs[v].files
    BY <1>11 DEF Taken
  <1>19. \A u \in Nat : u < t => u < t + 1 /\ u # t
    OBVIOUS
  <1>20. \A v \in DOMAIN vs : vs[v].files \in SUBSET Nat
    BY <1>4 DEF IsDirectory, VersionRecords
  <1>21. \A v \in DOMAIN w : \A u \in w[v].files : u < t + 1 /\ u # t /\ Whole(u)'
    <2>1. \A v \in DOMAIN vs : \A u \in vs[v].files : u < t /\ Whole(u)
      BY <1>2, <1>4, <1>8 DEF VersionsHeld
    <2> QED
      BY <1>13, <1>18, <1>19, <1>20, <2>1
  <1>22. VersionsHeld'
    <2>1. reader # 0 => reader \in DOMAIN w
      BY <1>4, <1>8, <1>18 DEF VersionsHeld
    <2>2. comp # None => comp.v \in DOMAIN w /\ comp.inputs = w[comp.v].files
      BY <1>4, <1>8, <1>18 DEF VersionsHeld
    <2>3. 0 \notin DOMAIN w /\ c \in DOMAIN w /\ \A v \in DOMAIN w : v <= c
      BY <1>4, <1>8, <1>9, <1>18 DEF VersionsHeld
    <2> QED
      BY <1>6, <1>11, <1>14, <1>15, <1>21, <2>1, <2>2, <2>3 DEF VersionsHeld
  <1>23. OutputsHeld'
    <2>1. ASSUME comp # None
          PROVE  /\ comp.outs \subseteq DOMAIN tables' /\ comp.outs \subseteq pending'
                 /\ \A u \in comp.outs : u < t + 1 /\ u # t
                 /\ ~comp.done
      <3>1. comp.outs \in SUBSET Nat
        BY <1>1, <2>1 DEF TypeOK
      <3>2. /\ comp.outs \subseteq DOMAIN tables /\ comp.outs \subseteq pending
            /\ \A u \in comp.outs : u < t
            /\ ~comp.done
        BY <1>2, <1>6, <1>8, <2>1 DEF OutputsHeld
      <3> QED
        BY <1>6, <1>13, <1>19, <3>1, <3>2
    <2>2. \A k \in manifests'[current'].synced..Len(manifests'[current'].edits) :
            t \notin FilesAt(manifests'[current'].edits, k)
      BY <1>6, <1>7, <1>13 DEF Needed
    <2>3. t < t + 1
      OBVIOUS
    <2> QED
      BY <1>6, <1>11, <1>13, <1>14, <1>15, <1>21, <2>1, <2>2, <2>3 DEF OutputsHeld
  <1>24. ManifestFollows'
    <2>1. CurrentFiles' = CurrentFiles
      BY <1>4, <1>11, <1>12 DEF CurrentFiles
    <2> QED
      BY <1>6, <1>7, <1>8, <1>13, <2>1 DEF ManifestFollows
  <1>25. ReferencesExact'
    <2>1. ASSUME NEW v \in DOMAIN w
          PROVE  w[v].refs = (IF v = c THEN 1 ELSE 0) + (IF v = reader THEN 1 ELSE 0)
                             + (IF comp # None /\ v = comp.v THEN 1 ELSE 0)
                             + (IF v = c THEN 1 ELSE 0)
      <3>1. v \in DOMAIN vs
        BY <1>18
      <3>2. vs[v].refs = (IF v = c THEN 1 ELSE 0) + (IF v = reader THEN 1 ELSE 0)
                         + (IF comp # None /\ v = comp.v THEN 1 ELSE 0) + 0
        BY <1>4, <1>6, <1>8, <1>12, <3>1 DEF ReferencesExact, Running
      <3>3. w[v].refs = IF v = c THEN vs[v].refs + 1 ELSE vs[v].refs
        BY <1>11 DEF Taken
      <3> QED
        BY <3>2, <3>3
    <2> QED
      BY <1>6, <1>11, <1>12, <1>14, <2>1 DEF ReferencesExact
  <1>26. RunningSound'
    <2>1. LastEdit(n)'.next <= t + 1
      <3>1. Sound(n)
        BY <1>7, <1>8 DEF Inv, DiskSound
      <3>2. LastEdit(n).next \in Nat
        BY <1>1, <1>8, <3>1, SoundFacts
      <3> QED
        BY <1>8, <1>13, <3>2
    <2> QED
      BY <1>6, <1>7, <1>8, <1>15, <1>22, <1>23, <1>24, <1>25, <2>1 DEF RunningSound
  <1> QED
    BY <1>6, <1>16, <1>17, <1>26, UpKeeps DEF Up

LEMMA StartCompactionKeeps ==
  ASSUME Inv, StartCompaction
  PROVE  Inv'
  <1>1. TypeOK
    BY DEF Inv
  <1>2. PICK vs : vs = versions /\ IsDirectory(vs, VersionRecords)
    BY <1>1 DEF TypeOK
  <1>3. PICK n : n = current
    OBVIOUS
  <1>4. /\ phase = "up" /\ phase' = phase /\ flush = None /\ edit = None /\ comp = None
        /\ comp' = [v |-> CurrentVersion(vs), inputs |-> CurrentFiles, outs |-> {}, done |-> FALSE]
        /\ versions' = Ref(vs, CurrentVersion(vs))
        /\ logs' = logs /\ tables' = tables /\ manifests' = manifests /\ current' = current
        /\ temps' = temps /\ vset' = vset /\ mem' = mem /\ imm' = imm
        /\ logfile' = logfile /\ todo' = todo /\ edit' = edit /\ flush' = flush
        /\ pending' = pending /\ bg_ok' = bg_ok /\ reader' = reader /\ written' = written
        /\ promised' = promised /\ opened' = opened /\ restarts' = restarts /\ faults' = faults
    BY <1>2 DEF StartCompaction, disk, memory, history
  <1>5. /\ opened /\ current = vset.manifest /\ LastEdit(n).next <= vset.next_file
        /\ VersionsHeld /\ OutputsHeld /\ ManifestFollows /\ ReferencesExact
    BY <1>3, <1>4 DEF Inv, RunningSound, Up
  <1>6. PICK c \in DOMAIN vs : \A v \in DOMAIN vs : v <= c
    BY <1>2, <1>5 DEF VersionsHeld
  <1>7. c \in Nat /\ CurrentVersion(vs) = c
    BY <1>2, <1>6, CurrentIs DEF IsDirectory
  <1>8. PICK w : w = versions' /\ Taken(w, vs, c)
    BY <1>2, <1>4, <1>7, RefFacts
  <1>9. CurrentVersion(w) = c /\ w[c].files = vs[c].files
    BY <1>2, <1>6, <1>8, TakenCurrent
  <1>10. /\ \A t : Whole(t)' = Whole(t)
         /\ Sound(n) => Sound(n)'
         /\ LastEdit(n)' = LastEdit(n) /\ LastFiles(n)' = LastFiles(n)
         /\ CurrentFiles' = CurrentFiles
    <2>1. Sound(n) => Sound(n)'
      BY <1>4, SameDisk
    <2>2. CurrentFiles' = CurrentFiles
      BY <1>2, <1>7, <1>8, <1>9 DEF CurrentFiles
    <2> QED
      BY <1>4, <2>1, <2>2 DEF Whole, LastEdit, LastFiles
  <1>11. /\ comp' \in [v: Nat, inputs: SUBSET Nat, outs: SUBSET Nat, done: BOOLEAN]
         /\ comp'.v = c /\ comp'.inputs = w[c].files /\ comp'.outs = {} /\ comp'.done = FALSE
         /\ comp' # None
    <2>1. CurrentFiles = vs[c].files /\ vs[c].files \in SUBSET Nat
      BY <1>2, <1>7 DEF CurrentFiles, IsDirectory, VersionRecords
    <2>2. /\ comp' \in [v: Nat, inputs: SUBSET Nat, outs: SUBSET Nat, done: BOOLEAN]
          /\ comp'.v = c /\ comp'.inputs = w[c].files /\ comp'.outs = {} /\ comp'.done = FALSE
      BY <1>4, <1>7, <1>9, <2>1
    <2> QED
      BY <2>2, CompNotNone
  <1>12. TypeOK'
    BY <1>1, <1>4, <1>8, <1>11 DEF TypeOK, Taken
  <1>13. DiskSound'
    BY <1>3, <1>4, <1>10 DEF Inv, DiskSound
  <1>14. DOMAIN w = DOMAIN vs /\ \A v \in DOMAIN vs : w[v].files = vs[v].files
    BY <1>8 DEF Taken
  <1>15. VersionsHeld'
    BY <1>2, <1>4, <1>5, <1>6, <1>8, <1>10, <1>11, <1>14 DEF VersionsHeld
  <1>16. OutputsHeld'
    BY <1>4, <1>11 DEF OutputsHeld
  <1>17. ManifestFollows'
    BY <1>3, <1>4, <1>5, <1>10 DEF ManifestFollows
  <1>18. ReferencesExact'
    <2>1. ASSUME NEW v \in DOMAIN w
          PROVE  w[v].refs = (IF v = c THEN 1 ELSE 0) + (IF v = reader THEN 1 ELSE 0)
                             + (IF v = c THEN 1 ELSE 0) + 0
      <3>1. v \in DOMAIN vs
        BY <1>14
      <3>2. vs[v].refs = (IF v = c THEN 1 ELSE 0) + (IF v = reader THEN 1 ELSE 0) + 0 + 0
        BY <1>2, <1>4, <1>5, <1>7, <3>1 DEF ReferencesExact, Running
      <3>3. w[v].refs = IF v = c THEN vs[v].refs + 1 ELSE vs[v].refs
        BY <1>8 DEF Taken
      <3> QED
        BY <3>2, <3>3
    <2> QED
      BY <1>4, <1>8, <1>9, <1>11, <2>1 DEF ReferencesExact
  <1>19. RunningSound'
    BY <1>3, <1>4, <1>5, <1>10, <1>15, <1>16, <1>17, <1>18 DEF RunningSound
  <1> QED
    BY <1>4, <1>12, <1>13, <1>19, UpKeeps DEF Up

LEMMA OpenCompactionOutputFileKeeps ==
  ASSUME Inv, OpenCompactionOutputFile
  PROVE  Inv'
  <1>1. TypeOK
    BY DEF Inv
  <1>2. PICK t \in Nat : t = vset.next_file
    BY <1>1 DEF TypeOK
  <1>3. PICK x \in TableFiles : x = [data |-> {}, whole |-> FALSE, level |-> 0]
    <2>1. [data |-> {}, whole |-> FALSE, level |-> 0] \in TableFiles
      BY DEF TableFiles
    <2> QED
      BY <2>1
  <1>4. /\ phase = "up" /\ phase' = phase /\ flush = None /\ comp # None /\ ~comp.done
        /\ comp' = [comp EXCEPT !.outs = {t}]
        /\ tables' = Put(tables, t, x) /\ pending' = pending \cup {t}
        /\ vset' = [vset EXCEPT !.next_file = t + 1]
        /\ logs' = logs /\ manifests' = manifests /\ current' = current
        /\ temps' = temps /\ versions' = versions /\ mem' = mem /\ imm' = imm
        /\ logfile' = logfile /\ todo' = todo /\ edit' = edit /\ flush' = flush
        /\ bg_ok' = bg_ok /\ reader' = reader /\ written' = written
        /\ promised' = promised /\ opened' = opened /\ restarts' = restarts /\ faults' = faults
    BY <1>2, <1>3 DEF OpenCompactionOutputFile, Merging, Pending, memory, history
  <1>5. PICK n : n = current
    OBVIOUS
  <1>6. /\ opened /\ current = vset.manifest /\ LastEdit(n).next <= t
        /\ VersionsHeld /\ OutputsHeld /\ ManifestFollows /\ ReferencesExact
    BY <1>2, <1>4, <1>5 DEF Inv, RunningSound, Up
  <1>7. edit = None
    BY <1>4, <1>6 DEF OutputsHeld
  <1>8. /\ IsDirectory(tables', TableFiles) /\ t \in DOMAIN tables'
        /\ DOMAIN tables \subseteq DOMAIN tables'
        /\ \A u \in Nat : u < t /\ Whole(u) => Whole(u)'
        /\ Sound(n)' /\ LastEdit(n)' = LastEdit(n) /\ LastFiles(n)' = LastFiles(n)
    BY <1>2, <1>4, <1>5, NewTable DEF Up
  <1>9. /\ comp' \in [v: Nat, inputs: SUBSET Nat, outs: SUBSET Nat, done: BOOLEAN]
        /\ comp'.v = comp.v /\ comp'.inputs = comp.inputs /\ comp'.outs = {t} /\ ~comp'.done
        /\ comp' # None
    <2>1. comp \in [v: Nat, inputs: SUBSET Nat, outs: SUBSET Nat, done: BOOLEAN]
      BY <1>1, <1>4 DEF TypeOK
    <2>2. /\ comp' \in [v: Nat, inputs: SUBSET Nat, outs: SUBSET Nat, done: BOOLEAN]
          /\ comp'.v = comp.v /\ comp'.inputs = comp.inputs /\ comp'.outs = {t} /\ ~comp'.done
      BY <1>4, <2>1
    <2> QED
      BY <2>2, CompNotNone
  <1>10. /\ vset' \in [next_file: Nat, manifest: Nat, log_number: Nat, last: Nat]
         /\ vset'.next_file = t + 1 /\ vset'.manifest = vset.manifest
    BY <1>1, <1>4 DEF TypeOK
  <1>11. TypeOK'
    BY <1>1, <1>4, <1>8, <1>9, <1>10 DEF TypeOK
  <1>12. DiskSound'
    BY <1>4, <1>5, <1>8 DEF Inv, DiskSound
  <1>13. VersionsHeld'
    <2>1. \A v \in DOMAIN versions : versions[v].files \in SUBSET Nat
      BY <1>1 DEF TypeOK, IsDirectory, VersionRecords
    <2>2. \A v \in DOMAIN versions : \A u \in versions[v].files : u < t /\ Whole(u)
      BY <1>2, <1>6 DEF VersionsHeld
    <2>3. \A u \in Nat : u < t => u < t + 1
      OBVIOUS
    <2>4. \A v \in DOMAIN versions : \A u \in versions[v].files : u < t + 1 /\ Whole(u)'
      BY <1>8, <2>1, <2>2, <2>3
    <2> QED
      BY <1>4, <1>6, <1>9, <1>10, <2>4 DEF VersionsHeld
  <1>14. OutputsHeld'
    BY <1>4, <1>7, <1>8, <1>9, <1>10 DEF OutputsHeld
  <1>15. ManifestFollows'
    <2>1. CurrentFiles' = CurrentFiles
      BY <1>4 DEF CurrentFiles
    <2> QED
      BY <1>4, <1>5, <1>6, <1>8, <2>1 DEF ManifestFollows
  <1>16. ReferencesExact'
    BY <1>4, <1>6, <1>9 DEF ReferencesExact, Running
  <1>17. RunningSound'
    <2>1. LastEdit(n)'.next <= t + 1
      <3>1. Sound(n)
        BY <1>5, <1>6 DEF Inv, DiskSound
      <3>2. LastEdit(n).next \in Nat
        BY <1>1, <1>6, <3>1, SoundFacts
      <3> QED
        BY <1>6, <1>8, <3>2
    <2> QED
      BY <1>4, <1>5, <1>6, <1>10, <1>13, <1>14, <1>15, <1>16, <2>1 DEF RunningSound
  <1> QED
    BY <1>4, <1>11, <1>12, <1>17, UpKeeps DEF Up

LEMMA BuildTableKeeps ==
  ASSUME Inv, BuildTable
  PROVE  Inv'
  <1>1. TypeOK
    BY DEF Inv
  <1>2. /\ phase \in Up /\ phase' = phase /\ flush # None /\ edit = None
        /\ versions' = Unref(versions, flush.base) /\ pending' = pending \ {flush.number}
        /\ logs' = logs /\ manifests' = manifests /\ current' = current
        /\ temps' = temps /\ vset' = vset /\ mem' = mem /\ imm' = imm
        /\ logfile' = logfile /\ todo' = todo /\ comp' = comp
        /\ reader' = reader /\ written' = written
        /\ promised' = promised /\ opened' = opened /\ restarts' = restarts
    BY DEF BuildTable, Running, Up, memory, history, Fails
  <1>3. PICK n : n = current
    OBVIOUS
  <1>4. PICK next \in Nat : next = vset.next_file
    BY <1>1 DEF TypeOK
  <1>5. /\ opened /\ current = vset.manifest /\ LastEdit(n).next <= next
        /\ VersionsHeld /\ OutputsHeld /\ ManifestFollows /\ ReferencesExact
        /\ phase = "closing" => reader = 0
    BY <1>2, <1>3, <1>4 DEF Inv, RunningSound
  <1>6. PICK t \in Nat : t = flush.number /\ t \in DOMAIN tables
    BY <1>1, <1>2, <1>5 DEF TypeOK, OutputsHeld
  <1>7. /\ t < next
        /\ comp # None => t \notin comp.outs /\ comp.outs \subseteq DOMAIN tables
                          /\ comp.outs \subseteq pending /\ ~comp.done
        /\ \A v \in DOMAIN versions : t \notin versions[v].files
        /\ \A k \in manifests[n].synced..Len(manifests[n].edits) :
             t \notin FilesAt(manifests[n].edits, k)
    BY <1>2, <1>3, <1>4, <1>5, <1>6 DEF OutputsHeld
  <1>8. PICK vs : vs = versions /\ IsDirectory(vs, VersionRecords)
    BY <1>1 DEF TypeOK
  <1>9. PICK c \in DOMAIN vs : \A v \in DOMAIN vs : v <= c
    BY <1>5, <1>8 DEF VersionsHeld
  <1>10. PICK r \in DOMAIN vs : r = flush.base
    BY <1>2, <1>5, <1>8 DEF VersionsHeld
  <1>11. CurrentVersion(vs) = c
    BY <1>8, <1>9, CurrentIs
  <1>12. ASSUME NEW v \in DOMAIN vs
         PROVE  vs[v].refs = (IF v = c THEN 1 ELSE 0) + (IF v = reader THEN 1 ELSE 0)
                         + (IF comp # None /\ v = comp.v THEN 1 ELSE 0)
                         + (IF v = r THEN 1 ELSE 0)
    BY <1>2, <1>5, <1>8, <1>10, <1>11 DEF ReferencesExact, Running, Up
  <1>13. vs[r].refs >= 1 /\ (r = c => vs[r].refs >= 2)
    BY <1>12
  <1>14. PICK w : w = versions' /\ Dropped(w, vs, r)
    <2>1. vs[r].refs >= 1
      BY <1>13
    <2> QED
      BY <1>2, <1>8, <1>10, <2>1, UnrefFacts
  <1>15. /\ c \in DOMAIN w /\ CurrentVersion(w) = c /\ w[c].files = vs[c].files
         /\ DOMAIN w \subseteq DOMAIN vs /\ \A u \in DOMAIN w : u <= c
    <2>1. r = c => vs[r].refs >= 2
      BY <1>13
    <2> QED
      BY <1>8, <1>9, <1>14, <2>1, DroppedCurrent
  <1>16. \A v \in DOMAIN w : v \in DOMAIN vs /\ w[v].files = vs[v].files
    BY <1>14, <1>15 DEF Dropped
  <1>17. ASSUME NEW v \in DOMAIN vs, v # r \/ vs[v].refs # 1 PROVE v \in DOMAIN w
    BY <1>14, <1>17 DEF Dropped
  \* The table is complete, or it is gone; no other one is touched.
  <1>18. /\ IsDirectory(tables', TableFiles)
         /\ \A u : u # t => (Whole(u) => Whole(u)') /\ (u \in DOMAIN tables => u \in DOMAIN tables')
         /\ faults' \in Nat
         /\ \/ flush' = None /\ bg_ok' = FALSE /\ edit' = edit
            \/ /\ flush' = flush /\ bg_ok' = bg_ok /\ Whole(t)'
               /\ edit' = Edit(logfile, next, vset.last, {}, {t})
    <2>1. PICK f : f = tables /\ IsDirectory(f, TableFiles)
      BY <1>1 DEF TypeOK
    <2>2. faults \in Nat /\ faults + 1 \in Nat
      BY <1>1 DEF TypeOK
    <2>3. CASE /\ tables' = [tables EXCEPT ![flush.number] =
                               [data |-> UNION imm, whole |-> TRUE, level |-> 0]]
               /\ IF phase = "closing"
                  THEN flush' = None /\ bg_ok' = FALSE /\ UNCHANGED edit
                  ELSE /\ edit' = Edit(logfile, vset.next_file, vset.last, {}, {flush.number})
                       /\ UNCHANGED <<flush, bg_ok>>
               /\ UNCHANGED history
      <3>1. PICK x : x = [data |-> UNION imm, whole |-> TRUE, level |-> 0]
        OBVIOUS
      <3>2. x \in TableFiles /\ x.whole
        <4>1. UNION imm \in SUBSET Writes
          BY <1>1 DEF TypeOK
        <4> QED
          BY <3>1, <4>1 DEF TableFiles
      <3>3. PICK g : g = [f EXCEPT ![t] = x]
        OBVIOUS
      <3>4. IsDirectory(g, TableFiles) /\ Changed(g, f, t, x)
        BY <1>6, <2>1, <3>2, <3>3, ExceptFacts
      <3>5. tables' = g
        BY <1>6, <2>1, <2>3, <3>1, <3>3
      <3>6. /\ \A u : u # t => (Whole(u) => Whole(u)') /\ (u \in DOMAIN tables => u \in DOMAIN tables')
            /\ Whole(t)'
        BY <1>6, <2>1, <3>2, <3>4, <3>5 DEF Whole, Changed
      <3>7. \/ flush' = None /\ bg_ok' = FALSE /\ edit' = edit
            \/ /\ flush' = flush /\ bg_ok' = bg_ok
               /\ edit' = Edit(logfile, next, vset.last, {}, {t})
        BY <1>4, <1>6, <2>3
      <3>8. faults' = faults
        BY <2>3 DEF history
      <3> QED
        BY <2>2, <3>4, <3>5, <3>6, <3>7, <3>8
    <2>4. CASE /\ Fails
               /\ tables' = Without(tables, flush.number)
               /\ flush' = None /\ bg_ok' = FALSE /\ UNCHANGED edit
      <3>1. PICK g : g = Without(f, t)
        OBVIOUS
      <3>2. IsDirectory(g, TableFiles) /\ Kept(g, f, DOMAIN f \ {t})
        BY <2>1, <3>1, WithoutFacts
      <3>3. tables' = g
        BY <1>6, <2>1, <2>4, <3>1
      <3>4. \A u : u # t => (Whole(u) => Whole(u)') /\ (u \in DOMAIN tables => u \in DOMAIN tables')
        BY <2>1, <3>2, <3>3 DEF Whole, Kept
      <3> QED
        BY <2>2, <2>4, <3>2, <3>3, <3>4 DEF Fails
    <2> QED
      BY <2>3, <2>4 DEF BuildTable
  <1>19. Sound(n)' /\ LastEdit(n)' = LastEdit(n) /\ LastFiles(n)' = LastFiles(n)
    <2>1. Sound(n)
      BY <1>3, <1>5 DEF Inv, DiskSound
    <2>2. manifests[n].synced \in Nat /\ n \in DOMAIN manifests
      BY <1>1, <2>1, SoundFacts DEF Sound
    <2>3. t \notin Needed(n)
      BY <1>7 DEF Needed
    <2>4. Sound(n)'
      BY <1>2, <1>18, <2>1, <2>2, <2>3, SoundKeeps
    <2> QED
      BY <1>2, <2>4 DEF LastEdit, LastFiles
  <1>20. DiskSound'
    BY <1>2, <1>3, <1>19 DEF Inv, DiskSound
  <1>21. \/ flush' = None /\ edit' = None
         \/ /\ flush' # None /\ edit' \in Edits /\ AllSet(edit') /\ edit'.next = next
            /\ edit'.add = {t} /\ edit'.logged = FALSE /\ edit' # None
    <2>1. CASE flush' = flush /\ edit' = Edit(logfile, next, vset.last, {}, {t})
      <3>1. /\ logfile \in Fields /\ next \in Fields /\ vset.last \in Fields
            /\ logfile # Unset /\ next # Unset /\ vset.last # Unset
        BY <1>1 DEF TypeOK, Fields, Unset
      <3>2. /\ edit' \in Edits /\ AllSet(edit') /\ edit'.next = next
            /\ edit'.add = {t} /\ edit'.logged = FALSE
        BY <2>1, <3>1 DEF Edit, Edits, AllSet
      <3> QED
        BY <1>2, <2>1, <3>2, EditNotNone
    <2> QED
      BY <1>2, <1>18, <2>1
  <1>22. TypeOK'
    <2>1. pending' \in SUBSET Nat /\ bg_ok' \in BOOLEAN
      BY <1>1, <1>2, <1>18 DEF TypeOK
    <2>2. flush' = None \/ flush' \in [number: Nat, base: Nat]
      BY <1>1, <1>18 DEF TypeOK
    <2>3. IsDirectory(versions', VersionRecords)
      BY <1>14 DEF Dropped
    <2> QED
      BY <1>1, <1>2, <1>18, <1>21, <2>1, <2>2, <2>3 DEF TypeOK
  \* Either way the thread's reference to its base version is gone.
  <1>23. ~(flush' # None /\ edit' = None)
    BY <1>21
  <1>24. VersionsHeld'
    <2>1. comp # None => comp.v \in DOMAIN w /\ comp.inputs = w[comp.v].files
      <3>1. comp # None => comp.v \in DOMAIN vs /\ comp.inputs = vs[comp.v].files
        BY <1>5, <1>8 DEF VersionsHeld
      <3>2. comp # None => comp.v # r \/ vs[comp.v].refs # 1
        BY <1>12, <3>1
      <3>3. comp # None => comp.v \in DOMAIN w
        BY <1>17, <3>1, <3>2
      <3> QED
        BY <1>16, <3>1, <3>3
    <2>2. reader # 0 => reader \in DOMAIN w
      <3>1. reader # 0 => reader \in DOMAIN vs
        BY <1>5, <1>8 DEF VersionsHeld
      <3>2. reader # 0 => reader # r \/ vs[reader].refs # 1
        BY <1>12, <3>1
      <3> QED
        BY <1>17, <3>1, <3>2
    <2>3. 0 \notin DOMAIN w
      BY <1>5, <1>8, <1>15 DEF VersionsHeld
    <2>4. \A v \in DOMAIN w : \A u \in w[v].files : u < vset.next_file /\ Whole(u)'
      <3>1. \A v \in DOMAIN vs : \A u \in vs[v].files : u < vset.next_file /\ Whole(u) /\ u # t
        BY <1>5, <1>7, <1>8 DEF VersionsHeld
      <3> QED
        BY <1>16, <1>18, <3>1
    <2> QED
      BY <1>2, <1>14, <1>15, <1>23, <2>1, <2>2, <2>3, <2>4 DEF VersionsHeld
  <1>25. OutputsHeld'
    <2>1. comp # None => /\ comp.outs \subseteq DOMAIN tables' /\ comp.outs \subseteq pending'
                         /\ ~comp.done
      BY <1>2, <1>6, <1>7, <1>18
    <2>2. comp # None => \A u \in comp.outs : u < vset.next_file
      BY <1>5 DEF OutputsHeld
    <2>3. ASSUME edit' # None
          PROVE  /\ AllSet(edit') /\ edit'.next <= next
                 /\ \A u \in edit'.add : u < edit'.next /\ Whole(u)'
                 /\ LastEdit(n)'.next <= edit'.next
                 /\ flush' # None
      <3>1. /\ AllSet(edit') /\ edit'.next = next /\ edit'.add = {t}
        BY <1>21, <2>3
      <3>2. Whole(t)' /\ flush' # None
        BY <1>2, <1>18, <2>3
      <3> QED
        BY <1>5, <1>7, <1>19, <3>1, <3>2
    <2> QED
      BY <1>2, <1>3, <1>4, <1>23, <2>1, <2>2, <2>3 DEF OutputsHeld
  <1>26. ManifestFollows'
    <2>1. CurrentFiles' = CurrentFiles
      BY <1>8, <1>11, <1>14, <1>15 DEF CurrentFiles
    <2>2. bg_ok' => bg_ok
      BY <1>18
    <2>3. ~(edit' # None /\ edit'.logged)
      BY <1>21
    <2> QED
      BY <1>2, <1>3, <1>5, <1>19, <2>1, <2>2, <2>3 DEF ManifestFollows
  <1>27. ReferencesExact'
    <2>1. ASSUME NEW v \in DOMAIN w
          PROVE  w[v].refs = (IF v = c THEN 1 ELSE 0) + (IF v = reader THEN 1 ELSE 0)
                             + (IF comp # None /\ v = comp.v THEN 1 ELSE 0) + 0
      <3>1. v \in DOMAIN vs
        BY <1>16
      <3>2. w[v].refs = IF v = r THEN vs[v].refs - 1 ELSE vs[v].refs
        BY <1>14 DEF Dropped
      <3> QED
        BY <1>12, <3>1, <3>2
    <2> QED
      BY <1>2, <1>14, <1>15, <1>23, <2>1 DEF ReferencesExact
  <1>28. RunningSound'
    BY <1>2, <1>3, <1>4, <1>5, <1>19, <1>24, <1>25, <1>26, <1>27 DEF RunningSound
  <1> QED
    BY <1>2, <1>20, <1>22, <1>28, UpKeeps

\* A compaction that fails gives back its input version and its outputs' numbers.
LEMMA CleanupKeeps ==
  ASSUME Inv, phase \in Up, phase' = phase, comp # None, flush = None, Cleanup, bg_ok' = FALSE,
         edit' = None, flush' = flush, faults' \in Nat,
         UNCHANGED <<disk, vset, memory, todo, reader, written, promised, opened, restarts>>
  PROVE  Inv'
  <1>1. TypeOK
    BY DEF Inv
  <1>2. /\ logs' = logs /\ tables' = tables /\ manifests' = manifests /\ current' = current
        /\ temps' = temps /\ vset' = vset /\ mem' = mem /\ imm' = imm /\ logfile' = logfile
        /\ todo' = todo /\ reader' = reader /\ written' = written
        /\ promised' = promised /\ opened' = opened /\ restarts' = restarts
        /\ pending' = pending \ comp.outs /\ versions' = Unref(versions, comp.v) /\ comp' = None
    BY DEF disk, memory, Cleanup
  <1>3. PICK n : n = current
    OBVIOUS
  <1>4. /\ opened /\ current = vset.manifest /\ LastEdit(n).next <= vset.next_file
        /\ VersionsHeld /\ OutputsHeld /\ ManifestFollows /\ ReferencesExact
        /\ phase = "closing" => reader = 0
    BY <1>3 DEF Inv, RunningSound
  <1>5. PICK vs : vs = versions /\ IsDirectory(vs, VersionRecords)
    BY <1>1 DEF TypeOK
  <1>6. PICK c \in DOMAIN vs : \A v \in DOMAIN vs : v <= c
    BY <1>4, <1>5 DEF VersionsHeld
  <1>7. PICK r \in DOMAIN vs : r = comp.v
    BY <1>4, <1>5 DEF VersionsHeld
  <1>8. CurrentVersion(vs) = c
    BY <1>5, <1>6, CurrentIs
  <1>9. ASSUME NEW v \in DOMAIN vs
        PROVE  vs[v].refs = (IF v = c THEN 1 ELSE 0) + (IF v = reader THEN 1 ELSE 0)
                            + (IF v = r THEN 1 ELSE 0) + 0
    BY <1>4, <1>5, <1>7, <1>8 DEF ReferencesExact, Running, Up
  <1>10. vs[r].refs >= 1 /\ (r = c => vs[r].refs >= 2)
    BY <1>9
  <1>11. PICK w : w = versions' /\ Dropped(w, vs, r)
    <2>1. vs[r].refs >= 1
      BY <1>10
    <2> QED
      BY <1>2, <1>5, <1>7, <2>1, UnrefFacts
  <1>12. /\ c \in DOMAIN w /\ CurrentVersion(w) = c /\ w[c].files = vs[c].files
         /\ DOMAIN w \subseteq DOMAIN vs /\ \A u \in DOMAIN w : u <= c
    <2>1. r = c => vs[r].refs >= 2
      BY <1>10
    <2> QED
      BY <1>5, <1>6, <1>11, <2>1, DroppedCurrent
  <1>13. \A v \in DOMAIN w : v \in DOMAIN vs /\ w[v].files = vs[v].files
    BY <1>11, <1>12 DEF Dropped
  <1>14. /\ \A t : Whole(t)' = Whole(t)
         /\ Sound(n) => Sound(n)'
         /\ LastEdit(n)' = LastEdit(n) /\ LastFiles(n)' = LastFiles(n)
    <2>1. Sound(n) => Sound(n)'
      BY <1>2, SameDisk
    <2> QED
      BY <1>2, <2>1 DEF Whole, LastEdit, LastFiles
  <1>15. DiskSound'
    BY <1>2, <1>3, <1>14 DEF Inv, DiskSound
  <1>16. TypeOK'
    <2>1. IsDirectory(versions', VersionRecords)
      BY <1>11 DEF Dropped
    <2>2. pending' \in SUBSET Nat
      BY <1>1, <1>2 DEF TypeOK
    <2> QED
      BY <1>1, <1>2, <2>1, <2>2 DEF TypeOK
  <1>17. VersionsHeld'
    <2>1. reader # 0 => reader \in DOMAIN w
      <3>1. reader # 0 => reader \in DOMAIN vs
        BY <1>4, <1>5 DEF VersionsHeld
      <3>2. reader # 0 => reader # r \/ vs[reader].refs # 1
        BY <1>9, <3>1
      <3> QED
        BY <1>11, <3>1, <3>2 DEF Dropped
    <2>2. 0 \notin DOMAIN w
      BY <1>4, <1>5, <1>12 DEF VersionsHeld
    <2>3. \A v \in DOMAIN w : \A t \in w[v].files : t < vset.next_file /\ Whole(t)'
      BY <1>4, <1>5, <1>13, <1>14 DEF VersionsHeld
    <2> QED
      BY <1>2, <1>11, <1>12, <2>1, <2>2, <2>3 DEF VersionsHeld
  <1>18. OutputsHeld'
    BY <1>2 DEF OutputsHeld
  <1>19. ManifestFollows'
    BY DEF ManifestFollows
  <1>20. ReferencesExact'
    <2>1. ASSUME NEW v \in DOMAIN w
          PROVE  w[v].refs = (IF v = c THEN 1 ELSE 0) + (IF v = reader THEN 1 ELSE 0) + 0 + 0
      <3>1. v \in DOMAIN vs
        BY <1>13
      <3>2. w[v].refs = IF v = r THEN vs[v].refs - 1 ELSE vs[v].refs
        BY <1>11 DEF Dropped
      <3> QED
        BY <1>9, <3>1, <3>2
    <2> QED
      BY <1>2, <1>11, <1>12, <2>1 DEF ReferencesExact
  <1>21. RunningSound'
    BY <1>2, <1>3, <1>4, <1>14, <1>17, <1>18, <1>19, <1>20 DEF RunningSound
  <1> QED
    BY <1>15, <1>16, <1>21, UpKeeps

LEMMA FinishCompactionOutputFileKeeps ==
  ASSUME Inv, FinishCompactionOutputFile
  PROVE  Inv'
  <1>1. TypeOK
    BY DEF Inv
  <1>2. /\ phase \in Up /\ phase' = phase /\ comp # None /\ ~comp.done /\ flush = None /\ edit = None
        /\ logs' = logs /\ manifests' = manifests /\ current' = current
        /\ temps' = temps /\ vset' = vset /\ mem' = mem /\ imm' = imm /\ logfile' = logfile
        /\ todo' = todo /\ flush' = flush /\ reader' = reader
    BY DEF FinishCompactionOutputFile, Running, Up, Merging, memory
  <1>3. CASE \/ phase = "up" /\ Fails /\ CompactionFails /\ UNCHANGED <<tables, edit>>
             \/ phase = "closing" /\ CompactionFails /\ UNCHANGED <<tables, edit, history>>
    <2>1. faults' \in Nat /\ UNCHANGED <<written, promised, opened, restarts>>
      BY <1>1, <1>3 DEF Fails, history, TypeOK
    <2>2. Cleanup /\ bg_ok' = FALSE /\ edit' = None /\ tables' = tables
      BY <1>2, <1>3 DEF CompactionFails
    <2>3. UNCHANGED <<disk, vset, memory, todo, reader, written, promised, opened, restarts>>
      BY <1>2, <2>1, <2>2 DEF disk, memory
    <2> QED
      BY <1>2, <2>1, <2>2, <2>3, CleanupKeeps
  <1>4. CASE /\ phase = "up" /\ comp.outs # {}
             /\ tables' = [n \in DOMAIN tables |->
                   IF n \in comp.outs
                   THEN [data |-> UNION {tables[i].data : i \in comp.inputs},
                         whole |-> TRUE, level |-> 1]
                   ELSE tables[n]]
             /\ edit' = Edit(vset.log_number, vset.next_file, vset.last,
                             comp.inputs, comp.outs)
             /\ comp' = [comp EXCEPT !.done = TRUE]
             /\ UNCHANGED <<pending, versions, bg_ok, history>>
    <2>1. /\ pending' = pending /\ versions' = versions /\ bg_ok' = bg_ok /\ written' = written
          /\ promised' = promised /\ opened' = opened /\ restarts' = restarts /\ faults' = faults
      BY <1>4 DEF history
    <2>2. PICK n : n = current
      OBVIOUS
    <2>3. PICK next \in Nat : next = vset.next_file
      BY <1>1 DEF TypeOK
    <2>4. /\ opened /\ current = vset.manifest /\ LastEdit(n).next <= next
          /\ VersionsHeld /\ OutputsHeld /\ ManifestFollows /\ ReferencesExact
      BY <1>2, <2>2, <2>3 DEF Inv, RunningSound
    <2>5. comp \in [v: Nat, inputs: SUBSET Nat, outs: SUBSET Nat, done: BOOLEAN]
      BY <1>1, <1>2 DEF TypeOK
    <2>6. /\ comp.v \in DOMAIN versions /\ comp.inputs = versions[comp.v].files
          /\ comp.outs \subseteq DOMAIN tables /\ comp.outs \subseteq pending
          /\ \A t \in comp.outs : t < next
      BY <1>2, <2>3, <2>4 DEF VersionsHeld, OutputsHeld
    <2>7. /\ comp' \in [v: Nat, inputs: SUBSET Nat, outs: SUBSET Nat, done: BOOLEAN]
          /\ comp'.v = comp.v /\ comp'.inputs = comp.inputs /\ comp'.outs = comp.outs
          /\ comp' # None
      <3>1. /\ comp' \in [v: Nat, inputs: SUBSET Nat, outs: SUBSET Nat, done: BOOLEAN]
            /\ comp'.v = comp.v /\ comp'.inputs = comp.inputs /\ comp'.outs = comp.outs
        BY <1>4, <2>5
      <3> QED
        BY <3>1, CompNotNone
    <2>8. /\ edit' \in Edits /\ edit' # None /\ AllSet(edit') /\ edit'.next = next
          /\ edit'.add = comp.outs /\ edit'.logged = FALSE
      <3>1. /\ vset.log_number \in Fields /\ next \in Fields /\ vset.last \in Fields
            /\ vset.log_number # Unset /\ next # Unset /\ vset.last # Unset
        BY <1>1 DEF TypeOK, Fields, Unset
      <3>2. /\ edit' \in Edits /\ AllSet(edit') /\ edit'.next = next
            /\ edit'.add = comp.outs /\ edit'.logged = FALSE
        BY <1>4, <2>3, <2>5, <3>1 DEF Edit, Edits, AllSet
      <3> QED
        BY <3>2, EditNotNone
    <2>9. /\ IsDirectory(tables', TableFiles) /\ DOMAIN tables' = DOMAIN tables
          /\ \A t : Whole(t) => Whole(t)'
          /\ \A t \in comp.outs : Whole(t)'
      <3>1. PICK x : x = [data |-> UNION {tables[i].data : i \in comp.inputs},
                          whole |-> TRUE, level |-> 1]
        OBVIOUS
      <3>2. IsDirectory(tables, TableFiles)
        BY <1>1 DEF TypeOK
      <3>3. comp.inputs \subseteq DOMAIN tables
        BY <2>4, <2>6 DEF VersionsHeld, Whole
      <3>4. x \in TableFiles /\ x.whole
        <4>1. \A i \in comp.inputs : tables[i].data \in SUBSET Writes
          BY <3>2, <3>3 DEF IsDirectory, TableFiles
        <4>2. UNION {tables[i].data : i \in comp.inputs} \in SUBSET Writes
          BY <4>1
        <4> QED
          BY <3>1, <4>2 DEF TableFiles
      <3>5. /\ DOMAIN tables' = DOMAIN tables
            /\ \A t \in DOMAIN tables : tables'[t] = IF t \in comp.outs THEN x ELSE tables[t]
        BY <1>4, <3>1
      <3>6. tables' \in [DOMAIN tables -> TableFiles]
        <4>1. tables' = [t \in DOMAIN tables |-> IF t \in comp.outs THEN x ELSE tables[t]]
          BY <1>4, <3>1
        <4>2. \A t \in DOMAIN tables : (IF t \in comp.outs THEN x ELSE tables[t]) \in TableFiles
          BY <3>2, <3>4 DEF IsDirectory
        <4> QED
          BY <4>1, <4>2
      <3>7. IsDirectory(tables', TableFiles)
        BY <3>2, <3>5, <3>6 DEF IsDirectory
      <3> QED
        BY <2>6, <3>4, <3>5, <3>7 DEF Whole
    <2>10. Sound(n)' /\ LastEdit(n)' = LastEdit(n) /\ LastFiles(n)' = LastFiles(n)
      <3>1. Sound(n)
        BY <2>2, <2>4 DEF Inv, DiskSound
      <3>2. manifests[n].synced \in Nat /\ n \in DOMAIN manifests
        BY <1>1, <3>1, SoundFacts DEF Sound
      <3>3. Sound(n)'
        BY <1>2, <2>1, <2>9, <3>1, <3>2, SoundKeeps
      <3> QED
        BY <1>2, <3>3 DEF LastEdit, LastFiles
    <2>11. TypeOK'
      BY <1>1, <1>2, <2>1, <2>7, <2>8, <2>9 DEF TypeOK
    <2>12. DiskSound'
      BY <1>2, <2>1, <2>2, <2>10 DEF Inv, DiskSound
    <2>13. VersionsHeld'
      BY <1>2, <2>1, <2>4, <2>7, <2>9 DEF VersionsHeld
    <2>14. OutputsHeld'
      <3>1. comp'.done
        BY <1>4, <2>5
      <3>2. next <= next /\ LastEdit(n)'.next <= edit'.next
        BY <2>4, <2>8, <2>10
      <3> QED
        BY <1>2, <2>1, <2>2, <2>3, <2>6, <2>7, <2>8, <2>9, <3>1, <3>2 DEF OutputsHeld
    <2>15. ManifestFollows'
      <3>1. CurrentFiles' = CurrentFiles
        BY <2>1 DEF CurrentFiles
      <3> QED
        BY <1>2, <2>1, <2>2, <2>4, <2>8, <2>10, <3>1 DEF ManifestFollows
    <2>16. ReferencesExact'
      BY <1>2, <2>1, <2>4, <2>7 DEF ReferencesExact, Running
    <2>17. RunningSound'
      BY <1>2, <1>4, <2>1, <2>2, <2>3, <2>4, <2>10, <2>13, <2>14, <2>15, <2>16 DEF RunningSound
    <2> QED
      BY <1>2, <2>11, <2>12, <2>17, UpKeeps
  <1> QED
    BY <1>3, <1>4 DEF FinishCompactionOutputFile

LEMMA LogAndApplyFailsKeeps ==
  ASSUME Inv, LogAndApplyFails
  PROVE  Inv'
  <1>1. TypeOK
    BY DEF Inv
  <1>2. /\ phase \in Up /\ phase' = phase /\ edit # None /\ edit' = None /\ bg_ok' = FALSE
        /\ UNCHANGED <<disk, vset, memory, todo, reader, written, promised, opened, restarts>>
        /\ faults' \in Nat
    BY <1>1 DEF LogAndApplyFails, Running, Up, Fails, TypeOK
  <1>3. PICK n : n = current
    OBVIOUS
  <1>4. /\ opened /\ current = vset.manifest /\ LastEdit(n).next <= vset.next_file
        /\ VersionsHeld /\ OutputsHeld /\ ManifestFollows /\ ReferencesExact
        /\ phase = "closing" => reader = 0
    BY <1>2, <1>3 DEF Inv, RunningSound
  <1>5. CASE flush = None
    <2>1. comp # None
      BY <1>2, <1>4, <1>5 DEF OutputsHeld
    <2>2. Cleanup /\ flush' = flush
      BY <1>5 DEF LogAndApplyFails
    <2> QED
      BY <1>2, <1>5, <2>1, <2>2, CleanupKeeps
  <1>6. CASE flush # None
    <2>1. /\ flush' = None /\ comp' = comp /\ pending' = pending /\ versions' = versions
          /\ logs' = logs /\ tables' = tables /\ manifests' = manifests /\ current' = current
          /\ temps' = temps /\ vset' = vset /\ mem' = mem /\ imm' = imm /\ logfile' = logfile
          /\ todo' = todo /\ reader' = reader /\ written' = written
          /\ promised' = promised /\ opened' = opened /\ restarts' = restarts
      BY <1>2, <1>6 DEF LogAndApplyFails, disk, memory
    <2>2. /\ \A t : Whole(t)' = Whole(t)
          /\ Sound(n) => Sound(n)'
          /\ LastEdit(n)' = LastEdit(n)
      <3>1. Sound(n) => Sound(n)'
        BY <2>1, SameDisk
      <3> QED
        BY <2>1, <3>1 DEF Whole, LastEdit
    <2>3. TypeOK'
      BY <1>1, <1>2, <2>1 DEF TypeOK
    <2>4. DiskSound'
      BY <1>2, <1>3, <2>1, <2>2 DEF Inv, DiskSound
    <2>5. VersionsHeld'
      BY <1>4, <2>1, <2>2 DEF VersionsHeld
    <2>6. OutputsHeld'
      BY <1>2, <1>4, <1>6, <2>1 DEF OutputsHeld
    <2>7. ManifestFollows'
      BY <1>2 DEF ManifestFollows
    <2>8. ReferencesExact'
      BY <1>2, <1>4, <2>1 DEF ReferencesExact, Running
    <2>9. RunningSound'
      BY <1>2, <1>3, <1>4, <2>1, <2>2, <2>5, <2>6, <2>7, <2>8 DEF RunningSound
    <2> QED
      BY <1>2, <2>3, <2>4, <2>9, UpKeeps
  <1> QED
    BY <1>5, <1>6

LEMMA LogEditKeeps ==
  ASSUME Inv, LogEdit
  PROVE  Inv'
  <1>1. TypeOK
    BY DEF Inv
  <1>2. PICK m \in Nat : m = vset.manifest
    BY <1>1 DEF TypeOK
  <1>3. PICK next \in Nat : next = vset.next_file
    BY <1>1 DEF TypeOK
  <1>4. /\ phase \in Up /\ phase' = phase /\ edit # None /\ ~edit.logged
        /\ edit' = [edit EXCEPT !.logged = TRUE]
        /\ manifests' = [manifests EXCEPT ![m].edits = Append(@, edit)]
        /\ logs' = logs /\ tables' = tables /\ current' = current
        /\ temps' = temps /\ vset' = vset /\ versions' = versions /\ mem' = mem /\ imm' = imm
        /\ logfile' = logfile /\ todo' = todo /\ flush' = flush /\ comp' = comp
        /\ pending' = pending /\ bg_ok' = bg_ok /\ reader' = reader /\ written' = written
        /\ promised' = promised /\ opened' = opened /\ restarts' = restarts /\ faults' = faults
    BY <1>2 DEF LogEdit, Running, Up, memory, background, history
  <1>5. /\ opened /\ current = m /\ LastEdit(m).next <= next
        /\ VersionsHeld /\ OutputsHeld /\ ManifestFollows /\ ReferencesExact
        /\ phase = "closing" => reader = 0
    BY <1>2, <1>3, <1>4 DEF Inv, RunningSound
  <1>6. PICK e \in Edits : e = edit
    BY <1>1, <1>4 DEF TypeOK
  <1>7. /\ AllSet(e) /\ e.next <= next /\ e.next \in Nat
        /\ \A t \in e.add : t < e.next /\ Whole(t)
        /\ LastEdit(m).next <= e.next
        /\ flush = None => comp # None /\ comp.done
    <2>1. /\ AllSet(e) /\ e.next <= next
          /\ \A t \in e.add : t < e.next /\ Whole(t)
          /\ LastEdit(m).next <= e.next
          /\ flush = None => comp # None /\ comp.done
      BY <1>3, <1>4, <1>5, <1>6 DEF OutputsHeld
    <2>2. e.next \in Nat
      BY <2>1 DEF AllSet, Edits, Fields
    <2> QED
      BY <2>1, <2>2
  <1>8. PICK f : f = manifests /\ IsDirectory(f, Manifests)
    BY <1>1 DEF TypeOK
  <1>9. Sound(m) /\ m \in DOMAIN f
    BY <1>5, <1>8 DEF Inv, DiskSound, Sound
  <1>10. PICK es \in Seq(Edits) : es = f[m].edits
    BY <1>1, <1>8, <1>9, SoundFacts
  <1>11. PICK s \in Nat : s = f[m].synced
    BY <1>1, <1>8, <1>9, SoundFacts
  <1>12. PICK l \in Nat : l = Len(es) /\ s <= l /\ l >= 1
    BY <1>1, <1>5, <1>8, <1>9, <1>10, <1>11, SoundFacts
  <1>13. PICK last \in Nat : last = es[l].next /\ m < last /\ last <= e.next
    <2>1. LastEdit(m).next \in Nat /\ m < LastEdit(m).next
      BY <1>1, <1>5, <1>9, SoundFacts
    <2>2. LastEdit(m) = es[l]
      BY <1>8, <1>10, <1>12 DEF LastEdit
    <2> QED
      BY <1>7, <2>1, <2>2
  <1>14. PICK es2 \in Seq(Edits) :
           /\ es2 = Append(es, e) /\ Len(es2) = l + 1 /\ es2[l + 1] = e
           /\ \A k \in 1..l : es2[k] = es[k]
           /\ \A k \in 0..l : FilesAt(es2, k) = FilesAt(es, k)
           /\ FilesAt(es2, l + 1) = Applied(FilesAt(es, l), e)
    <2>1. PICK a : a = Append(es, e)
      OBVIOUS
    <2>2. /\ a \in Seq(Edits) /\ Len(a) = Len(es) + 1 /\ a[Len(es) + 1] = e
          /\ \A k \in 1..Len(es) : a[k] = es[k]
          /\ \A k \in 0..Len(es) : FilesAt(a, k) = FilesAt(es, k)
          /\ FilesAt(a, Len(es) + 1) = Applied(FilesAt(es, Len(es)), e)
      BY <2>1, FilesAppend
    <2> QED
      BY <1>12, <2>1, <2>2
  <1>15. PICK x \in Manifests : x = [edits |-> es2, synced |-> s]
    <2>1. [edits |-> es2, synced |-> s] \in Manifests
      BY DEF Manifests
    <2> QED
      BY <2>1
  <1>16. IsDirectory(manifests', Manifests) /\ m \in DOMAIN manifests' /\ manifests'[m] = x
    <2>1. PICK g : g = [f EXCEPT ![m] = x]
      OBVIOUS
    <2>2. IsDirectory(g, Manifests) /\ Changed(g, f, m, x)
      BY <1>8, <1>9, <2>1, ExceptFacts
    <2>3. f[m] = [edits |-> es, synced |-> s]
      <3>1. f[m] \in Manifests
        BY <1>8, <1>9 DEF IsDirectory
      <3> QED
        BY <1>10, <1>11, <3>1 DEF Manifests
    <2>4. x = [f[m] EXCEPT !.edits = Append(f[m].edits, e)]
      <3>1. PICK y : y = f[m] /\ y = [edits |-> es, synced |-> s]
        BY <2>3
      <3>2. [y EXCEPT !.edits = es2] = [edits |-> es2, synced |-> s]
        BY <3>1
      <3>3. Append(y.edits, e) = es2
        BY <1>14, <3>1
      <3> QED
        BY <1>15, <3>1, <3>2, <3>3
    <2>5. manifests' = g
      BY <1>4, <1>6, <1>8, <2>1, <2>4
    <2> QED
      BY <1>9, <2>2, <2>5 DEF Changed
  <1>17. \A t : Whole(t) => Whole(t)'
    BY <1>4 DEF Whole
  <1>18. LastEdit(m)' = e /\ LastFiles(m)' = FilesAt(es2, l + 1)
    BY <1>14, <1>15, <1>16 DEF LastEdit, LastFiles
  <1>19. FilesAt(es, l) \in SUBSET Nat /\ LastFiles(m) = FilesAt(es, l)
    <2>1. l \in 0..Len(es)
      BY <1>12
    <2>2. FilesAt(es, l) \in SUBSET Nat
      BY <2>1, FilesAtNumbers
    <2> QED
      BY <1>8, <1>10, <1>12, <2>2 DEF LastFiles
  <1>20. Sound(m)'
    <2>1. ASSUME NEW k \in s..(l + 1) PROVE Readable(es2, k, m)'
      <3>1. CASE k = l + 1
        <4>1. AllSet(es2[k]) /\ m < es2[k].next /\ es2[k].next <= es2[Len(es2)].next
          BY <1>7, <1>13, <1>14, <3>1
        <4>2. FilesAt(es2, k) = (FilesAt(es, l) \ e.del) \cup e.add
          BY <1>14, <1>19, <3>1, AppliedIs
        <4>3. \A t \in FilesAt(es, l) : t < e.next /\ Whole(t)
          <5>1. \A t \in Needed(m) : t < LastEdit(m).next /\ Whole(t)
            BY <1>1, <1>5, <1>9, SoundFacts
          <5>2. FilesAt(es, l) \subseteq Needed(m)
            BY <1>1, <1>5, <1>9, <1>19, SoundFacts
          <5>3. LastEdit(m).next = last
            BY <1>8, <1>10, <1>12, <1>13 DEF LastEdit
          <5>4. \A t \in FilesAt(es, l) : t \in Nat /\ t < last /\ Whole(t)
            BY <1>19, <5>1, <5>2, <5>3
          <5> QED
            BY <1>7, <1>13, <5>4
        <4>4. \A t \in FilesAt(es2, k) : t < es2[k].next /\ Whole(t)'
          BY <1>7, <1>14, <1>17, <3>1, <4>2, <4>3
        <4> QED
          BY <1>12, <3>1, <4>1, <4>4 DEF Readable
      <3>2. CASE k # l + 1
        <4>1. k \in s..l /\ k \in 0..l
          BY <1>12, <3>2
        <4>2. Readable(es, k, m)
          BY <1>5, <1>8, <1>9, <1>10, <1>11, <1>12, <4>1 DEF Sound
        <4>3. k \in 1..l
          BY <4>1, <4>2 DEF Readable
        <4>4. es2[k] = es[k] /\ es[k] \in Edits
          BY <1>12, <1>14, <4>3
        <4>5. es[k].next \in Nat /\ es[k].next <= last
          BY <1>12, <1>13, <4>2, <4>4 DEF Readable, AllSet, Edits, Fields
        <4>6. es2[k].next <= es2[Len(es2)].next
          BY <1>7, <1>13, <1>14, <4>4, <4>5
        <4>7. FilesAt(es2, k) = FilesAt(es, k)
          BY <1>14, <4>1
        <4> QED
          BY <1>17, <4>2, <4>4, <4>6, <4>7 DEF Readable
      <3> QED
        BY <3>1, <3>2
    <2>2. manifests'[m].edits = es2 /\ manifests'[m].synced = s /\ s <= Len(es2) /\ Len(es2) = l + 1
      BY <1>12, <1>14, <1>15, <1>16
    <2> QED
      BY <1>16, <2>1, <2>2 DEF Sound
  <1>21. /\ edit' \in Edits /\ edit' # None /\ edit'.logged = TRUE
         /\ edit'.add = e.add /\ edit'.del = e.del /\ edit'.next = e.next /\ AllSet(edit')
    <2>1. /\ edit' \in Edits /\ edit'.logged = TRUE
          /\ edit'.add = e.add /\ edit'.del = e.del /\ edit'.next = e.next /\ AllSet(edit')
      BY <1>4, <1>6, <1>7 DEF Edits, AllSet
    <2> QED
      BY <2>1, EditNotNone
  <1>22. TypeOK'
    BY <1>1, <1>4, <1>16, <1>21 DEF TypeOK
  <1>23. DiskSound'
    BY <1>4, <1>5, <1>20 DEF Inv, DiskSound
  <1>24. VersionsHeld'
    BY <1>4, <1>5, <1>6, <1>17, <1>21 DEF VersionsHeld
  <1>25. OutputsHeld'
    <2>1. \A t \in edit'.add : t < edit'.next /\ Whole(t)'
      BY <1>7, <1>17, <1>21
    <2>2. comp # None => /\ comp.outs \subseteq DOMAIN tables /\ comp.outs \subseteq pending
                         /\ \A t \in comp.outs : t < vset.next_file
                         /\ comp.done => flush = None
      BY <1>5 DEF OutputsHeld
    <2> QED
      BY <1>3, <1>4, <1>7, <1>21, <2>1, <2>2 DEF OutputsHeld
  <1>26. ManifestFollows'
    <2>1. ASSUME bg_ok PROVE LastFiles(m)' = Applied(CurrentFiles, edit')
      <3>1. LastFiles(m) = CurrentFiles
        BY <1>4, <1>5, <2>1 DEF ManifestFollows
      <3>2. PICK files \in SUBSET Nat : files = CurrentFiles /\ files = FilesAt(es, l)
        BY <1>19, <3>1
      <3>3. LastFiles(m)' = Applied(files, e)
        BY <1>14, <1>18, <3>2
      <3>4. Applied(files, e) = (files \ e.del) \cup e.add
        BY AppliedIs
      <3>5. Applied(files, edit') = (files \ e.del) \cup e.add
        BY <1>21, AppliedIs
      <3> QED
        BY <3>2, <3>3, <3>4, <3>5
    <2>2. CurrentFiles' = CurrentFiles
      BY <1>4 DEF CurrentFiles
    <2> QED
      BY <1>4, <1>5, <1>21, <2>1, <2>2 DEF ManifestFollows
  <1>27. ReferencesExact'
    BY <1>4, <1>5, <1>21 DEF ReferencesExact, Running
  <1>28. RunningSound'
    <2>1. LastEdit(current)'.next <= vset'.next_file
      BY <1>3, <1>4, <1>5, <1>7, <1>18
    <2> QED
      BY <1>2, <1>4, <1>5, <1>24, <1>25, <1>26, <1>27, <2>1 DEF RunningSound
  <1> QED
    BY <1>4, <1>22, <1>23, <1>28, UpKeeps

LEMMA CrashKeeps ==
  ASSUME Inv, Crash
  PROVE  Inv'
  <1>1. TypeOK
    BY DEF Inv
  <1>2. /\ phase' = "down" /\ vset' = NoVset /\ versions' = None
        /\ mem' = {} /\ imm' = {} /\ logfile' = 0 /\ todo' = {} /\ edit' = None
        /\ flush' = None /\ comp' = None /\ pending' = {} /\ bg_ok' = TRUE /\ reader' = 0
        /\ tables' = tables /\ current' = current /\ temps' = temps /\ written' = written
        /\ promised' = promised /\ opened' = opened /\ restarts' = restarts + 1 /\ faults' = faults
    BY DEF Crash, Forget
  <1>3. /\ DOMAIN manifests' = DOMAIN manifests
        /\ \A n \in DOMAIN manifests : manifests'[n] \in CutManifest(manifests[n])
    BY DEF Crash, Remains
  <1>4. /\ DOMAIN logs' = DOMAIN logs /\ logs' = [n \in DOMAIN logs |-> logs'[n]]
        /\ \A n \in DOMAIN logs : logs'[n] \in CutLog(logs[n])
    BY DEF Crash, Remains
  <1>5. manifests' = [n \in DOMAIN manifests |-> manifests'[n]]
    BY DEF Crash, Remains
  <1>6. IsDirectory(logs', LogFiles)
    <2>1. ASSUME NEW n \in DOMAIN logs PROVE logs'[n] \in LogFiles
      <3>1. PICK l : l = logs[n] /\ l \in LogFiles
        BY <1>1 DEF TypeOK, IsDirectory
      <3>2. PICK recs \in Seq(Writes) : recs = l.recs
        BY <3>1 DEF LogFiles
      <3>3. PICK s \in Nat : s = l.synced
        BY <3>1 DEF LogFiles
      <3>4. PICK k \in s..Len(recs) : logs'[n] = [recs |-> SubSeq(recs, 1, k), synced |-> k]
        BY <1>4, <3>1, <3>2, <3>3 DEF CutLog
      <3>5. k \in 0..Len(recs) /\ k \in Nat
        BY <3>3
      <3>6. SubSeq(recs, 1, k) \in Seq(Writes)
        BY <3>5, CutFacts
      <3> QED
        BY <3>4, <3>5, <3>6 DEF LogFiles
    <2>2. DOMAIN logs \subseteq Nat
      BY <1>1 DEF TypeOK, IsDirectory
    <2> QED
      BY <1>4, <2>1, <2>2 DEF IsDirectory
  \* What is left of a manifest is one of the forms it might be read in.
  <1>7. ASSUME NEW n \in DOMAIN manifests
        PROVE  manifests'[n] \in Manifests /\ (Sound(n) => Sound(n)')
    <2>1. PICK x : x = manifests[n] /\ x \in Manifests
      BY <1>1 DEF TypeOK, IsDirectory
    <2>2. PICK es \in Seq(Edits) : es = x.edits
      BY <2>1 DEF Manifests
    <2>3. PICK s \in Nat : s = x.synced
      BY <2>1 DEF Manifests
    <2>4. PICK k \in s..Len(es) : manifests'[n] = [edits |-> SubSeq(es, 1, k), synced |-> k]
      BY <1>3, <2>1, <2>2, <2>3 DEF CutManifest
    <2>5. k \in Nat /\ k \in 0..Len(es)
      BY <2>3
    <2>6. PICK cut \in Seq(Edits) : /\ cut = SubSeq(es, 1, k) /\ Len(cut) = k
                                    /\ \A i \in 1..k : cut[i] = es[i]
      <3>1. /\ SubSeq(es, 1, k) \in Seq(Edits) /\ Len(SubSeq(es, 1, k)) = k
            /\ \A i \in 1..k : SubSeq(es, 1, k)[i] = es[i]
        BY <2>5, CutFacts
      <3> QED
        BY <3>1
    <2>7. FilesAt(cut, k) = FilesAt(es, k)
      <3>1. k \in 0..k
        BY <2>5
      <3>2. \A i \in 0..k : FilesAt(SubSeq(es, 1, k), i) = FilesAt(es, i)
        BY <2>5, FilesCut
      <3> QED
        BY <2>6, <3>1, <3>2
    <2>8. manifests'[n] \in Manifests /\ manifests'[n].edits = cut /\ manifests'[n].synced = k
      BY <2>4, <2>5, <2>6 DEF Manifests
    <2>9. ASSUME Sound(n) PROVE Sound(n)'
      <3>1. Readable(es, k, n) \/ (k = 0 /\ ~opened)
        BY <2>1, <2>2, <2>3, <2>9 DEF Sound
      <3>2. ASSUME Readable(es, k, n) PROVE Readable(cut, k, n)'
        <4>1. k \in 1..k
          BY <2>5, <3>2 DEF Readable
        <4>2. cut[k] = es[k] /\ cut[Len(cut)] = cut[k] /\ es[k] \in Edits
          BY <2>5, <2>6, <4>1
        <4>3. cut[k].next <= cut[Len(cut)].next
          BY <3>2, <4>2 DEF Readable, AllSet, Edits, Fields
        <4> QED
          BY <1>2, <2>7, <3>2, <4>2, <4>3 DEF Readable, Whole
      <3>3. n \in DOMAIN manifests' /\ k <= Len(cut) /\ \A i \in k..Len(cut) : i = k
        BY <1>3, <2>5, <2>6
      <3> QED
        BY <1>2, <2>8, <3>1, <3>2, <3>3 DEF Sound
    <2> QED
      BY <2>8, <2>9
  <1>8. IsDirectory(manifests', Manifests)
    <2>1. DOMAIN manifests \subseteq Nat
      BY <1>1 DEF TypeOK, IsDirectory
    <2> QED
      BY <1>3, <1>5, <1>7, <2>1 DEF IsDirectory
  <1>9. TypeOK'
    <2>1. IsDirectory(None, VersionRecords)
      BY NoneFacts
    <2>2. vset' \in [next_file: Nat, manifest: Nat, log_number: Nat, last: Nat]
      BY <1>2 DEF NoVset
    <2>3. restarts' \in Nat
      BY <1>1, <1>2 DEF TypeOK
    <2> QED
      BY <1>1, <1>2, <1>6, <1>8, <2>1, <2>2, <2>3 DEF TypeOK, Early
  <1>10. Resting'
    BY <1>2 DEF Resting, Early, Up
  <1>11. PICK n : n = current
    OBVIOUS
  <1>12. n # 0 => Sound(n)'
    <2>1. n # 0 => Sound(n) /\ n \in DOMAIN manifests
      BY <1>11 DEF Inv, DiskSound, Sound
    <2> QED
      BY <1>7, <2>1
  <1> QED
    BY <1>2, <1>9, <1>10, <1>11, <1>12, BackDown DEF Inv

\* The versions after LogAndApply: the new one, without the compaction's
\* reference to its inputs if the edit is a compaction's.
LEMMA InstalledVersions ==
  ASSUME Inv, InstallVersion,
         NEW vs, vs = versions, NEW w, w = versions',
         NEW c \in DOMAIN vs, \A v \in DOMAIN vs : v <= c
  PROVE  /\ IsDirectory(w, VersionRecords) /\ c + 1 \in DOMAIN w /\ CurrentVersion(w) = c + 1
         /\ w[c + 1].files = Applied(CurrentFiles, edit)
         /\ CurrentVersion(vs) = c /\ 0 \notin DOMAIN w
         /\ \A u \in DOMAIN w : /\ u <= c + 1
                                /\ u # c + 1 => u \in DOMAIN vs /\ w[u].files = vs[u].files
                                /\ w[u].refs = (IF u = c + 1 THEN 1 ELSE 0) + (IF u = reader THEN 1 ELSE 0)
                                     + (IF flush # None /\ comp # None /\ u = comp.v THEN 1 ELSE 0)
         /\ reader # 0 => reader \in DOMAIN w
         /\ flush # None /\ comp # None => comp.v \in DOMAIN w /\ comp.v # c + 1
  <1>1. TypeOK
    BY DEF Inv
  <1>2. phase \in Up /\ edit # None /\ edit \in Edits
    BY <1>1 DEF InstallVersion, Running, Up, TypeOK
  <1>3. VersionsHeld /\ OutputsHeld /\ ReferencesExact
    BY <1>2 DEF Inv, RunningSound
  <1>4. IsDirectory(vs, VersionRecords)
    BY <1>1 DEF TypeOK
  <1>5. CurrentVersion(vs) = c /\ c \in Nat
    BY <1>4, CurrentIs DEF IsDirectory
  <1>6. PICK d \in Nat : d = c + 1 /\ d # 0
    BY <1>5
  <1>7. CurrentFiles = vs[c].files /\ CurrentFiles \in SUBSET Nat
    BY <1>4, <1>5 DEF CurrentFiles, IsDirectory, VersionRecords
  <1>8. PICK files \in SUBSET Nat : files = Applied(CurrentFiles, edit)
    <2>1. edit.add \in SUBSET Nat
      BY <1>2 DEF Edits
    <2>2. Applied(CurrentFiles, edit) = (CurrentFiles \ edit.del) \cup edit.add
      BY <1>2, <1>7, AppliedIs
    <2> QED
      BY <1>7, <2>1, <2>2
  <1>9. ASSUME NEW v \in DOMAIN vs
        PROVE  vs[v].refs = (IF v = c THEN 1 ELSE 0) + (IF v = reader THEN 1 ELSE 0)
                            + (IF comp # None /\ v = comp.v THEN 1 ELSE 0) + 0
    BY <1>2, <1>3, <1>5 DEF ReferencesExact, Running, Up
  <1>10. 0 \notin DOMAIN vs /\ (reader # 0 => reader \in DOMAIN vs) /\ (comp # None => comp.v \in DOMAIN vs)
    BY <1>3 DEF VersionsHeld
  <1>11. PICK x : x = AppendVersion(vs, files) /\ Follows(x, vs, c, files)
    <2>1. vs[c].refs >= 1
      BY <1>9
    <2> QED
      BY <1>4, <2>1, NextVersion
  <1>12. /\ IsDirectory(x, VersionRecords)
         /\ DOMAIN x = (IF vs[c].refs = 1 THEN DOMAIN vs \ {c} ELSE DOMAIN vs) \cup {d}
         /\ d \in DOMAIN x /\ x[d].files = files /\ x[d].refs = 1
         /\ \A u \in DOMAIN x : u # d =>
              /\ u \in DOMAIN vs /\ x[u].files = vs[u].files
              /\ x[u].refs = IF u = c THEN vs[u].refs - 1 ELSE vs[u].refs
         /\ d \notin DOMAIN vs /\ \A u \in DOMAIN x : u <= d
         /\ CurrentVersion(x) = d
    BY <1>6, <1>11 DEF Follows
  \* A version with a user stays.
  <1>13. ASSUME NEW v \in DOMAIN vs, v # c \/ vs[c].refs # 1 PROVE v \in DOMAIN x
    BY <1>12, <1>13
  <1>14. reader # 0 => reader \in DOMAIN x
    <2>1. reader # 0 => reader # c \/ vs[c].refs # 1
      BY <1>9
    <2> QED
      BY <1>10, <1>13, <2>1
  <1>15. comp # None => comp.v \in DOMAIN x /\ comp.v # d
    <2>1. comp # None => comp.v # c \/ vs[c].refs # 1
      BY <1>9
    <2> QED
      BY <1>10, <1>12, <1>13, <2>1
  <1>16. ASSUME NEW u \in DOMAIN x
         PROVE  x[u].refs = (IF u = d THEN 1 ELSE 0) + (IF u = reader THEN 1 ELSE 0)
                            + (IF comp # None /\ u = comp.v THEN 1 ELSE 0)
    <2>1. CASE u = d
      <3>1. u # reader /\ ~(comp # None /\ u = comp.v)
        BY <1>6, <1>10, <1>12, <2>1
      <3> QED
        BY <1>12, <2>1, <3>1
    <2>2. CASE u # d
      <3>1. u \in DOMAIN vs /\ x[u].refs = IF u = c THEN vs[u].refs - 1 ELSE vs[u].refs
        BY <1>12, <2>2
      <3> QED
        BY <1>9, <2>2, <3>1
    <2> QED
      BY <2>1, <2>2
  <1>17. CASE flush # None
    <2>1. w = x
      BY <1>8, <1>11, <1>17 DEF InstallVersion
    <2>2. 0 \notin DOMAIN w
      BY <1>6, <1>10, <1>12, <2>1
    <2> QED
      BY <1>5, <1>6, <1>8, <1>12, <1>14, <1>15, <1>16, <1>17, <2>1, <2>2
  <1>18. CASE flush = None
    <2>1. comp # None
      BY <1>2, <1>3, <1>18 DEF OutputsHeld
    <2>2. PICK r \in DOMAIN x : r = comp.v /\ r # d
      BY <1>15, <2>1
    <2>3. w = Unref(x, r)
      BY <1>8, <1>11, <1>18, <2>2 DEF InstallVersion
    <2>4. x[r].refs >= 1
      BY <1>16, <2>1, <2>2
    <2>5. Dropped(w, x, r)
      BY <1>12, <2>3, <2>4, UnrefFacts
    <2>6. /\ d \in DOMAIN w /\ CurrentVersion(w) = d /\ w[d].files = files
          /\ DOMAIN w \subseteq DOMAIN x /\ \A u \in DOMAIN w : u <= d
      <3>1. r = d => x[r].refs >= 2
        BY <2>2
      <3>2. IsDirectory(x, VersionRecords) /\ d \in DOMAIN x /\ \A u \in DOMAIN x : u <= d
        BY <1>12
      <3>3. /\ d \in DOMAIN w /\ CurrentVersion(w) = d /\ w[d].files = x[d].files
            /\ DOMAIN w \subseteq DOMAIN x /\ \A u \in DOMAIN w : u <= d
        BY <2>5, <3>1, <3>2, DroppedCurrent
      <3> QED
        BY <1>12, <3>3
    <2>7. ASSUME NEW u \in DOMAIN w
          PROVE  /\ u # d => u \in DOMAIN vs /\ w[u].files = vs[u].files
                 /\ w[u].refs = (IF u = d THEN 1 ELSE 0) + (IF u = reader THEN 1 ELSE 0) + 0
      <3>1. u \in DOMAIN x /\ w[u].files = x[u].files
        BY <2>5, <2>6 DEF Dropped
      <3>2. w[u].refs = IF u = r THEN x[u].refs - 1 ELSE x[u].refs
        BY <2>5 DEF Dropped
      <3>3. w[u].refs = (IF u = d THEN 1 ELSE 0) + (IF u = reader THEN 1 ELSE 0) + 0
        BY <1>16, <2>1, <2>2, <3>1, <3>2
      <3> QED
        BY <1>12, <3>1, <3>3
    <2>8. reader # 0 => reader \in DOMAIN w
      <3>1. reader # 0 => reader # r \/ x[reader].refs # 1
        BY <1>14, <1>16, <2>1, <2>2
      <3> QED
        BY <1>14, <2>5, <3>1 DEF Dropped
    <2>9. IsDirectory(w, VersionRecords)
      BY <2>5 DEF Dropped
    <2>10. 0 \notin DOMAIN w
      BY <1>6, <1>10, <1>12, <2>6
    <2> QED
      BY <1>5, <1>6, <1>8, <1>18, <2>6, <2>7, <2>8, <2>9, <2>10
  <1> QED
    BY <1>17, <1>18

LEMMA InstallVersionKeeps ==
  ASSUME Inv, InstallVersion
  PROVE  Inv'
  <1>1. TypeOK
    BY DEF Inv
  <1>2. PICK m \in Nat : m = vset.manifest
    BY <1>1 DEF TypeOK
  <1>3. PICK next \in Nat : next = vset.next_file
    BY <1>1 DEF TypeOK
  <1>4. PICK f : f = manifests /\ IsDirectory(f, Manifests)
    BY <1>1 DEF TypeOK
  <1>5. PICK synced : synced = [f EXCEPT ![m].synced = Len(f[m].edits)]
    OBVIOUS
  <1>6. /\ phase \in Up /\ phase' = phase /\ edit # None /\ edit.logged /\ edit' = None
        /\ flush' = None /\ (flush = None => comp' = None) /\ (flush # None => comp' = comp)
        /\ imm' = {} \/ imm' = imm
        /\ pending' = IF flush # None THEN pending ELSE pending \ comp.outs
        /\ vset' = [vset EXCEPT !.log_number = edit.log]
        /\ tables' = IF bg_ok THEN Restrict1(tables, Live(versions', pending')) ELSE tables
        /\ logs' = IF bg_ok THEN KeptLogs(logs, edit.log) ELSE logs
        /\ manifests' = IF bg_ok THEN Restrict1(synced, {n \in DOMAIN synced : n >= m}) ELSE synced
        /\ temps' = IF bg_ok THEN temps \cap Live(versions', pending') ELSE temps
        /\ current' = current /\ mem' = mem /\ logfile' = logfile
        /\ todo' = todo /\ bg_ok' = bg_ok /\ reader' = reader /\ written' = written
        /\ promised' = promised /\ opened' = opened /\ restarts' = restarts /\ faults' = faults
    BY <1>2, <1>4, <1>5 DEF InstallVersion, DeleteObsoleteFiles, Running, Up, history
  <1>7. /\ opened /\ current = m /\ LastEdit(m).next <= next
        /\ VersionsHeld /\ OutputsHeld /\ ManifestFollows /\ ReferencesExact
        /\ phase = "closing" => reader = 0
    BY <1>2, <1>3, <1>6 DEF Inv, RunningSound
  <1>8. PICK vs : vs = versions /\ IsDirectory(vs, VersionRecords)
    BY <1>1 DEF TypeOK
  <1>9. PICK c \in DOMAIN vs : \A v \in DOMAIN vs : v <= c
    BY <1>7, <1>8 DEF VersionsHeld
  <1>10. PICK w : w = versions'
    OBVIOUS
  <1>11. PICK d : d = c + 1
    OBVIOUS
  <1>12. PICK files : files = Applied(CurrentFiles, edit)
    OBVIOUS
  <1>13. /\ IsDirectory(w, VersionRecords) /\ d \in DOMAIN w /\ CurrentVersion(w) = d
         /\ w[d].files = files
         /\ CurrentVersion(vs) = c /\ 0 \notin DOMAIN w
         /\ \A u \in DOMAIN w : /\ u <= d
                                /\ u # d => u \in DOMAIN vs /\ w[u].files = vs[u].files
                                /\ w[u].refs = (IF u = d THEN 1 ELSE 0) + (IF u = reader THEN 1 ELSE 0)
                                     + (IF flush # None /\ comp # None /\ u = comp.v THEN 1 ELSE 0)
         /\ reader # 0 => reader \in DOMAIN w
         /\ flush # None /\ comp # None => comp.v \in DOMAIN w /\ comp.v # d
    BY <1>8, <1>9, <1>10, <1>11, <1>12, InstalledVersions
  <1>14. edit \in Edits /\ AllSet(edit) /\ edit.log \in Nat
    <2>1. edit \in Edits /\ AllSet(edit)
      BY <1>1, <1>6, <1>7 DEF TypeOK, OutputsHeld
    <2> QED
      BY <2>1 DEF Edits, Fields, AllSet
  \* What the new version holds.
  <1>15. \A u \in files : u < next /\ Whole(u)
    <2>1. /\ CurrentFiles \in SUBSET Nat
          /\ \A u \in CurrentFiles : u < next /\ Whole(u)
      BY <1>3, <1>7, <1>8, <1>9, <1>13 DEF CurrentFiles, VersionsHeld, IsDirectory, VersionRecords
    <2>2. files = (CurrentFiles \ edit.del) \cup edit.add
      BY <1>12, <1>14, <2>1, AppliedIs
    <2>3. edit.add \in SUBSET Nat /\ edit.next \in Nat
      BY <1>14 DEF Edits, Fields, AllSet
    <2>4. edit.next <= next /\ \A u \in edit.add : u < edit.next /\ Whole(u)
      BY <1>3, <1>6, <1>7 DEF OutputsHeld
    <2>5. \A u \in edit.add : u < next
      BY <2>3, <2>4
    <2> QED
      BY <2>1, <2>2, <2>4, <2>5
  <1>16. \A v \in DOMAIN w : \A u \in w[v].files : u < next /\ Whole(u)
    <2>1. \A v \in DOMAIN vs : \A u \in vs[v].files : u < next /\ Whole(u)
      BY <1>3, <1>7, <1>8 DEF VersionsHeld
    <2> QED
      BY <1>13, <1>15, <2>1
  \* What is deleted is in no version and no output.
  <1>17. PICK live : live = Live(w, pending')
    OBVIOUS
  <1>18. /\ \A v \in DOMAIN w : w[v].files \subseteq live
         /\ files \subseteq live /\ pending' \subseteq live
    BY <1>13, <1>17 DEF Live, AddLiveFiles
  <1>19. /\ IsDirectory(tables', TableFiles)
         /\ \A u \in live : (Whole(u) => Whole(u)') /\ (u \in DOMAIN tables => u \in DOMAIN tables')
         /\ ~bg_ok => \A u : Whole(u) => Whole(u)'
    <2>1. PICK g : g = tables /\ IsDirectory(g, TableFiles)
      BY <1>1 DEF TypeOK
    <2>2. CASE ~bg_ok
      BY <1>6, <2>1, <2>2 DEF Whole
    <2>3. CASE bg_ok
      <3>1. PICK h : h = Restrict1(g, live)
        OBVIOUS
      <3>2. IsDirectory(h, TableFiles) /\ Kept(h, g, DOMAIN g \cap live)
        BY <2>1, <3>1, RestrictFacts
      <3>3. tables' = h
        BY <1>6, <1>10, <1>17, <2>1, <2>3, <3>1
      <3> QED
        BY <2>1, <2>3, <3>2, <3>3 DEF Whole, Kept
    <2> QED
      BY <2>2, <2>3
  <1>20. Sound(m) /\ m \in DOMAIN f
    BY <1>4, <1>7 DEF Inv, DiskSound, Sound
  <1>21. PICK es \in Seq(Edits) : es = f[m].edits
    BY <1>1, <1>4, <1>20, SoundFacts
  <1>22. PICK l \in Nat : l = Len(es) /\ l >= 1
    BY <1>1, <1>4, <1>7, <1>20, <1>21, SoundFacts
  <1>23. PICK x \in Manifests : x = [edits |-> es, synced |-> l]
    <2>1. [edits |-> es, synced |-> l] \in Manifests
      BY DEF Manifests
    <2> QED
      BY <2>1
  <1>24. IsDirectory(synced, Manifests) /\ m \in DOMAIN synced /\ synced[m] = x
    <2>1. PICK g : g = [f EXCEPT ![m] = x]
      OBVIOUS
    <2>2. IsDirectory(g, Manifests) /\ Changed(g, f, m, x)
      BY <1>4, <1>20, <2>1, ExceptFacts
    <2>3. PICK y : y = f[m] /\ y \in Manifests /\ y.edits = es
      BY <1>4, <1>20, <1>21 DEF IsDirectory
    <2>4. [y EXCEPT !.synced = l] = [edits |-> es, synced |-> l]
      BY <2>3 DEF Manifests
    <2>5. synced = g
      BY <1>5, <1>22, <1>23, <2>1, <2>3, <2>4
    <2> QED
      BY <1>20, <2>2, <2>5 DEF Changed
  <1>25. IsDirectory(manifests', Manifests) /\ m \in DOMAIN manifests' /\ manifests'[m] = x
    <2>1. CASE ~bg_ok
      BY <1>6, <1>24, <2>1
    <2>2. CASE bg_ok
      <3>1. PICK T : T = {n \in DOMAIN synced : n >= m}
        OBVIOUS
      <3>2. PICK g : g = Restrict1(synced, T)
        OBVIOUS
      <3>3. IsDirectory(g, Manifests) /\ Kept(g, synced, DOMAIN synced \cap T)
        BY <1>24, <3>2, RestrictFacts
      <3>4. manifests' = g
        BY <1>6, <2>2, <3>1, <3>2
      <3>5. m \in DOMAIN synced \cap T
        BY <1>24, <3>1
      <3> QED
        BY <1>24, <3>3, <3>4, <3>5 DEF Kept
    <2> QED
      BY <2>1, <2>2
  <1>26. /\ LastEdit(m)' = LastEdit(m) /\ LastFiles(m)' = LastFiles(m)
         /\ LastFiles(m) = FilesAt(es, l)
    <2>1. manifests'[m].edits = es /\ manifests[m].edits = es
      BY <1>4, <1>21, <1>23, <1>25
    <2> QED
      BY <1>22, <2>1 DEF LastEdit, LastFiles
  <1>27. bg_ok => LastFiles(m) = files
    BY <1>6, <1>7, <1>12 DEF ManifestFollows
  <1>28. Sound(m)'
    <2>1. Readable(es, l, m)
      <3>1. manifests[m].synced \in Nat /\ manifests[m].synced <= Len(es)
        BY <1>1, <1>4, <1>20, <1>21, SoundFacts
      <3>2. l \in manifests[m].synced..Len(es)
        BY <1>22, <3>1
      <3> QED
        BY <1>4, <1>7, <1>20, <1>21, <1>22, <3>2 DEF Sound
    <2>2. \A u \in FilesAt(es, l) : Whole(u) => Whole(u)'
      BY <1>18, <1>19, <1>26, <1>27
    <2>3. Readable(es, l, m)'
      BY <2>1, <2>2 DEF Readable
    <2>4. /\ manifests'[m].edits = es /\ manifests'[m].synced = l
          /\ l <= Len(es) /\ \A k \in l..Len(es) : k = l
      BY <1>22, <1>23, <1>25
    <2> QED
      BY <1>25, <2>3, <2>4 DEF Sound
  <1>29. IsDirectory(logs', LogFiles)
    <2>1. PICK g : g = logs /\ IsDirectory(g, LogFiles)
      BY <1>1 DEF TypeOK
    <2>2. PICK T : T = {n \in DOMAIN g : n >= edit.log}
      OBVIOUS
    <2>3. IsDirectory(Restrict1(g, T), LogFiles)
      BY <2>1, RestrictFacts
    <2> QED
      BY <1>6, <2>1, <2>2, <2>3 DEF KeptLogs
  <1>30. /\ vset' \in [next_file: Nat, manifest: Nat, log_number: Nat, last: Nat]
         /\ vset'.next_file = next /\ vset'.manifest = m
    BY <1>1, <1>2, <1>3, <1>6, <1>14 DEF TypeOK
  <1>31. TypeOK'
    <2>1. temps' \in SUBSET Nat
      BY <1>1, <1>6 DEF TypeOK
    <2>2. pending' \in SUBSET Nat
      BY <1>1, <1>6 DEF TypeOK
    <2>3. imm' \in SUBSET (SUBSET Writes)
      BY <1>1, <1>6 DEF TypeOK
    <2>4. comp' = None \/ comp' \in [v: Nat, inputs: SUBSET Nat, outs: SUBSET Nat, done: BOOLEAN]
      BY <1>1, <1>6 DEF TypeOK
    <2> QED
      BY <1>1, <1>6, <1>10, <1>13, <1>19, <1>25, <1>29, <1>30, <2>1, <2>2, <2>3, <2>4 DEF TypeOK
  <1>32. DiskSound'
    BY <1>6, <1>7, <1>28 DEF Inv, DiskSound
  <1>33. VersionsHeld'
    <2>1. comp' # None => comp'.v \in DOMAIN w /\ comp'.inputs = w[comp'.v].files
      BY <1>6, <1>7, <1>8, <1>13 DEF VersionsHeld
    <2>2. \A v \in DOMAIN w : \A u \in w[v].files : u < next /\ Whole(u)'
      BY <1>16, <1>18, <1>19
    <2> QED
      BY <1>6, <1>10, <1>13, <1>30, <2>1, <2>2 DEF VersionsHeld
  <1>34. OutputsHeld'
    <2>1. ASSUME comp' # None
          PROVE  /\ comp'.outs \subseteq DOMAIN tables' /\ comp'.outs \subseteq pending'
                 /\ \A u \in comp'.outs : u < next
                 /\ ~comp'.done
      <3>1. flush # None /\ comp' = comp /\ pending' = pending
        BY <1>6, <2>1
      <3>2. /\ comp.outs \subseteq DOMAIN tables /\ comp.outs \subseteq pending
            /\ \A u \in comp.outs : u < next
            /\ ~comp.done
        BY <1>3, <1>7, <2>1, <3>1 DEF OutputsHeld
      <3>3. comp.outs \subseteq live
        BY <1>18, <3>1, <3>2
      <3> QED
        BY <1>19, <3>1, <3>2, <3>3
    <2> QED
      BY <1>6, <1>30, <2>1 DEF OutputsHeld
  <1>35. ManifestFollows'
    <2>1. CurrentFiles' = files
      BY <1>10, <1>13 DEF CurrentFiles
    <2> QED
      BY <1>6, <1>7, <1>26, <1>27, <2>1 DEF ManifestFollows
  <1>36. ReferencesExact'
    <2>1. ASSUME NEW v \in DOMAIN w
          PROVE  w[v].refs = (IF v = d THEN 1 ELSE 0) + (IF v = reader THEN 1 ELSE 0)
                             + (IF comp' # None /\ v = comp'.v THEN 1 ELSE 0) + 0
      <3>1. (comp' # None /\ v = comp'.v) <=> (flush # None /\ comp # None /\ v = comp.v)
        BY <1>6
      <3> QED
        BY <1>13, <3>1
    <2> QED
      BY <1>6, <1>10, <1>13, <2>1 DEF ReferencesExact
  <1>37. RunningSound'
    BY <1>6, <1>7, <1>26, <1>30, <1>33, <1>34, <1>35, <1>36 DEF RunningSound
  <1> QED
    BY <1>6, <1>31, <1>32, <1>37, UpKeeps

-----------------------------------------------------------------------------
(***************************************************************************)
(* The theorems.                                                           *)
(***************************************************************************)

LEMMA StepsKeep ==
  ASSUME Inv, Steps
  PROVE  Inv'
  <1>1. CASE Open BY <1>1, OpenKeeps
  <1>2. CASE NewDB BY <1>2, NewDBKeeps
  <1>3. CASE WriteTempFile BY <1>3, WriteTempFileKeeps
  <1>4. CASE RenameTempFile BY <1>4, RenameTempFileKeeps
  <1>5. CASE SetCurrentFileFails BY <1>5, SetCurrentFileFailsKeeps
  <1>6. CASE Recover BY <1>6, RecoverKeeps
  <1>7. CASE RecoverLogFile BY <1>7, RecoverLogFileKeeps
  <1>8. CASE NewLog BY <1>8, NewLogKeeps
  <1>9. CASE WriteSnapshot BY <1>9, WriteSnapshotKeeps
  <1>10. CASE WriteFirstEdit BY <1>10, WriteFirstEditKeeps
  <1>11. CASE InstallFirst BY <1>11, InstallFirstKeeps
  <1>12. CASE Write(TRUE) BY <1>12, WriteKeeps
  <1>13. CASE Write(FALSE) BY <1>13, WriteKeeps
  <1>14. CASE SwitchMemTable BY <1>14, SwitchMemTableKeeps
  <1>15. CASE NewIterator BY <1>15, NewIteratorKeeps
  <1>16. CASE CleanupIteratorState BY <1>16, CleanupIteratorStateKeeps
  <1>17. CASE WriteLevel0Table BY <1>17, WriteLevel0TableKeeps
  <1>18. CASE BuildTable BY <1>18, BuildTableKeeps
  <1>19. CASE StartCompaction BY <1>19, StartCompactionKeeps
  <1>20. CASE OpenCompactionOutputFile BY <1>20, OpenCompactionOutputFileKeeps
  <1>21. CASE FinishCompactionOutputFile BY <1>21, FinishCompactionOutputFileKeeps
  <1>22. CASE LogEdit BY <1>22, LogEditKeeps
  <1>23. CASE InstallVersion BY <1>23, InstallVersionKeeps
  <1>24. CASE LogAndApplyFails BY <1>24, LogAndApplyFailsKeeps
  <1>25. CASE CloseDone BY <1>25, CloseDoneKeeps
  <1> QED
    BY <1>1, <1>2, <1>3, <1>4, <1>5, <1>6, <1>7, <1>8, <1>9, <1>10, <1>11, <1>12, <1>13,
       <1>14, <1>15, <1>16, <1>17, <1>18, <1>19, <1>20, <1>21, <1>22, <1>23, <1>24, <1>25
       DEF Steps

LEMMA StutterKeeps ==
  ASSUME Inv, UNCHANGED vars
  PROVE  Inv'
  <1>1. /\ logs' = logs /\ tables' = tables /\ manifests' = manifests /\ current' = current
        /\ temps' = temps /\ phase' = phase /\ vset' = vset /\ versions' = versions
        /\ mem' = mem /\ imm' = imm /\ logfile' = logfile /\ todo' = todo /\ edit' = edit
        /\ flush' = flush /\ comp' = comp /\ pending' = pending /\ bg_ok' = bg_ok
        /\ reader' = reader /\ written' = written /\ promised' = promised
        /\ opened' = opened /\ restarts' = restarts /\ faults' = faults
    BY DEF vars
  <1>2. PICK c, m : c = current /\ m = vset.manifest
    OBVIOUS
  <1>3. /\ \A t : Whole(t)' = Whole(t)
        /\ Sound(c)' = Sound(c) /\ Sound(m)' = Sound(m) /\ Sound(1)' = Sound(1)
        /\ LastEdit(c)' = LastEdit(c) /\ LastEdit(m)' = LastEdit(m)
        /\ LastFiles(c)' = LastFiles(c) /\ LastFiles(m)' = LastFiles(m)
        /\ CurrentFiles' = CurrentFiles
    BY <1>1 DEF Whole, Sound, Readable, LastEdit, LastFiles, CurrentFiles
  <1>4. TypeOK'
    BY <1>1 DEF Inv, TypeOK
  <1>5. DiskSound' /\ Resting'
    BY <1>1, <1>2, <1>3 DEF Inv, DiskSound, Resting
  <1>6. OpeningSound'
    BY <1>1, <1>2, <1>3 DEF Inv, OpeningSound
  <1>7. RunningSound'
    <2>1. CASE phase \notin Up
      BY <1>1, <2>1 DEF RunningSound
    <2>2. CASE phase \in Up
      <3>1. /\ opened /\ current = vset.manifest
            /\ LastEdit(current).next <= vset.next_file
            /\ VersionsHeld /\ OutputsHeld /\ ManifestFollows /\ ReferencesExact
            /\ phase = "closing" => reader = 0
        BY <2>2 DEF Inv, RunningSound
      <3>2. VersionsHeld' /\ OutputsHeld'
        BY <1>1, <1>2, <1>3, <3>1 DEF VersionsHeld, OutputsHeld
      <3>3. ManifestFollows' /\ ReferencesExact'
        BY <1>1, <1>2, <1>3, <3>1 DEF ManifestFollows, ReferencesExact, Running
      <3> QED
        BY <1>1, <1>2, <1>3, <3>1, <3>2, <3>3 DEF RunningSound
    <2> QED
      BY <2>1, <2>2
  <1> QED
    BY <1>4, <1>5, <1>6, <1>7 DEF Inv

\* The database's files, its versions and what its manifest says agree in every
\* state: while DBImpl::Recover, LogAndApply and the background thread write
\* them, after any of these failed, and after a crash between any two steps.
THEOREM DatabaseConsistent == Spec => []Inv
  <1>1. Init => Inv
    BY InvInit
  <1>2. Inv /\ [Next]_vars => Inv'
    <2> SUFFICES ASSUME Inv, [Next]_vars PROVE Inv'
      OBVIOUS
    <2>1. CASE Steps
      BY <2>1, StepsKeep
    <2>2. CASE Close
      BY <2>2, CloseKeeps
    <2>3. CASE Crash
      BY <2>3, CrashKeeps
    <2>4. CASE UNCHANGED vars
      BY <2>4, StutterKeeps
    <2> QED
      BY <2>1, <2>2, <2>3, <2>4 DEF Next
  <1> QED
    BY <1>1, <1>2, PTL DEF Spec

\* The tables of a version that an iterator, a compaction or a flush still
\* references are on disk, complete, whatever DeleteObsoleteFiles removed, and
\* Version::Ref and Unref are called in pairs.
THEOREM ReferencedFilesStay == Spec => []VersionsSound
  <1>1. Inv => VersionsSound
    <2> SUFFICES ASSUME Inv PROVE VersionsSound
      OBVIOUS
    <2>1. phase \in Early \cup Opening \cup Up
      BY DEF Inv, TypeOK
    <2>2. CASE phase \in Early
      <3>1. versions = None /\ DOMAIN versions = {} /\ ~Running
        BY <2>2, NoneFacts DEF Inv, Resting, Early, Running
      <3> QED
        BY <3>1 DEF VersionsSound, LiveFilesOnDisk, ReferencesExact
    <2>3. CASE phase \in Opening
      <3>1. DOMAIN versions = {1} /\ \A t \in versions[1].files : Whole(t)
        BY <2>3 DEF Inv, OpeningSound
      <3>2. ~Running
        BY <2>3 DEF Running, Opening, Written
      <3> QED
        BY <3>1, <3>2 DEF VersionsSound, LiveFilesOnDisk, ReferencesExact, Whole
    <2>4. CASE phase \in Up
      <3>1. ReferencesExact /\ \A v \in DOMAIN versions : \A t \in versions[v].files : Whole(t)
        BY <2>4 DEF Inv, RunningSound, VersionsHeld
      <3> QED
        BY <3>1 DEF VersionsSound, LiveFilesOnDisk, Whole
    <2> QED
      BY <2>1, <2>2, <2>3, <2>4
  <1> QED
    BY <1>1, DatabaseConsistent, PTL

\* Once DB::Open succeeded no crash, failed write or failed open leaves a
\* database that VersionSet::Recover or DBImpl::Recover finds corrupt.
THEOREM OpensAgain == Spec => []CanBeOpened
  <1>1. Inv => CanBeOpened
    BY DEF Inv, DiskSound, CanBeOpened
  <1> QED
    BY <1>1, DatabaseConsistent, PTL

-----------------------------------------------------------------------------
(***************************************************************************)
(* Sequence numbers: the invariant.                                        *)
(***************************************************************************)

Unique(K) == \A a, b \in K : a[1] = b[1] => a = b
UpTo(S, n) == \A a \in S : a[1] <= n
RecordsOf(l) == {l.recs[i] : i \in 1..Len(l.recs)}
Holds(t, K, n) == tables[t].data \subseteq K /\ UpTo(tables[t].data, n)

\* K has whatever opening finds if k edits are left of a manifest, and the
\* LastSequence it finds is not behind the tables.
Covers(edits, k, K) ==
  /\ \A t \in FilesAt(edits, k) : Holds(t, K, edits[k].last)
  /\ \A l \in DOMAIN logs : l >= edits[k].log => RecordsOf(logs[l]) \subseteq K

\* ... whatever a crash leaves of manifest n.
Numbered(n) ==
  \A k \in manifests[n].synced..Len(manifests[n].edits) :
    k >= 1 => \E K \in SUBSET Writes : Unique(K) /\ Covers(manifests[n].edits, k, K)

\* What is being opened, and what is not replayed yet, is of K.
OpeningFrom(K) ==
  /\ \A t \in versions[1].files \cup edit.add : Holds(t, K, vset.last)
  /\ phase = "replay" =>
       /\ \A l \in todo : RecordsOf(logs[l]) \subseteq K
       /\ \A l \in DOMAIN logs : l \in todo \/ l < vset.next_file
  /\ phase # "replay" =>
       /\ edit.last = vset.last
       /\ \A l \in DOMAIN logs : l >= edit.log => RecordsOf(logs[l]) = {}
  /\ phase \in Written =>
       Numbered(vset.manifest) /\ LastEdit(vset.manifest).last = vset.last

\* What is in memory and on disk while the database is open is of K.
MemoryOf(K) == UpTo(K, vset.last) /\ mem \subseteq K /\ UNION imm \subseteq K
LogsOf(K) == \A l \in DOMAIN logs : RecordsOf(logs[l]) \subseteq K
VersionsOf(K) == \A v \in DOMAIN versions : \A t \in versions[v].files : tables[t].data \subseteq K
ManifestOf(K) ==
  /\ LastEdit(current).last <= vset.last
  /\ \A k \in manifests[current].synced..Len(manifests[current].edits) :
       \A t \in FilesAt(manifests[current].edits, k) : Holds(t, K, manifests[current].edits[k].last)
EditOf(K) ==
  edit # None =>
    /\ \A t \in edit.add : Holds(t, K, edit.last)
    /\ edit.last <= vset.last
    /\ ~edit.logged => LastEdit(current).last <= edit.last

\* What a compaction is still writing is not in the manifest nor on its way there.
OutputsApart ==
  Merging => \A t \in comp.outs : t \notin Needed(current) /\ (edit # None => t \notin edit.add)

RunningOn(K) == MemoryOf(K) /\ LogsOf(K) /\ VersionsOf(K) /\ ManifestOf(K) /\ EditOf(K) /\ OutputsApart

NumbersInv ==
  /\ current = 0 => DOMAIN logs = {}
  /\ current # 0 => Numbered(current)
  /\ phase \in {"new_temp", "new_rename"} => Numbered(1)
  /\ phase \notin Up => mem = {} /\ imm = {}
  /\ phase \in Opening => \E K \in SUBSET Writes : Unique(K) /\ OpeningFrom(K)
  /\ phase \in Up => \E K \in SUBSET Writes : Unique(K) /\ RunningOn(K)

-----------------------------------------------------------------------------
(***************************************************************************)
(* Steps that leave what a manifest needs.                                 *)
(***************************************************************************)

\* The logs g are f, with records less or new logs that are empty.
Fewer(g, f) ==
  \A l \in DOMAIN g : \/ RecordsOf(g[l]) = {}
                      \/ l \in DOMAIN f /\ RecordsOf(g[l]) \subseteq RecordsOf(f[l])

LEMMA FewerSame == \A f : Fewer(f, f)
  BY DEF Fewer

LEMMA NumberedKeeps ==
  ASSUME NEW n, Numbered(n), manifests'[n] = manifests[n], Fewer(logs', logs),
         \A t \in Needed(n) : tables'[t].data = tables[t].data
  PROVE  Numbered(n)'
  <1>1. PICK es, s : es = manifests[n].edits /\ s = manifests[n].synced
    OBVIOUS
  <1>2. ASSUME NEW k \in s..Len(es), k >= 1
        PROVE  \E K \in SUBSET Writes : Unique(K) /\ Covers(es, k, K)'
    <2>1. PICK K \in SUBSET Writes : Unique(K) /\ Covers(es, k, K)
      BY <1>1, <1>2 DEF Numbered
    <2>2. \A t \in FilesAt(es, k) : t \in Needed(n)
      BY <1>1 DEF Needed
    <2>3. \A t \in FilesAt(es, k) : Holds(t, K, es[k].last)'
      BY <2>1, <2>2 DEF Covers, Holds
    <2>4. \A l \in DOMAIN logs' : l >= es[k].log => RecordsOf(logs'[l]) \subseteq K
      BY <2>1 DEF Covers, Fewer
    <2> QED
      BY <2>1, <2>3, <2>4 DEF Covers
  <1> QED
    BY <1>1, <1>2 DEF Numbered

LEMMA NumberedSame ==
  ASSUME NEW n, logs' = logs, tables' = tables, manifests' = manifests
  PROVE  Numbered(n) => Numbered(n)'
  BY NumberedKeeps, FewerSame

-----------------------------------------------------------------------------
(***************************************************************************)
(* The first states of DB::Open.                                           *)
(***************************************************************************)

LEMMA NumbersInit == Init => NumbersInv
  BY NoneFacts DEF Init, NumbersInv, Opening, Written, Up

LEMMA OpenNumbers ==
  ASSUME Inv, NumbersInv, Open
  PROVE  NumbersInv'
  <1>1. /\ phase = "down" /\ phase' \in {"new", "recover"}
        /\ logs' = logs /\ tables' = tables /\ manifests' = manifests /\ current' = current
        /\ mem' = mem /\ imm' = imm
    BY DEF Open, disk, memory
  <1>2. PICK n : n = current
    OBVIOUS
  <1>3. Numbered(n) => Numbered(n)'
    BY <1>1, NumberedSame
  <1> QED
    BY <1>1, <1>2, <1>3 DEF NumbersInv, Opening, Written, Up

LEMMA NewDBNumbers ==
  ASSUME Inv, NumbersInv, NewDB
  PROVE  NumbersInv'
  <1>1. PICK e : e = Edit(0, 2, 0, {}, {})
    OBVIOUS
  <1>2. PICK m : m = [edits |-> <<e>>, synced |-> 0]
    OBVIOUS
  <1>3. /\ phase = "new" /\ phase' = "new_temp" /\ manifests' = Put(manifests, 1, m)
        /\ logs' = logs /\ tables' = tables /\ current' = current /\ mem' = mem /\ imm' = imm
    BY <1>1, <1>2 DEF NewDB, memory
  <1>4. e \in Edits /\ e.del = {} /\ e.add = {}
    BY <1>1 DEF Edit, Edits, Fields, Unset
  <1>5. <<e>> \in Seq(Edits) /\ Len(<<e>>) = 1 /\ FilesAt(<<e>>, 1) = {}
    BY <1>4, FilesOne
  <1>6. PICK es \in Seq(Edits) : es = <<e>> /\ Len(es) = 1 /\ FilesAt(es, 1) = {}
    BY <1>5
  <1>7. manifests'[1] = m
    BY <1>3 DEF Put
  <1>8. m.edits = es
    BY <1>2, <1>6
  <1>9. current = 0 /\ DOMAIN logs = {}
    BY <1>3 DEF Inv, Resting, NumbersInv
  <1>10. Numbered(1)'
    <2>1. ASSUME NEW k \in 0..1, k >= 1 PROVE Covers(es, k, {})'
      <3>1. k = 1
        BY <2>1
      <3> QED
        BY <1>3, <1>6, <1>9, <3>1 DEF Covers
    <2>2. Unique({}) /\ {} \in SUBSET Writes
      BY DEF Unique
    <2>3. manifests'[1].edits = es /\ manifests'[1].synced..Len(es) = 0..1
      BY <1>2, <1>6, <1>7, <1>8
    <2> QED
      BY <2>1, <2>2, <2>3 DEF Numbered
  <1> QED
    BY <1>3, <1>9, <1>10 DEF NumbersInv, Opening, Written, Up

LEMMA WriteTempFileNumbers ==
  ASSUME Inv, NumbersInv, WriteTempFile
  PROVE  NumbersInv'
  <1>1. /\ phase \in {"new_temp", "temp"}
        /\ phase' = IF phase = "temp" THEN "rename" ELSE "new_rename"
        /\ logs' = logs /\ tables' = tables /\ manifests' = manifests /\ current' = current
        /\ vset' = vset /\ versions' = versions /\ mem' = mem /\ imm' = imm
        /\ todo' = todo /\ edit' = edit
    BY DEF WriteTempFile, memory
  <1>2. PICK n, m : n = current /\ m = vset.manifest
    OBVIOUS
  <1>3. /\ Numbered(n) => Numbered(n)'
        /\ Numbered(m) => Numbered(m)'
        /\ Numbered(1) => Numbered(1)'
    BY <1>1, NumberedSame
  <1>4. \A K : OpeningFrom(K) /\ phase = "temp" => OpeningFrom(K)'
    BY <1>1, <1>2, <1>3 DEF OpeningFrom, Holds, LastEdit, Written
  <1> QED
    BY <1>1, <1>2, <1>3, <1>4 DEF NumbersInv, Opening, Written, Up

LEMMA RenameTempFileNumbers ==
  ASSUME Inv, NumbersInv, RenameTempFile
  PROVE  NumbersInv'
  <1>1. /\ phase \in {"new_rename", "rename"}
        /\ phase' = IF phase = "rename" THEN "install" ELSE "recover"
        /\ current' = vset.manifest
        /\ logs' = logs /\ tables' = tables /\ manifests' = manifests
        /\ vset' = vset /\ versions' = versions /\ mem' = mem /\ imm' = imm
        /\ todo' = todo /\ edit' = edit
    BY DEF RenameTempFile, memory
  <1>2. PICK m \in Nat : m = vset.manifest
    BY DEF Inv, TypeOK
  <1>3. Numbered(m) => Numbered(m)'
    BY <1>1, NumberedSame
  <1>4. m # 0 /\ Numbered(m)
    <2>1. CASE phase = "new_rename"
      BY <1>2, <2>1 DEF Inv, Resting, NumbersInv
    <2>2. CASE phase = "rename"
      <3>1. current \in Nat /\ current < m
        BY <1>2, <2>2 DEF Inv, TypeOK, OpeningSound, Opening, Written
      <3>2. Numbered(m)
        BY <1>2, <2>2 DEF NumbersInv, OpeningFrom, Opening, Written
      <3> QED
        BY <3>1, <3>2
    <2> QED
      BY <1>1, <2>1, <2>2
  <1>5. \A K : OpeningFrom(K) /\ phase = "rename" => OpeningFrom(K)'
    BY <1>1, <1>2, <1>3 DEF OpeningFrom, Holds, LastEdit, Written
  <1> QED
    BY <1>1, <1>2, <1>3, <1>4, <1>5 DEF NumbersInv, Opening, Written, Up

\* Back to a closed database.
LEMMA DownNumbers ==
  ASSUME NumbersInv, phase' = "down", current' = current, mem' = {}, imm' = {},
         DOMAIN logs' = DOMAIN logs, current # 0 => Numbered(current)'
  PROVE  NumbersInv'
  BY DEF NumbersInv, Opening, Written, Up

LEMMA SetCurrentFileFailsNumbers ==
  ASSUME Inv, NumbersInv, SetCurrentFileFails
  PROVE  NumbersInv'
  <1>1. /\ phase \in {"new_temp", "new_rename", "temp", "rename"} /\ phase' = "down"
        /\ current' = current
        /\ manifests' = IF phase \in {"temp", "rename"} THEN Without(manifests, vset.manifest)
                        ELSE manifests
        /\ mem' = {} /\ logs' = logs /\ tables' = tables /\ imm' = imm
    BY DEF SetCurrentFileFails, OpenFails
  <1>2. PICK n \in Nat : n = current
    BY DEF Inv, TypeOK
  <1>3. PICK f : f = manifests /\ IsDirectory(f, Manifests)
    BY DEF Inv, TypeOK
  <1>4. n # 0 => manifests'[n] = manifests[n]
    <2>1. CASE phase \in {"temp", "rename"}
      <3>1. PICK m \in Nat : m = vset.manifest
        BY DEF Inv, TypeOK
      <3>2. PICK g : g = Without(f, m)
        OBVIOUS
      <3>3. Kept(g, f, DOMAIN f \ {m})
        BY <1>3, <3>2, WithoutFacts
      <3>4. n < m
        BY <1>2, <2>1, <3>1 DEF Inv, OpeningSound, Opening, Written
      <3>5. n # 0 => n \in DOMAIN f \ {m}
        BY <1>2, <1>3, <3>4 DEF Inv, DiskSound, Sound
      <3> QED
        BY <1>1, <1>3, <2>1, <3>1, <3>2, <3>3, <3>5 DEF Kept
    <2>2. CASE phase \notin {"temp", "rename"}
      BY <1>1, <2>2
    <2> QED
      BY <2>1, <2>2
  <1>5. n # 0 => Numbered(n)'
    <2>1. Fewer(logs', logs)
      BY <1>1, FewerSame
    <2>2. n # 0 => Numbered(n)
      BY <1>2 DEF NumbersInv
    <2> QED
      BY <1>1, <1>4, <2>1, <2>2, NumberedKeeps
  <1>6. imm' = {}
    BY <1>1 DEF NumbersInv, Up
  <1> QED
    BY <1>1, <1>2, <1>5, <1>6, DownNumbers
-----------------------------------------------------------------------------
(***************************************************************************)
(* Reading the manifest and the logs.                                      *)
(***************************************************************************)

LEMMA RecoverNumbers ==
  ASSUME Inv, NumbersInv, Recover
  PROVE  NumbersInv'
  <1>1. /\ phase = "recover" /\ logs' = logs /\ tables' = tables /\ manifests' = manifests
        /\ current' = current /\ mem' = mem /\ imm' = imm
    BY DEF Recover, disk, memory
  <1>2. PICK n \in Nat : n = current /\ n # 0 /\ Sound(n)
    BY <1>1 DEF Inv, TypeOK, Resting, DiskSound
  <1>3. TypeOK
    BY DEF Inv
  <1>4. PICK es \in Seq(Edits) : es = manifests[n].edits
    BY <1>2, <1>3, SoundFacts
  <1>5. PICK s : s = Replay(es)
    OBVIOUS
  <1>6. s = Replay(IF current \in DOMAIN manifests THEN manifests[current].edits ELSE <<>>)
    BY <1>2, <1>4, <1>5 DEF Sound
  <1>7. Numbered(n) /\ Numbered(n)'
    BY <1>1, <1>2, NumberedSame DEF NumbersInv
  <1>8. CASE phase' = "corrupt"
    BY <1>1, <1>2, <1>7, <1>8 DEF NumbersInv, Opening, Written, Up
  <1>9. CASE phase' # "corrupt"
    <2>1. /\ s.next # Unset /\ s.log # Unset /\ s.last # Unset
          /\ phase' = "replay"
          /\ vset' = [next_file |-> MarkFileNumberUsed(s.next + 1, s.log),
                      manifest |-> s.next, log_number |-> s.log, last |-> s.last]
          /\ versions' = AppendVersion(None, s.files)
          /\ todo' = LogsToReplay(s.log)
          /\ edit' = Edit(Unset, Unset, Unset, {}, {})
      BY <1>6, <1>9 DEF Recover
    <2>2. es # <<>>
      BY <1>5, <2>1, ReplayNone
    <2>3. PICK l \in Nat : l = Len(es) /\ l >= 1 /\ l \in manifests[n].synced..Len(es)
      <3>1. manifests[n].synced \in Nat /\ manifests[n].synced <= Len(es) /\ Len(es) >= 1
        BY <1>2, <1>3, <1>4, <2>2, SoundFacts
      <3> QED
        BY <3>1
    <2>4. PICK e \in Edits : e = es[l] /\ AllSet(e)
      <3>1. LastEdit(n) \in Edits /\ AllSet(LastEdit(n))
        BY <1>2, <1>3, <1>4, <2>2, SoundFacts
      <3> QED
        BY <1>4, <2>3, <3>1 DEF LastEdit
    <2>5. s = [files |-> FilesAt(es, l), log |-> e.log, next |-> e.next, last |-> e.last]
      BY <1>5, <2>2, <2>3, <2>4, ReplayIs
    <2>6. PICK files \in SUBSET Nat : files = FilesAt(es, l)
      <3>1. l \in 0..Len(es)
        BY <2>3
      <3> QED
        BY <3>1, FilesAtNumbers
    <2>7. e.log \in Nat /\ e.last \in Nat /\ e.next \in Nat
      BY <2>4 DEF Edits, Fields, AllSet
    <2>8. versions'[1].files = files
      <3>1. AppendVersion(None, files)[1] = [files |-> files, refs |-> 1]
        BY FirstVersion
      <3> QED
        BY <2>1, <2>5, <2>6, <3>1
    <2>9. edit'.add = {} /\ vset'.last = e.last
      BY <2>1, <2>5 DEF Edit
    <2>10. PICK K \in SUBSET Writes : Unique(K) /\ Covers(es, l, K)
      BY <1>4, <1>7, <2>3 DEF Numbered
    <2>11. \A t \in files : Holds(t, K, e.last)'
      BY <1>1, <2>4, <2>6, <2>7, <2>10 DEF Covers, Holds
    <2>12. \A u \in todo' : RecordsOf(logs'[u]) \subseteq K
      BY <1>1, <2>1, <2>4, <2>5, <2>10 DEF Covers, LogsToReplay
    <2>13. \A u \in DOMAIN logs' : u \in todo' \/ u < vset'.next_file
      <3>1. e.log < MarkFileNumberUsed(e.next + 1, e.log)
        BY <2>7 DEF MarkFileNumberUsed
      <3>2. MarkFileNumberUsed(e.next + 1, e.log) \in Nat
        BY <2>7 DEF MarkFileNumberUsed
      <3>3. DOMAIN logs \subseteq Nat
        BY <1>3 DEF TypeOK, IsDirectory
      <3>4. vset'.next_file = MarkFileNumberUsed(e.next + 1, e.log)
        BY <2>1, <2>5
      <3>5. ASSUME NEW u \in DOMAIN logs, ~(u >= e.log) PROVE u < vset'.next_file
        BY <2>7, <3>1, <3>2, <3>3, <3>4, <3>5
      <3> QED
        BY <1>1, <2>1, <2>5, <3>5 DEF LogsToReplay
    <2>14. OpeningFrom(K)'
      BY <2>1, <2>8, <2>9, <2>11, <2>12, <2>13 DEF OpeningFrom, Written
    <2> QED
      BY <1>1, <1>2, <1>7, <2>1, <2>10, <2>14 DEF NumbersInv, Opening, Up
  <1> QED
    BY <1>8, <1>9

\* The number of the next file is of no table that may be needed.
LEMMA OpeningNeeds ==
  ASSUME Inv, phase = "replay"
  PROVE  /\ \A t \in Needed(current) : t # vset.next_file
         /\ \A t \in versions[1].files \cup edit.add : t # vset.next_file
  <1>1. TypeOK
    BY DEF Inv
  <1>2. PICK c \in Nat : c = current
    BY <1>1 DEF TypeOK
  <1>3. PICK m \in Nat : m = vset.manifest
    BY <1>1 DEF TypeOK
  <1>4. PICK x \in Nat : x = vset.next_file
    BY <1>1 DEF TypeOK
  <1>5. /\ c # 0 /\ DOMAIN versions = {1} /\ edit \in Edits /\ m < x
        /\ \A t \in versions[1].files : t < m
        /\ \A t \in edit.add : t < x
        /\ manifests[c].edits # <<>> /\ LastEdit(c).next <= m
    BY <1>2, <1>3, <1>4 DEF Inv, OpeningSound, Opening
  <1>6. Sound(c)
    BY <1>2, <1>5 DEF Inv, DiskSound
  <1>7. /\ Needed(c) \in SUBSET Nat /\ LastEdit(c).next \in Nat
        /\ \A t \in Needed(c) : t < LastEdit(c).next
    BY <1>1, <1>5, <1>6, SoundFacts
  <1>8. \A t \in Needed(c) : t # x
    BY <1>5, <1>7
  <1>9. versions[1].files \in SUBSET Nat /\ edit.add \in SUBSET Nat
    BY <1>1, <1>5 DEF TypeOK, IsDirectory, VersionRecords, Edits
  <1>10. \A t \in versions[1].files \cup edit.add : t # x
    BY <1>5, <1>9
  <1> QED
    BY <1>2, <1>4, <1>8, <1>10

LEMMA RecoverLogFileNumbers ==
  ASSUME Inv, NumbersInv, RecoverLogFile
  PROVE  NumbersInv'
  <1>1. /\ phase = "replay" /\ todo # {} /\ phase' = phase
        /\ logs' = logs /\ manifests' = manifests
        /\ current' = current /\ versions' = versions /\ mem' = mem /\ imm' = imm
    BY DEF RecoverLogFile, memory
  <1>2. TypeOK
    BY DEF Inv
  <1>3. current # 0 /\ todo \subseteq DOMAIN logs /\ edit \in Edits
    BY <1>1 DEF Inv, OpeningSound, Opening
  <1>4. PICK n \in DOMAIN logs : n = OldestLog(todo) /\ n \in Nat /\ n \in todo
    <2>1. todo \in SUBSET Nat /\ todo # {}
      BY <1>1, <1>2 DEF TypeOK
    <2>2. Min(todo) \in todo
      BY <2>1, MinIn
    <2> QED
      BY <1>3, <2>1, <2>2 DEF OldestLog
  <1>5. PICK recs \in Seq(Writes) : recs = logs[n].recs
    BY <1>2, <1>4 DEF TypeOK, IsDirectory, LogFiles
  <1>6. PICK t \in Nat : t = vset.next_file
    BY <1>2 DEF TypeOK
  <1>7. PICK next \in Nat : /\ next = MarkLog(IF recs = <<>> THEN t ELSE t + 1, n)
                            /\ next >= t /\ next > n
    BY <1>4 DEF MarkLog, MarkFileNumberUsed
  <1>8. PICK old \in Nat : old = vset.last
    BY <1>2 DEF TypeOK
  <1>9. PICK last \in Nat : /\ last = MaxSequence(old, recs) /\ old <= last
                            /\ \A i \in 1..Len(recs) : recs[i][1] <= last
    BY MaxSequenceFacts
  <1>10. PICK data : data = {recs[i] : i \in 1..Len(recs)}
    OBVIOUS
  <1>11. /\ vset' = [vset EXCEPT !.next_file = next, !.last = last]
         /\ todo' = todo \ {n}
         /\ recs = <<>> => tables' = tables /\ edit' = edit
         /\ recs # <<>> => /\ tables' = Put(tables, t, [data |-> data, whole |-> TRUE, level |-> 0])
                           /\ edit' = [edit EXCEPT !.add = edit.add \cup {t}]
    BY <1>4, <1>5, <1>6, <1>7, <1>8, <1>9, <1>10 DEF RecoverLogFile
  <1>12. vset'.next_file = next /\ vset'.last = last
    BY <1>2, <1>11 DEF TypeOK
  <1>13. /\ \A u \in DOMAIN tables : u # t => tables'[u] = tables[u]
         /\ edit'.add \subseteq edit.add \cup {t}
         /\ t \in edit'.add \ edit.add => tables'[t].data = data
    <2>1. CASE recs = <<>>
      BY <1>11, <2>1
    <2>2. CASE recs # <<>>
      <3>1. edit'.add = edit.add \cup {t}
        BY <1>3, <1>11, <2>2 DEF Edits
      <3>2. tables'[t].data = data /\ \A u \in DOMAIN tables : u # t => tables'[u] = tables[u]
        BY <1>11, <2>2 DEF Put
      <3> QED
        BY <3>1, <3>2
    <2> QED
      BY <2>1, <2>2
  <1>14. /\ \A u \in Needed(current) : u # t
         /\ \A u \in versions[1].files \cup edit.add : u # t
    BY <1>1, <1>6, OpeningNeeds
  <1>15. Numbered(current)'
    <2>1. PICK c \in Nat : c = current
      BY <1>2 DEF TypeOK
    <2>2. Numbered(c) /\ Sound(c)
      BY <1>3, <2>1 DEF Inv, DiskSound, NumbersInv
    <2>3. \A u \in Needed(c) : u \in DOMAIN tables
      <3>1. manifests[c].edits # <<>>
        BY <1>1, <2>1 DEF Inv, OpeningSound, Opening
      <3>2. \A u \in Needed(c) : Whole(u)
        BY <1>2, <2>2, <3>1, SoundFacts
      <3> QED
        BY <3>2 DEF Whole
    <2>4. \A u \in Needed(c) : tables'[u].data = tables[u].data
      BY <1>13, <1>14, <2>1, <2>3
    <2>5. Fewer(logs', logs)
      BY <1>1, FewerSame
    <2>6. Numbered(c)'
      BY <1>1, <2>2, <2>4, <2>5, NumberedKeeps
    <2> QED
      BY <1>1, <2>1, <2>6
  <1>16. PICK K \in SUBSET Writes : Unique(K) /\ OpeningFrom(K)
    BY <1>1 DEF NumbersInv, Opening
  <1>17. data \subseteq K /\ UpTo(data, last)
    <2>1. RecordsOf(logs[n]) \subseteq K
      BY <1>1, <1>4, <1>16 DEF OpeningFrom
    <2> QED
      BY <1>5, <1>9, <1>10, <2>1 DEF RecordsOf, UpTo
  <1>18. ASSUME NEW u \in versions[1].files \cup edit.add PROVE Holds(u, K, last)'
    <2>1. Holds(u, K, old)
      BY <1>8, <1>16 DEF OpeningFrom
    <2>2. u \in DOMAIN tables /\ tables[u].data \in SUBSET Writes
      <3>1. Whole(u)
        BY <1>1 DEF Inv, OpeningSound, Opening
      <3> QED
        BY <1>2, <3>1 DEF Whole, TypeOK, IsDirectory, TableFiles
    <2>3. tables'[u].data = tables[u].data
      BY <1>13, <1>14, <2>2
    <2>4. \A a \in tables[u].data : a[1] \in Nat
      BY <2>2 DEF Writes
    <2>5. UpTo(tables[u].data, last)
      BY <1>9, <2>1, <2>4 DEF Holds, UpTo
    <2> QED
      BY <2>1, <2>3, <2>5 DEF Holds
  <1>19. \A u \in versions[1].files \cup edit'.add : Holds(u, K, last)'
    <2>1. t \in edit'.add \ edit.add => Holds(t, K, last)'
      BY <1>13, <1>17 DEF Holds
    <2> QED
      BY <1>13, <1>18, <2>1
  <1>20. \A u \in DOMAIN logs : u \in todo' \/ u < next
    <2>1. \A u \in DOMAIN logs : u \in Nat /\ (u \in todo \/ u < t)
      BY <1>1, <1>2, <1>6, <1>16 DEF OpeningFrom, TypeOK, IsDirectory
    <2> QED
      BY <1>7, <1>11, <2>1
  <1>21. OpeningFrom(K)'
    <2>1. \A u \in todo' : RecordsOf(logs'[u]) \subseteq K
      BY <1>1, <1>11, <1>16 DEF OpeningFrom
    <2> QED
      BY <1>1, <1>12, <1>19, <1>20, <2>1 DEF OpeningFrom, Written
  <1> QED
    BY <1>1, <1>3, <1>15, <1>16, <1>21 DEF NumbersInv, Opening, Up

\* An empty log has no records.
LEMMA NoRecords ==
  ASSUME NEW x, x.recs = <<>>
  PROVE  RecordsOf(x) = {}
  <1>1. 1..Len(<<>>) = {}
    OBVIOUS
  <1> QED
    BY <1>1 DEF RecordsOf

LEMMA NewLogNumbers ==
  ASSUME Inv, NumbersInv, NewLog
  PROVE  NumbersInv'
  <1>1. PICK x : x = [recs |-> <<>>, synced |-> 0]
    OBVIOUS
  <1>2. RecordsOf(x) = {}
    BY <1>1, NoRecords
  <1>3. PICK t \in Nat : t = vset.next_file
    BY DEF Inv, TypeOK
  <1>4. /\ phase = "replay" /\ phase' = "manifest" /\ todo = {}
        /\ logs' = Put(logs, t, x) /\ mem' = {}
        /\ vset' = [vset EXCEPT !.next_file = vset.next_file + 1]
        /\ edit' = Edit(logfile', vset'.next_file, vset.last, {}, edit.add)
        /\ logfile' = t
        /\ tables' = tables /\ manifests' = manifests
        /\ current' = current /\ versions' = versions /\ imm' = imm
    BY <1>1, <1>3 DEF NewLog
  <1>5. vset'.last = vset.last /\ edit'.last = vset.last /\ edit'.add = edit.add /\ edit'.log = t
    BY <1>4 DEF Inv, TypeOK, Edit
  <1>6. /\ DOMAIN logs' = DOMAIN logs \cup {t} /\ logs'[t] = x
        /\ \A l \in DOMAIN logs : l # t => logs'[l] = logs[l]
    BY <1>4 DEF Put
  <1>7. Fewer(logs', logs)
    BY <1>2, <1>6 DEF Fewer
  <1>8. PICK c : c = current
    OBVIOUS
  <1>9. c # 0 /\ Numbered(c)
    BY <1>4, <1>8 DEF Inv, OpeningSound, Opening, NumbersInv
  <1>10. Numbered(c)'
    BY <1>4, <1>7, <1>9, NumberedKeeps
  <1>11. PICK K \in SUBSET Writes : Unique(K) /\ OpeningFrom(K)
    BY <1>4 DEF NumbersInv, Opening
  <1>12. \A u \in versions'[1].files \cup edit'.add : Holds(u, K, vset.last)'
    BY <1>4, <1>5, <1>11 DEF OpeningFrom, Holds
  <1>13. ASSUME NEW l \in DOMAIN logs', l >= t PROVE RecordsOf(logs'[l]) = {}
    <2>1. CASE l = t
      BY <1>2, <1>6, <2>1
    <2>2. CASE l # t
      <3>1. l \in DOMAIN logs /\ l \in Nat
        BY <1>6, <2>2 DEF Inv, TypeOK, IsDirectory
      <3>2. l < t
        BY <1>3, <1>4, <1>11, <3>1 DEF OpeningFrom
      <3> QED
        BY <1>13, <3>1, <3>2
    <2> QED
      BY <2>1, <2>2
  <1>14. OpeningFrom(K)'
    BY <1>4, <1>5, <1>12, <1>13 DEF OpeningFrom, Written
  <1> QED
    BY <1>4, <1>8, <1>9, <1>10, <1>11, <1>14 DEF NumbersInv, Opening, Up

LEMMA WriteSnapshotNumbers ==
  ASSUME Inv, NumbersInv, WriteSnapshot
  PROVE  NumbersInv'
  <1>1. PICK m, x : m = vset.manifest /\ manifests' = Put(manifests, m, x)
    BY DEF WriteSnapshot
  <1>2. /\ phase = "manifest" /\ phase' = "edit"
        /\ logs' = logs /\ tables' = tables /\ current' = current /\ vset' = vset
        /\ versions' = versions /\ mem' = mem /\ imm' = imm /\ todo' = todo /\ edit' = edit
    BY DEF WriteSnapshot, memory
  <1>3. PICK c \in Nat : c = current
    BY DEF Inv, TypeOK
  <1>4. c # 0 /\ Numbered(c) /\ c \in DOMAIN manifests /\ c # m
    <2>1. c # 0 /\ c < m /\ m \in Nat
      BY <1>1, <1>2, <1>3 DEF Inv, TypeOK, OpeningSound, Opening
    <2> QED
      BY <1>3, <2>1 DEF Inv, DiskSound, Sound, NumbersInv
  <1>5. manifests'[c] = manifests[c]
    BY <1>1, <1>4 DEF Put
  <1>6. Numbered(c)'
    BY <1>2, <1>4, <1>5, FewerSame, NumberedKeeps
  <1>7. \A K : OpeningFrom(K) => OpeningFrom(K)'
    BY <1>2 DEF OpeningFrom, Holds, Written
  <1> QED
    BY <1>2, <1>3, <1>4, <1>6, <1>7 DEF NumbersInv, Opening, Up

LEMMA WriteFirstEditNumbers ==
  ASSUME Inv, NumbersInv, WriteFirstEdit
  PROVE  NumbersInv'
  <1>1. /\ phase = "edit"
        /\ logs' = logs /\ tables' = tables /\ current' = current /\ todo' = todo
    BY DEF WriteFirstEdit
  <1>2. TypeOK
    BY DEF Inv
  <1>3. /\ edit \in Edits /\ edit.del = {} /\ current # 0 /\ DOMAIN versions = {1}
        /\ current < vset.manifest
        /\ vset.manifest \in DOMAIN manifests
        /\ manifests[vset.manifest] =
             [edits |-> <<Edit(Unset, Unset, Unset, {}, versions[1].files)>>, synced |-> 0]
    BY <1>1 DEF Inv, OpeningSound, Opening
  <1>4. PICK m \in Nat : m = vset.manifest
    BY <1>2 DEF TypeOK
  <1>5. PICK c \in Nat : c = current
    BY <1>2 DEF TypeOK
  <1>6. PICK f : f = manifests /\ IsDirectory(f, Manifests)
    BY <1>2 DEF TypeOK
  <1>7. c # 0 /\ c # m /\ c \in DOMAIN f /\ m \in DOMAIN f /\ Numbered(c)
    BY <1>3, <1>4, <1>5, <1>6 DEF Inv, DiskSound, Sound, NumbersInv
  <1>8. CASE /\ manifests' = [manifests EXCEPT ![vset.manifest] = Appended(@, edit)]
             /\ phase' = "temp" /\ UNCHANGED <<vset, versions, edit, memory, history>>
    <2>1. /\ phase' = "temp" /\ vset' = vset /\ versions' = versions /\ edit' = edit
          /\ mem' = mem /\ imm' = imm
      BY <1>8 DEF memory
    <2>2. PICK files \in SUBSET Nat : files = versions[1].files
      BY <1>2, <1>3 DEF TypeOK, IsDirectory, VersionRecords
    <2>3. PICK s \in Edits : s = Edit(Unset, Unset, Unset, {}, files) /\ s.del = {} /\ s.add = files
      <3>1. /\ Edit(Unset, Unset, Unset, {}, files) \in Edits
            /\ Edit(Unset, Unset, Unset, {}, files).del = {}
            /\ Edit(Unset, Unset, Unset, {}, files).add = files
        BY DEF Edit, Edits, Fields
      <3> QED
        BY <3>1
    <2>4. PICK e \in Edits : e = edit
      BY <1>3
    <2>5. PICK one \in Seq(Edits) : one = <<s>> /\ Len(one) = 1 /\ FilesAt(one, 1) = files
      <3>1. <<s>> \in Seq(Edits) /\ Len(<<s>>) = 1 /\ FilesAt(<<s>>, 1) = files
        BY <2>3, FilesOne
      <3> QED
        BY <3>1
    <2>6. PICK two \in Seq(Edits) : /\ two = Append(one, e) /\ Len(two) = 2 /\ two[2] = e
                                    /\ FilesAt(two, 2) = Applied(files, e)
      <3>1. /\ Append(one, e) \in Seq(Edits)
            /\ Len(Append(one, e)) = Len(one) + 1
            /\ Append(one, e)[Len(one) + 1] = e
            /\ FilesAt(Append(one, e), Len(one) + 1) = Applied(FilesAt(one, Len(one)), e)
        BY FilesAppend
      <3>2. Len(one) = 1 /\ 1 + 1 = 2
        BY <2>5
      <3>3. /\ Append(one, e) \in Seq(Edits) /\ Len(Append(one, e)) = 2
            /\ Append(one, e)[2] = e /\ FilesAt(Append(one, e), 2) = Applied(files, e)
        BY <2>5, <3>1, <3>2
      <3> QED
        BY <3>3
    <2>7. PICK x \in Manifests : x = [edits |-> two, synced |-> 2]
      <3>1. [edits |-> two, synced |-> 2] \in Manifests
        BY DEF Manifests
      <3> QED
        BY <3>1
    <2>8. Appended(manifests[m], edit) = x
      <3>1. manifests[m].edits = one
        BY <1>3, <1>4, <2>2, <2>3, <2>5
      <3> QED
        BY <2>4, <2>5, <2>6, <2>7, <3>1 DEF Appended
    <2>9. manifests'[m] = x /\ manifests'[c] = manifests[c]
      <3>1. PICK g : g = [f EXCEPT ![m] = x]
        OBVIOUS
      <3>2. IsDirectory(g, Manifests) /\ Changed(g, f, m, x)
        BY <1>6, <1>7, <3>1, ExceptFacts
      <3>3. manifests' = g
        BY <1>4, <1>6, <1>8, <2>8, <3>1
      <3> QED
        BY <1>6, <1>7, <3>2, <3>3 DEF Changed
    <2>10. Numbered(c)'
      BY <1>1, <1>7, <2>9, FewerSame, NumberedKeeps
    <2>11. Applied(files, e) = files \cup e.add
      BY <1>3, <2>4, AppliedIs
    <2>12. PICK K \in SUBSET Writes : Unique(K) /\ OpeningFrom(K)
      BY <1>1 DEF NumbersInv, Opening
    <2>13. Covers(two, 2, K)'
      <3>1. e.last = vset.last
        BY <1>1, <2>4, <2>12 DEF OpeningFrom
      <3>2. \A t \in files \cup e.add : Holds(t, K, e.last)'
        BY <1>1, <2>2, <2>4, <2>12, <3>1 DEF OpeningFrom, Holds
      <3>3. \A l \in DOMAIN logs' : l >= e.log => RecordsOf(logs'[l]) \subseteq K
        BY <1>1, <2>4, <2>12 DEF OpeningFrom
      <3> QED
        BY <2>6, <2>11, <3>2, <3>3 DEF Covers
    <2>14. Numbered(m)'
      <3>1. manifests'[m].edits = two /\ manifests'[m].synced..Len(two) = {2}
        BY <2>6, <2>7, <2>9
      <3> QED
        BY <2>12, <2>13, <3>1 DEF Numbered
    <2>15. LastEdit(m)' = e
      BY <2>6, <2>7, <2>9 DEF LastEdit
    <2>16. OpeningFrom(K)'
      BY <1>1, <1>4, <2>1, <2>4, <2>12, <2>14, <2>15 DEF OpeningFrom, Holds, Written
    <2> QED
      BY <1>1, <1>5, <1>7, <2>1, <2>10, <2>12, <2>16 DEF NumbersInv, Opening, Written, Up
  <1>9. CASE OpenFails /\ manifests' = Without(manifests, vset.manifest) /\ UNCHANGED imm
    <2>1. phase' = "down" /\ mem' = {} /\ imm' = imm
      BY <1>9 DEF OpenFails
    <2>2. manifests'[c] = manifests[c]
      <3>1. PICK g : g = Without(f, m)
        OBVIOUS
      <3>2. Kept(g, f, DOMAIN f \ {m})
        BY <1>6, <3>1, WithoutFacts
      <3>3. manifests' = g
        BY <1>4, <1>6, <1>9, <3>1
      <3> QED
        BY <1>6, <1>7, <3>2, <3>3 DEF Kept
    <2>3. Numbered(c)'
      BY <1>1, <1>7, <2>2, FewerSame, NumberedKeeps
    <2>4. imm = {}
      BY <1>1 DEF NumbersInv, Up
    <2> QED
      BY <1>1, <1>5, <2>1, <2>3, <2>4, DownNumbers
  <1> QED
    BY <1>8, <1>9 DEF WriteFirstEdit

-----------------------------------------------------------------------------
(***************************************************************************)
(* The open database.                                                      *)
(***************************************************************************)

\* What opening needs is of the same writes as the running database.
LEMMA UpNumbers ==
  ASSUME Inv', phase' \in Up, NEW K \in SUBSET Writes, Unique(K), RunningOn(K)'
  PROVE  NumbersInv'
  <1>1. PICK c : c = current' /\ c # 0
    BY DEF Inv, RunningSound, DiskSound
  <1>2. PICK es, s : es = manifests'[c].edits /\ s = manifests'[c].synced
    OBVIOUS
  <1>3. ASSUME NEW k \in s..Len(es) PROVE Covers(es, k, K)'
    <2>1. \A t \in FilesAt(es, k) : Holds(t, K, es[k].last)'
      BY <1>1, <1>2, <1>3 DEF RunningOn, ManifestOf
    <2>2. \A l \in DOMAIN logs' : RecordsOf(logs'[l]) \subseteq K
      BY DEF RunningOn, LogsOf
    <2> QED
      BY <2>1, <2>2 DEF Covers
  <1>4. Numbered(c)'
    BY <1>2, <1>3 DEF Numbered
  <1> QED
    BY <1>1, <1>4 DEF NumbersInv, Opening, Written, Early, Up

\* What is left after DeleteObsoleteFiles is what was there.
LEMMA DeletedFacts ==
  ASSUME NEW mf, NEW vs, NEW p, NEW n, NEW ok,
         DeleteObsoleteFiles(logs, mf, vs, p, n, ok)
  PROVE  /\ \A t \in DOMAIN tables' : tables'[t] = tables[t]
         /\ \A l \in DOMAIN logs' : l \in DOMAIN logs /\ logs'[l] = logs[l] /\ (ok => l >= n)
         /\ \A i \in DOMAIN manifests' : manifests'[i] = mf[i]
  <1>1. \A f, S : \A i \in DOMAIN Restrict1(f, S) :
          i \in DOMAIN f /\ i \in S /\ Restrict1(f, S)[i] = f[i]
    BY DEF Restrict1
  <1>2. CASE ok
    <2>1. tables' = Restrict1(tables, Live(vs, p))
      BY <1>2 DEF DeleteObsoleteFiles
    <2>2. logs' = Restrict1(logs, {l \in DOMAIN logs : l >= n})
      BY <1>2 DEF DeleteObsoleteFiles, KeptLogs
    <2>3. manifests' = Restrict1(mf, {i \in DOMAIN mf : i >= vset.manifest})
      BY <1>2 DEF DeleteObsoleteFiles
    <2>4. \A l \in DOMAIN logs' : l \in DOMAIN logs /\ logs'[l] = logs[l] /\ l >= n
      BY <1>1, <2>2
    <2> QED
      BY <1>1, <2>1, <2>3, <2>4
  <1>3. CASE ~ok
    BY <1>3 DEF DeleteObsoleteFiles
  <1> QED
    BY <1>2, <1>3

LEMMA InstallFirstNumbers ==
  ASSUME Inv, Inv', NumbersInv, InstallFirst
  PROVE  NumbersInv'
  <1>1. /\ phase = "install" /\ phase' = "up" /\ edit' = None
        /\ versions' = AppendVersion(versions, Applied(CurrentFiles, edit))
        /\ vset' = [vset EXCEPT !.log_number = edit.log]
        /\ DeleteObsoleteFiles(logs, manifests, versions', pending, edit.log, TRUE)
        /\ current' = current /\ mem' = mem /\ imm' = imm /\ comp' = comp
    BY DEF InstallFirst, memory, background
  <1>2. TypeOK /\ TypeOK'
    BY DEF Inv
  <1>3. /\ edit \in Edits /\ edit.del = {} /\ DOMAIN versions = {1} /\ versions[1].refs = 1
        /\ Sound(vset.manifest)
        /\ manifests[vset.manifest].synced = Len(manifests[vset.manifest].edits)
        /\ LastFiles(vset.manifest) = Applied(versions[1].files, edit)
        /\ current = vset.manifest
    BY <1>1 DEF Inv, OpeningSound, Opening, Written
  <1>4. comp = None /\ mem = {} /\ imm = {}
    BY <1>1 DEF Inv, Resting, NumbersInv, Up
  <1>5. PICK m \in Nat : m = vset.manifest /\ m = current
    BY <1>2, <1>3 DEF TypeOK
  <1>6. PICK vs : vs = versions /\ IsDirectory(vs, VersionRecords) /\ DOMAIN vs = {1}
                  /\ vs[1].refs = 1 /\ vs[1].files \in SUBSET Nat
    <2>1. IsDirectory(versions, VersionRecords)
      BY <1>2 DEF TypeOK
    <2> QED
      BY <1>3, <2>1 DEF IsDirectory, VersionRecords
  <1>7. PICK files \in SUBSET Nat : /\ files = Applied(vs[1].files, edit)
                                    /\ files = vs[1].files \cup edit.add
    <2>1. Applied(vs[1].files, edit) = vs[1].files \cup edit.add
      BY <1>3, <1>6, AppliedIs
    <2>2. edit.add \in SUBSET Nat
      BY <1>3 DEF Edits
    <2> QED
      BY <1>6, <2>1, <2>2
  <1>8. CurrentFiles = vs[1].files
    <2>1. CurrentVersion(vs) = 1
      BY <1>6, CurrentIs
    <2> QED
      BY <1>6, <2>1 DEF CurrentFiles
  <1>9. PICK w : w = versions' /\ \A v \in DOMAIN w : w[v].files = files
    <2>1. PICK w : w = AppendVersion(vs, files)
      OBVIOUS
    <2>2. PICK c \in DOMAIN vs : c = 1 /\ vs[c].refs >= 1 /\ \A v \in DOMAIN vs : v <= c
      BY <1>6
    <2>3. Follows(w, vs, c, files)
      <3>1. IsDirectory(vs, VersionRecords)
        BY <1>6
      <3> QED
        BY <2>1, <2>2, <3>1, NextVersion
    <2>4. \A v \in DOMAIN w : w[v].files = files
      <3>1. DOMAIN w = (IF vs[c].refs = 1 THEN DOMAIN vs \ {c} ELSE DOMAIN vs) \cup {c + 1}
            /\ w[c + 1] = [files |-> files, refs |-> 1]
        BY <2>3 DEF Follows
      <3>2. DOMAIN w = {c + 1} /\ w[c + 1].files = files
        BY <1>6, <2>2, <3>1
      <3> QED
        BY <3>2
    <2> QED
      BY <1>1, <1>6, <1>7, <1>8, <2>1, <2>4
  <1>10. /\ \A t \in DOMAIN tables' : tables'[t] = tables[t]
         /\ \A l \in DOMAIN logs' : l \in DOMAIN logs /\ logs'[l] = logs[l] /\ l >= edit.log
         /\ \A i \in DOMAIN manifests' : manifests'[i] = manifests[i]
    <2>1. PICK mf, p, n : mf = manifests /\ p = pending /\ n = edit.log
      OBVIOUS
    <2>2. DeleteObsoleteFiles(logs, mf, w, p, n, TRUE)
      BY <1>1, <1>9, <2>1
    <2>3. /\ \A t \in DOMAIN tables' : tables'[t] = tables[t]
          /\ \A l \in DOMAIN logs' : l \in DOMAIN logs /\ logs'[l] = logs[l] /\ (TRUE => l >= n)
          /\ \A i \in DOMAIN manifests' : manifests'[i] = mf[i]
      BY <2>2, DeletedFacts
    <2> QED
      BY <2>1, <2>3
  <1>11. PICK last \in Nat : last = vset.last /\ last = vset'.last
    BY <1>1, <1>2 DEF TypeOK
  <1>12. PICK All \in SUBSET Writes : Unique(All) /\ OpeningFrom(All)
    BY <1>1 DEF NumbersInv, Opening, Written
  <1>13. PICK K \in SUBSET Writes : K = {a \in All : a[1] <= last}
    OBVIOUS
  <1>14. Unique(K) /\ UpTo(K, last)
    BY <1>12, <1>13 DEF Unique, UpTo
  <1>15. \A t \in files : Holds(t, K, last)
    <2>1. \A t \in files : Holds(t, All, last)
      BY <1>6, <1>7, <1>11, <1>12 DEF OpeningFrom
    <2> QED
      BY <1>13, <2>1 DEF Holds, UpTo
  <1>16. /\ m \in DOMAIN manifests' /\ manifests'[m] = manifests[m]
         /\ \A v \in DOMAIN w : \A t \in w[v].files : t \in DOMAIN tables'
    <2>1. Sound(m)'
      <3>1. Inv' /\ current' = m /\ m # 0
        BY <1>1, <1>5 DEF Inv, OpeningSound, Opening, Written
      <3> QED
        BY <3>1 DEF Inv, DiskSound
    <2>2. m \in DOMAIN manifests'
      BY <2>1 DEF Sound
    <2>3. \A v \in DOMAIN versions' : \A t \in versions'[v].files : Whole(t)'
      BY <1>1 DEF Inv, RunningSound, VersionsHeld, Up
    <2> QED
      BY <1>9, <1>10, <2>2, <2>3 DEF Whole
  <1>17. MemoryOf(K)' /\ LogsOf(K)' /\ VersionsOf(K)'
    <2>1. LogsOf(K)'
      BY <1>1, <1>10, <1>12 DEF OpeningFrom, LogsOf
    <2>2. VersionsOf(K)'
      BY <1>9, <1>10, <1>15, <1>16 DEF VersionsOf, Holds
    <2>3. MemoryOf(K)'
      BY <1>1, <1>4, <1>11, <1>14 DEF MemoryOf
    <2> QED
      BY <2>1, <2>2, <2>3
  <1>18. ManifestOf(K)'
    <2>1. PICK es, s : es = manifests[m].edits /\ s = manifests[m].synced
      OBVIOUS
    <2>2. s = Len(es) /\ s \in Nat /\ FilesAt(es, s) = files
      <3>1. s \in Nat
        BY <1>2, <1>3, <1>5, <2>1, SoundFacts
      <3> QED
        BY <1>3, <1>5, <1>6, <1>7, <2>1, <3>1 DEF LastFiles
    <2>3. es[s].last = last
      BY <1>1, <1>5, <1>11, <1>12, <2>1, <2>2 DEF OpeningFrom, Written, LastEdit
    <2>4. \A t \in files : t \in DOMAIN tables'
      <3>1. \E v \in DOMAIN w : TRUE
        BY <1>1, <1>9 DEF Inv, RunningSound, VersionsHeld, Up
      <3> QED
        BY <1>9, <1>16, <3>1
    <2>5. \A t \in files : Holds(t, K, last)'
      BY <1>10, <1>15, <2>4 DEF Holds
    <2>6. LastEdit(m)'.last = last
      BY <1>16, <2>1, <2>2, <2>3 DEF LastEdit
    <2>7. \A k \in s..Len(es) : k = s
      BY <2>2
    <2> QED
      BY <1>1, <1>5, <1>11, <1>16, <2>1, <2>2, <2>3, <2>5, <2>6, <2>7 DEF ManifestOf
  <1>19. EditOf(K)' /\ OutputsApart'
    BY <1>1, <1>4 DEF EditOf, OutputsApart, Merging
  <1>20. RunningOn(K)'
    BY <1>17, <1>18, <1>19 DEF RunningOn
  <1> QED
    BY <1>1, <1>14, <1>20, UpNumbers DEF Up

\* Steps that leave the writes, the logs and the manifest.
LEMMA RunningKeeps ==
  ASSUME NEW K \in SUBSET Writes, RunningOn(K),
         manifests' = manifests, current' = current, logs' = logs,
         mem' = mem, imm' = imm, vset'.last = vset.last,
         \A t \in Needed(current) : tables'[t].data = tables[t].data,
         \A v \in DOMAIN versions' : \A t \in versions'[v].files : tables'[t].data \subseteq K,
         EditOf(K)', OutputsApart'
  PROVE  RunningOn(K)'
  <1>1. MemoryOf(K)' /\ LogsOf(K)'
    BY DEF RunningOn, MemoryOf, LogsOf
  <1>2. VersionsOf(K)'
    BY DEF VersionsOf
  <1>3. PICK c, es, s : c = current /\ es = manifests[c].edits /\ s = manifests[c].synced
    OBVIOUS
  <1>4. ManifestOf(K)'
    <2>1. ASSUME NEW k \in s..Len(es), NEW t \in FilesAt(es, k) PROVE Holds(t, K, es[k].last)'
      <3>1. Holds(t, K, es[k].last)
        BY <1>3, <2>1 DEF RunningOn, ManifestOf
      <3>2. t \in Needed(current)
        BY <1>3, <2>1 DEF Needed
      <3> QED
        BY <3>1, <3>2 DEF Holds
    <2>2. LastEdit(current)' = LastEdit(current)
      BY DEF LastEdit
    <2>3. LastEdit(current).last <= vset'.last
      BY DEF RunningOn, ManifestOf
    <2> QED
      BY <1>3, <2>1, <2>2, <2>3 DEF ManifestOf
  <1> QED
    BY <1>1, <1>2, <1>4 DEF RunningOn

\* ... and the tables and the versions too.
LEMMA QuietNumbers ==
  ASSUME Inv, Inv', NumbersInv, phase \in Up, phase' \in Up,
         manifests' = manifests, current' = current, logs' = logs, tables' = tables,
         mem' = mem, imm' = imm, vset' = vset,
         \A v \in DOMAIN versions' : v \in DOMAIN versions /\ versions'[v].files = versions[v].files,
         edit' \in {None, edit}, comp # None /\ comp' # None => comp' = comp,
         comp = None /\ comp' # None => comp'.outs = {}
  PROVE  NumbersInv'
  <1>1. PICK K \in SUBSET Writes : Unique(K) /\ RunningOn(K)
    BY DEF NumbersInv
  <1>2. \A v \in DOMAIN versions' : \A t \in versions'[v].files : tables'[t].data \subseteq K
    BY <1>1 DEF RunningOn, VersionsOf
  <1>3. EditOf(K)'
    BY <1>1 DEF RunningOn, EditOf, Holds, LastEdit
  <1>4. OutputsApart'
    <2>1. Needed(current)' = Needed(current)
      BY DEF Needed
    <2> QED
      BY <1>1, <2>1 DEF RunningOn, OutputsApart, Merging
  <1>5. RunningOn(K)'
    BY <1>1, <1>2, <1>3, <1>4, RunningKeeps
  <1> QED
    BY <1>1, <1>5, UpNumbers

LEMMA NewIteratorNumbers ==
  ASSUME Inv, Inv', NumbersInv, NewIterator
  PROVE  NumbersInv'
  <1>1. /\ phase = "up" /\ phase' = phase
        /\ reader' = CurrentVersion(versions) /\ versions' = Ref(versions, reader')
        /\ logs' = logs /\ tables' = tables /\ manifests' = manifests /\ current' = current
        /\ vset' = vset /\ mem' = mem /\ imm' = imm /\ edit' = edit /\ comp' = comp
    BY DEF NewIterator, disk, memory, background
  <1>2. PICK vs, c : vs = versions /\ c = reader' /\ versions' = Ref(vs, c)
    BY <1>1
  <1>3. \A v \in DOMAIN Ref(vs, c) : v \in DOMAIN vs /\ Ref(vs, c)[v].files = vs[v].files
    <2>1. IsDirectory(vs, VersionRecords) /\ c \in DOMAIN vs
      <3>1. IsDirectory(vs, VersionRecords)
        BY <1>2 DEF Inv, TypeOK
      <3>2. PICK d \in DOMAIN vs : \A v \in DOMAIN vs : v <= d
        BY <1>1, <1>2 DEF Inv, RunningSound, VersionsHeld, Up
      <3>3. CurrentVersion(vs) = d
        BY <3>1, <3>2, CurrentIs
      <3> QED
        BY <1>1, <1>2, <3>1, <3>2, <3>3
    <2>2. Taken(Ref(vs, c), vs, c)
      BY <2>1, RefFacts
    <2> QED
      BY <2>2 DEF Taken
  <1> QED
    BY <1>1, <1>2, <1>3, QuietNumbers DEF Up

LEMMA StartCompactionNumbers ==
  ASSUME Inv, Inv', NumbersInv, StartCompaction
  PROVE  NumbersInv'
  <1>1. /\ phase = "up" /\ phase' = phase /\ comp = None
        /\ comp' = [v |-> CurrentVersion(versions), inputs |-> CurrentFiles,
                    outs |-> {}, done |-> FALSE]
        /\ versions' = Ref(versions, comp'.v)
        /\ logs' = logs /\ tables' = tables /\ manifests' = manifests /\ current' = current
        /\ vset' = vset /\ mem' = mem /\ imm' = imm /\ edit' = edit
    BY DEF StartCompaction, disk, memory
  <1>2. PICK vs, c : vs = versions /\ c = CurrentVersion(versions)
    OBVIOUS
  <1>3. comp'.v = c /\ comp'.outs = {} /\ versions' = Ref(vs, c)
    BY <1>1, <1>2
  <1>4. \A v \in DOMAIN Ref(vs, c) : v \in DOMAIN vs /\ Ref(vs, c)[v].files = vs[v].files
    <2>1. IsDirectory(vs, VersionRecords) /\ c \in DOMAIN vs
      <3>1. IsDirectory(vs, VersionRecords)
        BY <1>2 DEF Inv, TypeOK
      <3>2. PICK d \in DOMAIN vs : \A v \in DOMAIN vs : v <= d
        BY <1>1, <1>2 DEF Inv, RunningSound, VersionsHeld, Up
      <3>3. CurrentVersion(vs) = d
        BY <3>1, <3>2, CurrentIs
      <3> QED
        BY <1>2, <3>1, <3>2, <3>3
    <2>2. Taken(Ref(vs, c), vs, c)
      BY <2>1, RefFacts
    <2> QED
      BY <2>2 DEF Taken
  <1> QED
    BY <1>1, <1>2, <1>3, <1>4, QuietNumbers DEF Up

\* A reference less leaves the files of a version alone.
LEMMA UnrefFiles ==
  ASSUME NEW vs, IsDirectory(vs, VersionRecords), NEW v \in DOMAIN vs
  PROVE  \A u \in DOMAIN Unref(vs, v) : u \in DOMAIN vs /\ Unref(vs, v)[u].files = vs[u].files
  <1>1. CASE vs[v].refs = 1
    BY <1>1 DEF Unref, Destroyed, Without, Restrict1
  <1>2. CASE vs[v].refs # 1
    <2>1. vs[v] \in VersionRecords
      BY DEF IsDirectory
    <2>2. PICK q : q = [vs[v] EXCEPT !.refs = vs[v].refs - 1]
      OBVIOUS
    <2>3. q.files = vs[v].files
      BY <2>1, <2>2 DEF VersionRecords
    <2>4. Unref(vs, v) = [vs EXCEPT ![v] = q]
      BY <1>2, <2>2 DEF Unref
    <2> QED
      BY <2>3, <2>4
  <1> QED
    BY <1>1, <1>2

LEMMA CleanupIteratorStateNumbers ==
  ASSUME Inv, Inv', NumbersInv, CleanupIteratorState
  PROVE  NumbersInv'
  <1>1. /\ phase' = phase /\ reader # 0 /\ versions' = Unref(versions, reader)
        /\ logs' = logs /\ tables' = tables /\ manifests' = manifests /\ current' = current
        /\ vset' = vset /\ mem' = mem /\ imm' = imm /\ edit' = edit /\ comp' = comp
    BY DEF CleanupIteratorState, disk, memory, background
  <1>2. phase \in Up
    BY <1>1 DEF Inv, Resting
  <1>3. PICK vs, r : vs = versions /\ r = reader
    OBVIOUS
  <1>4. IsDirectory(vs, VersionRecords) /\ r \in DOMAIN vs
    BY <1>1, <1>2, <1>3 DEF Inv, TypeOK, RunningSound, VersionsHeld
  <1>5. \A v \in DOMAIN Unref(vs, r) : v \in DOMAIN vs /\ Unref(vs, r)[v].files = vs[v].files
    BY <1>4, UnrefFiles
  <1> QED
    BY <1>1, <1>2, <1>3, <1>5, QuietNumbers

\* A compaction that fails changes its version's references only.
LEMMA CleanupNumbers ==
  ASSUME Inv, Inv', NumbersInv, phase \in Up, phase' = phase, comp # None, Cleanup,
         edit' \in {None, edit}, UNCHANGED <<disk, vset, mem, imm>>
  PROVE  NumbersInv'
  <1>1. /\ versions' = Unref(versions, comp.v) /\ comp' = None
        /\ logs' = logs /\ tables' = tables /\ manifests' = manifests /\ current' = current
        /\ vset' = vset /\ mem' = mem /\ imm' = imm
    BY DEF Cleanup, disk
  <1>2. PICK vs, r : vs = versions /\ r = comp.v
    OBVIOUS
  <1>3. IsDirectory(vs, VersionRecords) /\ r \in DOMAIN vs
    BY <1>1, <1>2 DEF Inv, TypeOK, RunningSound, VersionsHeld
  <1>4. \A v \in DOMAIN Unref(vs, r) : v \in DOMAIN vs /\ Unref(vs, r)[v].files = vs[v].files
    BY <1>3, UnrefFiles
  <1> QED
    BY <1>1, <1>2, <1>4, QuietNumbers

LEMMA LogAndApplyFailsNumbers ==
  ASSUME Inv, Inv', NumbersInv, LogAndApplyFails
  PROVE  NumbersInv'
  <1>1. /\ phase \in Up /\ phase' = phase /\ edit # None /\ edit' = None
        /\ UNCHANGED <<disk, vset, memory>>
    BY DEF LogAndApplyFails, Running, Up
  <1>2. CASE flush = None
    <2>1. comp # None
      BY <1>1, <1>2 DEF Inv, RunningSound, OutputsHeld
    <2>2. Cleanup
      BY <1>2 DEF LogAndApplyFails
    <2> QED
      BY <1>1, <2>1, <2>2, CleanupNumbers DEF memory
  <1>3. CASE flush # None
    <2>1. comp' = comp /\ versions' = versions
      BY <1>3 DEF LogAndApplyFails
    <2> QED
      BY <1>1, <2>1, QuietNumbers DEF disk, memory
  <1> QED
    BY <1>2, <1>3

LEMMA CloseNumbers ==
  ASSUME Inv, Inv', NumbersInv, Close
  PROVE  NumbersInv'
  BY QuietNumbers DEF Close, disk, memory, background, Up

LEMMA CloseDoneNumbers ==
  ASSUME Inv, NumbersInv, CloseDone
  PROVE  NumbersInv'
  <1>1. /\ phase' = "down" /\ mem' = {} /\ imm' = {}
        /\ logs' = logs /\ tables' = tables /\ manifests' = manifests /\ current' = current
    BY DEF CloseDone, Forget, disk
  <1>2. PICK n : n = current
    OBVIOUS
  <1>3. n # 0 => Numbered(n)'
    BY <1>1, <1>2, NumberedSame DEF NumbersInv
  <1> QED
    BY <1>1, <1>2, <1>3, DownNumbers

\* A write has a number that no other has.
LEMMA WriteNumbers ==
  ASSUME Inv, Inv', NumbersInv, NEW sync \in BOOLEAN, Write(sync)
  PROVE  NumbersInv'
  <1>1. PICK last \in Nat : last = vset.last
    BY DEF Inv, TypeOK
  <1>2. PICK w \in Writes : w = <<last + 1, written + 1>> /\ w[1] = last + 1
    <2>1. PICK m, n \in Nat : m = last + 1 /\ n = written + 1
      BY DEF Inv, TypeOK
    <2>2. <<m, n>> \in Nat \X Nat /\ <<m, n>>[1] = m
      OBVIOUS
    <2> QED
      BY <2>1, <2>2 DEF Writes
  <1>3. PICK l, recs : l = logfile /\ recs = Append(logs[l].recs, w)
    OBVIOUS
  <1>4. /\ phase = "up" /\ phase' = phase
        /\ logs' = [logs EXCEPT ![l] = [recs |-> recs, synced |-> IF sync THEN Len(recs) ELSE @.synced]]
        /\ mem' = mem \cup {w} /\ vset' = [vset EXCEPT !.last = last + 1]
        /\ tables' = tables /\ manifests' = manifests /\ current' = current
        /\ versions' = versions /\ imm' = imm /\ edit' = edit /\ comp' = comp
    BY <1>1, <1>2, <1>3 DEF Write, background
  <1>5. PICK K \in SUBSET Writes : Unique(K) /\ RunningOn(K)
    BY <1>4 DEF NumbersInv, Up
  <1>6. PICK N \in SUBSET Writes : N = K \cup {w}
    OBVIOUS
  <1>7. \A a \in K : a[1] \in Nat /\ a[1] <= last
    BY <1>1, <1>5 DEF RunningOn, MemoryOf, UpTo, Writes
  <1>8. Unique(N) /\ UpTo(N, last + 1)
    BY <1>2, <1>5, <1>6, <1>7 DEF Unique, UpTo
  <1>9. vset'.last = last + 1
    BY <1>1, <1>4 DEF Inv, TypeOK
  <1>10. MemoryOf(N)'
    BY <1>4, <1>5, <1>6, <1>8, <1>9 DEF RunningOn, MemoryOf
  <1>11. LogsOf(N)'
    <2>1. SUFFICES ASSUME NEW n \in DOMAIN logs' PROVE RecordsOf(logs'[n]) \subseteq N
      BY DEF LogsOf
    <2>2. n \in DOMAIN logs /\ RecordsOf(logs[n]) \subseteq K
      BY <1>4, <1>5 DEF RunningOn, LogsOf
    <2>3. CASE n = l
      <3>1. PICK old \in Seq(Writes) : old = logs[n].recs
        BY <2>2 DEF Inv, TypeOK, IsDirectory, LogFiles
      <3>2. logs'[n].recs = recs
        BY <1>4, <2>2, <2>3
      <3>3. recs = Append(old, w)
        BY <1>3, <2>3, <3>1
      <3>4. \A i \in 1..Len(recs) : recs[i] = w \/ \E j \in 1..Len(old) : recs[i] = old[j]
        BY <3>1, <3>3
      <3>5. RecordsOf(logs'[n]) = {recs[i] : i \in 1..Len(recs)}
        BY <3>2 DEF RecordsOf
      <3>6. \A j \in 1..Len(old) : old[j] \in K
        BY <2>2, <3>1 DEF RecordsOf
      <3> QED
        BY <1>6, <3>4, <3>5, <3>6
    <2>4. CASE n # l
      BY <1>4, <1>6, <2>2, <2>4
    <2> QED
      BY <2>3, <2>4
  <1>12. VersionsOf(N)'
    BY <1>4, <1>5, <1>6 DEF RunningOn, VersionsOf
  <1>13. LastEdit(current).last \in Nat /\ (edit # None => edit.last \in Nat)
    <2>1. current # 0 /\ opened /\ OutputsHeld /\ Sound(current) /\ TypeOK
      BY <1>4 DEF Inv, RunningSound, DiskSound, Up
    <2>2. PICK c : c = current
      OBVIOUS
    <2>3. LastEdit(c) \in Edits /\ AllSet(LastEdit(c))
      BY <2>1, <2>2, SoundFacts
    <2>4. edit # None => edit \in Edits /\ AllSet(edit)
      BY <2>1 DEF TypeOK, OutputsHeld
    <2> QED
      BY <2>2, <2>3, <2>4 DEF Edits, Fields, AllSet
  <1>14. ManifestOf(N)'
    <2>1. LastEdit(current)' = LastEdit(current)
      BY <1>4 DEF LastEdit
    <2>2. LastEdit(current).last <= last + 1
      BY <1>1, <1>5, <1>13 DEF RunningOn, ManifestOf
    <2> QED
      BY <1>4, <1>5, <1>6, <1>9, <2>1, <2>2 DEF RunningOn, ManifestOf, Holds
  <1>15. EditOf(N)'
    <2>1. edit # None => edit.last <= last + 1
      BY <1>1, <1>5, <1>13 DEF RunningOn, EditOf
    <2> QED
      BY <1>4, <1>5, <1>6, <1>9, <2>1 DEF RunningOn, EditOf, Holds, LastEdit
  <1>16. OutputsApart'
    BY <1>4, <1>5 DEF RunningOn, OutputsApart, Merging, Needed
  <1>17. RunningOn(N)'
    BY <1>10, <1>11, <1>12, <1>14, <1>15, <1>16 DEF RunningOn
  <1> QED
    BY <1>4, <1>8, <1>17, UpNumbers DEF Up

LEMMA SwitchMemTableNumbers ==
  ASSUME Inv, Inv', NumbersInv, SwitchMemTable
  PROVE  NumbersInv'
  <1>1. PICK x, n : x = [recs |-> <<>>, synced |-> 0] /\ n = vset.next_file
    OBVIOUS
  <1>2. /\ phase = "up" /\ phase' = phase /\ logs' = Put(logs, n, x)
        /\ vset' = [vset EXCEPT !.next_file = vset.next_file + 1]
        /\ imm' = {mem} /\ mem' = {}
        /\ tables' = tables /\ manifests' = manifests /\ current' = current
        /\ versions' = versions /\ edit' = edit /\ comp' = comp
    BY <1>1 DEF SwitchMemTable, background
  <1>3. PICK K \in SUBSET Writes : Unique(K) /\ RunningOn(K)
    BY <1>2 DEF NumbersInv, Up
  <1>4. vset'.last = vset.last
    BY <1>2 DEF Inv, TypeOK
  <1>5. LogsOf(K)'
    <2>1. RecordsOf(x) = {}
      BY <1>1, NoRecords
    <2> QED
      BY <1>2, <1>3, <2>1 DEF RunningOn, LogsOf, Put
  <1>6. MemoryOf(K)'
    BY <1>2, <1>3, <1>4 DEF RunningOn, MemoryOf
  <1>7. VersionsOf(K)' /\ OutputsApart'
    BY <1>2, <1>3 DEF RunningOn, VersionsOf, OutputsApart, Merging, Needed
  <1>8. ManifestOf(K)' /\ EditOf(K)'
    BY <1>2, <1>3, <1>4 DEF RunningOn, ManifestOf, EditOf, Holds, LastEdit
  <1>9. RunningOn(K)'
    BY <1>5, <1>6, <1>7, <1>8 DEF RunningOn
  <1> QED
    BY <1>2, <1>3, <1>9, UpNumbers DEF Up

-----------------------------------------------------------------------------
(***************************************************************************)
(* The background thread's tables.                                         *)
(***************************************************************************)

\* What the running database needs is there.
LEMMA RunningNeeds ==
  ASSUME Inv, phase \in Up, NEW t
  PROVE  /\ t \in Needed(current) => t \in DOMAIN tables
         /\ \A v \in DOMAIN versions : t \in versions[v].files => t \in DOMAIN tables /\ t # vset.next_file
         /\ edit # None /\ t \in edit.add => t \in DOMAIN tables
  <1>1. TypeOK /\ opened /\ Sound(current) /\ VersionsHeld /\ OutputsHeld
    BY DEF Inv, RunningSound, DiskSound
  <1>2. PICK c : c = current
    OBVIOUS
  <1>3. t \in Needed(c) => Whole(t)
    BY <1>1, <1>2, SoundFacts
  <1>4. \A v \in DOMAIN versions : versions[v].files \in SUBSET Nat
    BY <1>1 DEF TypeOK, IsDirectory, VersionRecords
  <1>5. \A v \in DOMAIN versions : t \in versions[v].files => t < vset.next_file /\ Whole(t)
    BY <1>1 DEF VersionsHeld
  <1>6. edit # None /\ t \in edit.add => Whole(t)
    BY <1>1 DEF OutputsHeld
  <1>7. vset.next_file \in Nat
    BY <1>1 DEF TypeOK
  <1>8. \A v \in DOMAIN versions : t \in versions[v].files => t # vset.next_file
    BY <1>4, <1>5, <1>7
  <1> QED
    BY <1>2, <1>3, <1>5, <1>6, <1>8 DEF Whole

\* A table of the next number, that is of no version yet.
LEMMA NewTableNumbers ==
  ASSUME Inv, Inv', NumbersInv, phase \in Up, phase' \in Up, edit = None, edit' = None,
         NEW x \in TableFiles, tables' = Put(tables, vset.next_file, x),
         vset' = [vset EXCEPT !.next_file = vset.next_file + 1],
         manifests' = manifests, current' = current, logs' = logs, mem' = mem, imm' = imm,
         \A v \in DOMAIN versions' : v \in DOMAIN versions /\ versions'[v].files = versions[v].files,
         comp' # None => comp # None /\ comp'.done = comp.done
                         /\ comp'.outs \subseteq comp.outs \cup {vset.next_file}
  PROVE  NumbersInv'
  <1>1. PICK n, t : n = current /\ t = vset.next_file
    OBVIOUS
  <1>2. PICK K \in SUBSET Writes : Unique(K) /\ RunningOn(K)
    BY DEF NumbersInv
  <1>3. t \notin Needed(n)
    <2>1. opened' = opened
      BY DEF Inv, RunningSound
    <2> QED
      BY <1>1, <2>1, NewTable
  <1>4. \A u \in DOMAIN tables : u # t => tables'[u] = tables[u]
    BY <1>1 DEF Put
  <1>5. \A u \in Needed(current) : tables'[u].data = tables[u].data
    BY <1>1, <1>3, <1>4, RunningNeeds
  <1>6. \A v \in DOMAIN versions' : \A u \in versions'[v].files : tables'[u].data \subseteq K
    BY <1>1, <1>2, <1>4, RunningNeeds DEF RunningOn, VersionsOf
  <1>7. Needed(current)' = Needed(current)
    BY DEF Needed
  <1>8. OutputsApart'
    BY <1>1, <1>2, <1>3, <1>7 DEF RunningOn, OutputsApart, Merging
  <1>9. EditOf(K)'
    BY DEF EditOf
  <1>10. vset'.last = vset.last
    BY DEF Inv, TypeOK
  <1>11. RunningOn(K)'
    BY <1>2, <1>5, <1>6, <1>8, <1>9, <1>10, RunningKeeps
  <1> QED
    BY <1>2, <1>11, UpNumbers

LEMMA WriteLevel0TableNumbers ==
  ASSUME Inv, Inv', NumbersInv, WriteLevel0Table
  PROVE  NumbersInv'
  <1>1. PICK x \in TableFiles : x = [data |-> {}, whole |-> FALSE, level |-> 0]
    <2>1. [data |-> {}, whole |-> FALSE, level |-> 0] \in TableFiles
      BY DEF TableFiles
    <2> QED
      BY <2>1
  <1>2. PICK vs, c : vs = versions /\ c = CurrentVersion(versions)
    OBVIOUS
  <1>3. /\ phase = "up" /\ phase' = phase /\ edit = None /\ edit' = edit
        /\ tables' = Put(tables, vset.next_file, x)
        /\ vset' = [vset EXCEPT !.next_file = vset.next_file + 1]
        /\ versions' = Ref(vs, c)
        /\ manifests' = manifests /\ current' = current /\ logs' = logs
        /\ mem' = mem /\ imm' = imm /\ comp' = comp
    BY <1>1, <1>2 DEF WriteLevel0Table, memory
  <1>4. \A v \in DOMAIN Ref(vs, c) : v \in DOMAIN vs /\ Ref(vs, c)[v].files = vs[v].files
    <2>1. IsDirectory(vs, VersionRecords) /\ c \in DOMAIN vs
      <3>1. IsDirectory(vs, VersionRecords)
        BY <1>2 DEF Inv, TypeOK
      <3>2. PICK d \in DOMAIN vs : \A v \in DOMAIN vs : v <= d
        BY <1>2, <1>3 DEF Inv, RunningSound, VersionsHeld, Up
      <3>3. CurrentVersion(vs) = d
        BY <3>1, <3>2, CurrentIs
      <3> QED
        BY <1>2, <3>1, <3>2, <3>3
    <2>2. Taken(Ref(vs, c), vs, c)
      BY <2>1, RefFacts
    <2> QED
      BY <2>2 DEF Taken
  <1> QED
    BY <1>1, <1>2, <1>3, <1>4, NewTableNumbers DEF Up

LEMMA OpenCompactionOutputFileNumbers ==
  ASSUME Inv, Inv', NumbersInv, OpenCompactionOutputFile
  PROVE  NumbersInv'
  <1>1. PICK x \in TableFiles : x = [data |-> {}, whole |-> FALSE, level |-> 0]
    <2>1. [data |-> {}, whole |-> FALSE, level |-> 0] \in TableFiles
      BY DEF TableFiles
    <2> QED
      BY <2>1
  <1>2. /\ phase = "up" /\ phase' = phase /\ comp # None /\ ~comp.done /\ flush = None
        /\ comp' = [comp EXCEPT !.outs = {vset.next_file}]
        /\ tables' = Put(tables, vset.next_file, x)
        /\ vset' = [vset EXCEPT !.next_file = vset.next_file + 1]
        /\ versions' = versions /\ edit' = edit
        /\ manifests' = manifests /\ current' = current /\ logs' = logs
        /\ mem' = mem /\ imm' = imm
    BY <1>1 DEF OpenCompactionOutputFile, Merging, memory
  <1>3. edit = None
    BY <1>2 DEF Inv, RunningSound, OutputsHeld, Up
  <1>4. comp'.done = comp.done /\ comp'.outs = {vset.next_file}
    BY <1>2 DEF Inv, TypeOK
  <1> QED
    BY <1>1, <1>2, <1>3, <1>4, NewTableNumbers DEF Up

LEMMA BuildTableNumbers ==
  ASSUME Inv, Inv', NumbersInv, BuildTable
  PROVE  NumbersInv'
  <1>1. /\ phase \in Up /\ phase' = phase /\ flush # None /\ edit = None
        /\ versions' = Unref(versions, flush.base)
        /\ logs' = logs /\ manifests' = manifests /\ current' = current
        /\ vset' = vset /\ mem' = mem /\ imm' = imm /\ comp' = comp
    BY DEF BuildTable, Running, Up, memory
  <1>2. PICK n, t, last : n = current /\ t = flush.number /\ last = vset.last
    OBVIOUS
  <1>3. /\ VersionsHeld /\ OutputsHeld /\ TypeOK
        /\ t \in DOMAIN tables /\ (comp # None => t \notin comp.outs)
        /\ \A v \in DOMAIN versions : t \notin versions[v].files
        /\ t \notin Needed(n)
    BY <1>1, <1>2 DEF Inv, RunningSound, OutputsHeld, Needed
  <1>4. PICK K \in SUBSET Writes : Unique(K) /\ RunningOn(K)
    BY <1>1 DEF NumbersInv
  <1>5. \A v \in DOMAIN versions' : v \in DOMAIN versions /\ versions'[v].files = versions[v].files
    <2>1. PICK vs, r : vs = versions /\ r = flush.base
      OBVIOUS
    <2>2. IsDirectory(vs, VersionRecords) /\ r \in DOMAIN vs
      BY <1>1, <1>3, <2>1 DEF TypeOK, VersionsHeld
    <2>3. \A v \in DOMAIN Unref(vs, r) : v \in DOMAIN vs /\ Unref(vs, r)[v].files = vs[v].files
      BY <2>2, UnrefFiles
    <2> QED
      BY <1>1, <2>1, <2>3
  <1>6. UNION imm \subseteq K /\ UpTo(K, last)
    BY <1>2, <1>4 DEF RunningOn, MemoryOf
  \* The table holds the memtable, or it is gone.
  <1>7. /\ \A u \in DOMAIN tables : u # t => tables'[u] = tables[u]
        /\ \/ edit' = None
           \/ /\ edit' = Edit(logfile, vset.next_file, last, {}, {t})
              /\ tables'[t].data = UNION imm
    <2>1. CASE /\ tables' = [tables EXCEPT ![flush.number] =
                               [data |-> UNION imm, whole |-> TRUE, level |-> 0]]
               /\ IF phase = "closing"
                  THEN flush' = None /\ bg_ok' = FALSE /\ UNCHANGED edit
                  ELSE /\ edit' = Edit(logfile, vset.next_file, vset.last, {}, {flush.number})
                       /\ UNCHANGED <<flush, bg_ok>>
      <3>1. tables'[t].data = UNION imm /\ \A u \in DOMAIN tables : u # t => tables'[u] = tables[u]
        BY <1>2, <1>3, <2>1
      <3> QED
        BY <1>1, <1>2, <2>1, <3>1
    <2>2. CASE tables' = Without(tables, flush.number) /\ UNCHANGED edit
      BY <1>1, <1>2, <2>2 DEF Without, Restrict1
    <2> QED
      BY <2>1, <2>2 DEF BuildTable
  <1>8. \A u \in Needed(current) : tables'[u].data = tables[u].data
    BY <1>1, <1>2, <1>3, <1>7, RunningNeeds
  <1>9. \A v \in DOMAIN versions' : \A u \in versions'[v].files : tables'[u].data \subseteq K
    BY <1>1, <1>3, <1>4, <1>5, <1>7, RunningNeeds DEF RunningOn, VersionsOf
  <1>10. Needed(current)' = Needed(current)
    BY <1>1 DEF Needed
  <1>11. edit' # None => /\ edit'.add = {t} /\ edit'.last = last
                         /\ Holds(t, K, last)'
    BY <1>6, <1>7 DEF Edit, Holds, UpTo
  <1>12. EditOf(K)'
    <2>1. last \in Nat /\ last <= last
      BY <1>2, <1>3 DEF TypeOK
    <2>2. LastEdit(current).last <= last
      BY <1>2, <1>4 DEF RunningOn, ManifestOf
    <2>3. LastEdit(current)' = LastEdit(current)
      BY <1>1 DEF LastEdit
    <2> QED
      BY <1>1, <1>2, <1>11, <2>1, <2>2, <2>3 DEF EditOf
  <1>13. OutputsApart'
    BY <1>1, <1>3, <1>4, <1>10, <1>11 DEF RunningOn, OutputsApart, Merging
  <1>14. RunningOn(K)'
    BY <1>1, <1>4, <1>8, <1>9, <1>12, <1>13, RunningKeeps
  <1> QED
    BY <1>1, <1>4, <1>14, UpNumbers

LEMMA FinishCompactionOutputFileNumbers ==
  ASSUME Inv, Inv', NumbersInv, FinishCompactionOutputFile
  PROVE  NumbersInv'
  <1>1. /\ phase \in Up /\ phase' = phase /\ comp # None /\ ~comp.done /\ flush = None /\ edit = None
        /\ logs' = logs /\ manifests' = manifests /\ current' = current
        /\ vset' = vset /\ mem' = mem /\ imm' = imm /\ temps' = temps
    BY DEF FinishCompactionOutputFile, Running, Up, Merging, memory
  <1>2. CASE CompactionFails /\ UNCHANGED <<tables, edit>>
    BY <1>1, <1>2, CleanupNumbers DEF CompactionFails, disk
  <1>3. CASE /\ tables' = [n \in DOMAIN tables |->
                  IF n \in comp.outs
                  THEN [data |-> UNION {tables[i].data : i \in comp.inputs},
                        whole |-> TRUE, level |-> 1]
                  ELSE tables[n]]
             /\ edit' = Edit(vset.log_number, vset.next_file, vset.last, comp.inputs, comp.outs)
             /\ comp' = [comp EXCEPT !.done = TRUE]
             /\ versions' = versions
    <2>1. PICK outs, data, last : /\ outs = comp.outs /\ last = vset.last
                                  /\ data = UNION {tables[i].data : i \in comp.inputs}
      OBVIOUS
    <2>2. /\ \A u \in DOMAIN tables : u \notin outs => tables'[u] = tables[u]
          /\ \A u \in DOMAIN tables : u \in outs => tables'[u].data = data
      BY <1>3, <2>1
    <2>3. /\ VersionsHeld /\ OutputsHeld /\ TypeOK
          /\ outs \subseteq DOMAIN tables
      BY <1>1, <2>1 DEF Inv, RunningSound, OutputsHeld
    <2>4. PICK K \in SUBSET Writes : Unique(K) /\ RunningOn(K)
      BY <1>1 DEF NumbersInv
    <2>5. data \subseteq K /\ UpTo(K, last)
      <3>1. comp.v \in DOMAIN versions /\ comp.inputs = versions[comp.v].files
        BY <1>1, <2>3 DEF VersionsHeld
      <3>2. \A i \in comp.inputs : tables[i].data \subseteq K
        BY <2>4, <3>1 DEF RunningOn, VersionsOf
      <3>3. UpTo(K, last)
        BY <2>1, <2>4 DEF RunningOn, MemoryOf
      <3> QED
        BY <2>1, <3>2, <3>3
    <2>6. \A u \in outs : u \notin Needed(current)
      BY <1>1, <2>1, <2>4 DEF RunningOn, OutputsApart, Merging
    <2>7. \A u \in Needed(current) : tables'[u].data = tables[u].data
      BY <1>1, <2>2, <2>6, RunningNeeds
    <2>8. \A v \in DOMAIN versions' : \A u \in versions'[v].files : tables'[u].data \subseteq K
      <3>1. SUFFICES ASSUME NEW v \in DOMAIN versions, NEW u \in versions[v].files
                     PROVE  tables'[u].data \subseteq K
        BY <1>3
      <3>2. u \in DOMAIN tables /\ tables[u].data \subseteq K
        BY <1>1, <2>4, <3>1, RunningNeeds DEF RunningOn, VersionsOf
      <3> QED
        BY <2>2, <2>5, <3>2
    <2>9. edit'.add = outs /\ edit'.last = last /\ \A u \in outs : Holds(u, K, last)'
      BY <1>3, <2>1, <2>2, <2>3, <2>5 DEF Edit, Holds, UpTo
    <2>10. EditOf(K)'
      <3>1. last \in Nat /\ last <= last
        BY <2>1, <2>3 DEF TypeOK
      <3>2. LastEdit(current).last <= last
        BY <2>1, <2>4 DEF RunningOn, ManifestOf
      <3>3. LastEdit(current)' = LastEdit(current)
        BY <1>1 DEF LastEdit
      <3> QED
        BY <1>1, <2>1, <2>9, <3>1, <3>2, <3>3 DEF EditOf
    <2>11. ~Merging'
      <3>1. comp'.done
        BY <1>1, <1>3, <2>3 DEF TypeOK
      <3> QED
        BY <3>1 DEF Merging
    <2>12. RunningOn(K)'
      BY <1>1, <2>4, <2>7, <2>8, <2>10, <2>11, RunningKeeps DEF OutputsApart
    <2> QED
      BY <1>1, <2>4, <2>12, UpNumbers
  <1> QED
    BY <1>2, <1>3 DEF FinishCompactionOutputFile

-----------------------------------------------------------------------------
(***************************************************************************)
(* LogAndApply.                                                            *)
(***************************************************************************)

LEMMA HoldsMore ==
  ASSUME TypeOK, NEW t \in DOMAIN tables, NEW K, NEW m \in Nat, NEW n \in Nat, m <= n, Holds(t, K, m)
  PROVE  Holds(t, K, n)
  <1>1. tables[t].data \in SUBSET Writes
    BY DEF TypeOK, IsDirectory, TableFiles
  <1>2. \A a \in tables[t].data : a[1] \in Nat
    BY <1>1 DEF Writes
  <1> QED
    BY <1>2 DEF Holds, UpTo

LEMMA LogEditNumbers ==
  ASSUME Inv, Inv', NumbersInv, LogEdit
  PROVE  NumbersInv'
  <1>1. TypeOK
    BY DEF Inv
  <1>2. PICK m : m = vset.manifest
    OBVIOUS
  <1>3. /\ phase \in Up /\ phase' = phase /\ edit # None /\ ~edit.logged
        /\ edit' = [edit EXCEPT !.logged = TRUE]
        /\ manifests' = [manifests EXCEPT ![m].edits = Append(@, edit)]
        /\ logs' = logs /\ tables' = tables /\ current' = current /\ vset' = vset
        /\ versions' = versions /\ mem' = mem /\ imm' = imm /\ comp' = comp
    BY <1>2 DEF LogEdit, Running, Up, memory, background
  <1>4. opened /\ current = m /\ OutputsHeld /\ Sound(m)
    BY <1>2, <1>3 DEF Inv, RunningSound, DiskSound
  <1>5. PICK e \in Edits : e = edit /\ e.last \in Nat
    <2>1. edit \in Edits /\ AllSet(edit)
      BY <1>1, <1>3, <1>4 DEF TypeOK, OutputsHeld
    <2> QED
      BY <2>1 DEF Edits, Fields, AllSet
  <1>6. PICK es \in Seq(Edits), s \in Nat, l \in Nat :
          /\ es = manifests[m].edits /\ s = manifests[m].synced
          /\ l = Len(es) /\ s <= l /\ l >= 1
          /\ LastEdit(m) = es[l] /\ es[l].last \in Nat
    <2>1. /\ manifests[m].edits \in Seq(Edits) /\ manifests[m].synced \in Nat
          /\ manifests[m].synced <= Len(manifests[m].edits) /\ Len(manifests[m].edits) >= 1
          /\ LastEdit(m) \in Edits /\ AllSet(LastEdit(m))
      BY <1>1, <1>4, SoundFacts
    <2>2. LastEdit(m).last \in Nat
      BY <2>1 DEF Edits, Fields, AllSet
    <2> QED
      BY <2>1, <2>2 DEF LastEdit
  <1>7. PICK es2 \in Seq(Edits) :
          /\ es2 = Append(es, e) /\ Len(es2) = l + 1 /\ es2[l + 1] = e
          /\ \A k \in 1..l : es2[k] = es[k]
          /\ \A k \in 0..l : FilesAt(es2, k) = FilesAt(es, k)
          /\ FilesAt(es2, l + 1) = Applied(FilesAt(es, l), e)
    <2>1. PICK a : a = Append(es, e)
      OBVIOUS
    <2>2. /\ a \in Seq(Edits) /\ Len(a) = Len(es) + 1 /\ a[Len(es) + 1] = e
          /\ \A k \in 1..Len(es) : a[k] = es[k]
          /\ \A k \in 0..Len(es) : FilesAt(a, k) = FilesAt(es, k)
          /\ FilesAt(a, Len(es) + 1) = Applied(FilesAt(es, Len(es)), e)
      BY <2>1, FilesAppend
    <2> QED
      BY <1>6, <2>1, <2>2
  <1>8. manifests'[m].edits = es2 /\ manifests'[m].synced = s
    <2>1. PICK f, r : f = manifests /\ r = f[m] /\ IsDirectory(f, Manifests) /\ m \in DOMAIN f
      BY <1>1, <1>4 DEF TypeOK, Sound
    <2>2. r \in Manifests /\ r.edits = es /\ r.synced = s
      BY <1>6, <2>1 DEF IsDirectory
    <2>3. [r EXCEPT !.edits = es2].edits = es2 /\ [r EXCEPT !.edits = es2].synced = s
      BY <2>2 DEF Manifests
    <2>4. manifests' = [f EXCEPT ![m] = [r EXCEPT !.edits = es2]]
      BY <1>3, <1>5, <1>7, <2>1, <2>2
    <2> QED
      BY <2>1, <2>3, <2>4
  <1>9. PICK K \in SUBSET Writes : Unique(K) /\ RunningOn(K)
    BY <1>3 DEF NumbersInv
  <1>10. PICK base \in SUBSET Nat : base = FilesAt(es, l) /\ base \subseteq Needed(m)
    <2>1. l \in 0..Len(es) /\ l \in s..l
      BY <1>6
    <2> QED
      BY <1>6, <2>1, FilesAtNumbers DEF Needed
  <1>11. FilesAt(es2, l + 1) \subseteq base \cup e.add
    BY <1>7, <1>10, AppliedIs
  <1>12. es[l].last <= e.last /\ \A t \in e.add : Holds(t, K, e.last)
    BY <1>3, <1>4, <1>5, <1>6, <1>9 DEF RunningOn, EditOf
  <1>13. ASSUME NEW k \in s..(l + 1), NEW t \in FilesAt(es2, k)
         PROVE  Holds(t, K, es2[k].last) /\ (t \in Needed(m) \/ t \in e.add)
    <2>1. CASE k = l + 1
      <3>1. t \in base \/ t \in e.add
        BY <1>11, <1>13, <2>1
      <3>2. CASE t \in base
        <4>1. l \in s..l
          BY <1>6
        <4>2. Holds(t, K, es[l].last)
          BY <1>4, <1>6, <1>9, <1>10, <3>2, <4>1 DEF RunningOn, ManifestOf
        <4>3. t \in DOMAIN tables
          BY <1>3, <1>4, <1>10, <3>2, RunningNeeds
        <4>4. Holds(t, K, e.last)
          BY <1>1, <1>5, <1>6, <1>12, <4>2, <4>3, HoldsMore
        <4> QED
          BY <1>7, <1>10, <2>1, <3>2, <4>4
      <3>3. CASE t \in e.add
        BY <1>7, <1>12, <2>1, <3>3
      <3> QED
        BY <3>1, <3>2, <3>3
    <2>2. CASE k # l + 1
      <3>1. k \in s..l /\ k \in 0..l
        BY <1>6, <2>2
      <3>2. k >= 1
        BY <1>4, <1>6, <3>1 DEF Sound, Readable
      <3>3. k \in 1..l
        BY <3>1, <3>2
      <3>4. t \in FilesAt(es, k) /\ es2[k] = es[k]
        BY <1>7, <1>13, <3>1, <3>3
      <3>5. Holds(t, K, es[k].last)
        BY <1>4, <1>6, <1>9, <3>1, <3>4 DEF RunningOn, ManifestOf
      <3> QED
        BY <1>6, <3>1, <3>4, <3>5 DEF Needed
    <2> QED
      BY <2>1, <2>2
  <1>14. LastEdit(m)' = e
    BY <1>7, <1>8 DEF LastEdit
  <1>15. edit'.add = e.add /\ edit'.last = e.last /\ edit'.logged /\ e.last <= vset.last
    BY <1>3, <1>5, <1>9 DEF Edits, RunningOn, EditOf
  <1>16. ManifestOf(K)'
    <2>1. \A k \in s..Len(es2) : \A t \in FilesAt(es2, k) : Holds(t, K, es2[k].last)'
      BY <1>3, <1>7, <1>13 DEF Holds
    <2>2. LastEdit(m)'.last <= vset.last
      BY <1>14, <1>15
    <2> QED
      BY <1>3, <1>4, <1>8, <2>1, <2>2 DEF ManifestOf
  <1>17. EditOf(K)'
    BY <1>3, <1>12, <1>15 DEF EditOf, Holds
  <1>18. OutputsApart'
    <2>1. \A t \in Needed(m)' : t \in Needed(m) \/ t \in e.add
      BY <1>7, <1>8, <1>13 DEF Needed
    <2> QED
      BY <1>3, <1>4, <1>5, <1>9, <1>15, <2>1 DEF RunningOn, OutputsApart, Merging
  <1>19. MemoryOf(K)' /\ LogsOf(K)' /\ VersionsOf(K)'
    BY <1>3, <1>9 DEF RunningOn, MemoryOf, LogsOf, VersionsOf
  <1>20. RunningOn(K)'
    BY <1>16, <1>17, <1>18, <1>19 DEF RunningOn
  <1> QED
    BY <1>3, <1>9, <1>20, UpNumbers

LEMMA InstallVersionNumbers ==
  ASSUME Inv, Inv', NumbersInv, InstallVersion
  PROVE  NumbersInv'
  <1>1. TypeOK /\ TypeOK'
    BY DEF Inv
  <1>2. PICK m, f, synced : /\ m = vset.manifest /\ f = manifests
                            /\ synced = [f EXCEPT ![m].synced = Len(f[m].edits)]
    OBVIOUS
  <1>3. /\ phase \in Up /\ phase' = phase /\ edit # None /\ edit.logged /\ edit' = None
        /\ (flush = None => comp' = None) /\ (flush # None => comp' = comp)
        /\ imm' = {} \/ imm' = imm
        /\ vset' = [vset EXCEPT !.log_number = edit.log]
        /\ DeleteObsoleteFiles(logs, synced, versions', pending', edit.log, bg_ok)
        /\ current' = current /\ mem' = mem
    BY <1>2 DEF InstallVersion, Running, Up
  <1>4. /\ \A t \in DOMAIN tables' : tables'[t] = tables[t]
        /\ \A n \in DOMAIN logs' : n \in DOMAIN logs /\ logs'[n] = logs[n]
        /\ \A i \in DOMAIN manifests' : manifests'[i] = synced[i]
    <2>1. PICK vs, p, n, ok : vs = versions' /\ p = pending' /\ n = edit.log /\ ok = bg_ok
      OBVIOUS
    <2>2. DeleteObsoleteFiles(logs, synced, vs, p, n, ok)
      BY <1>3, <2>1
    <2>3. /\ \A t \in DOMAIN tables' : tables'[t] = tables[t]
          /\ \A l \in DOMAIN logs' : l \in DOMAIN logs /\ logs'[l] = logs[l] /\ (ok => l >= n)
          /\ \A i \in DOMAIN manifests' : manifests'[i] = synced[i]
      BY <2>2, DeletedFacts
    <2> QED
      BY <2>3
  <1>5. current = m /\ Sound(m) /\ opened /\ VersionsHeld
    BY <1>2, <1>3 DEF Inv, RunningSound, DiskSound
  <1>6. opened' /\ Sound(m)' /\ VersionsHeld'
    BY <1>3, <1>5 DEF Inv, RunningSound, DiskSound
  <1>7. PICK es \in Seq(Edits), s \in Nat, l \in Nat :
          es = manifests[m].edits /\ s = manifests[m].synced /\ l = Len(es) /\ s <= l
    <2>1. /\ manifests[m].edits \in Seq(Edits) /\ manifests[m].synced \in Nat
          /\ manifests[m].synced <= Len(manifests[m].edits)
      BY <1>1, <1>5, SoundFacts
    <2> QED
      BY <2>1
  <1>8. manifests'[m].edits = es /\ manifests'[m].synced = l
    <2>1. m \in DOMAIN manifests' /\ m \in DOMAIN f
      BY <1>2, <1>5, <1>6 DEF Sound
    <2>2. PICK r \in Manifests : r = f[m]
      BY <1>1, <1>2, <2>1 DEF TypeOK, IsDirectory
    <2>3. [r EXCEPT !.synced = l].edits = es /\ [r EXCEPT !.synced = l].synced = l
      BY <1>2, <1>7, <2>2 DEF Manifests
    <2>4. synced[m] = [r EXCEPT !.synced = l]
      BY <1>2, <1>7, <2>1, <2>2
    <2> QED
      BY <1>4, <2>1, <2>3, <2>4
  <1>9. PICK K \in SUBSET Writes : Unique(K) /\ RunningOn(K)
    BY <1>3 DEF NumbersInv
  <1>10. vset'.last = vset.last
    BY <1>1, <1>3 DEF TypeOK
  <1>11. MemoryOf(K)' /\ LogsOf(K)' /\ EditOf(K)'
    BY <1>3, <1>4, <1>9, <1>10 DEF RunningOn, MemoryOf, LogsOf, EditOf
  <1>12. l \in s..l /\ l \in s..Len(es) /\ \A k \in l..Len(es) : k = l
    BY <1>7
  <1>13. \A t \in FilesAt(es, l) : t \in DOMAIN tables'
    <2>1. Readable(es, l, m)'
      BY <1>6, <1>7, <1>8 DEF Sound
    <2> QED
      BY <2>1 DEF Readable, Whole
  <1>14. ManifestOf(K)'
    <2>1. ASSUME NEW t \in FilesAt(es, l) PROVE Holds(t, K, es[l].last)'
      <3>1. Holds(t, K, es[l].last)
        BY <1>5, <1>7, <1>9, <1>12, <2>1 DEF RunningOn, ManifestOf
      <3> QED
        BY <1>4, <1>13, <2>1, <3>1 DEF Holds
    <2>2. LastEdit(m)' = LastEdit(m)
      BY <1>7, <1>8 DEF LastEdit
    <2> QED
      BY <1>3, <1>5, <1>7, <1>8, <1>9, <1>10, <1>12, <2>1, <2>2 DEF RunningOn, ManifestOf
  <1>15. VersionsOf(K)'
    <2>1. PICK vs, w : vs = versions /\ w = versions' /\ IsDirectory(vs, VersionRecords)
      BY <1>1 DEF TypeOK
    <2>2. PICK c \in DOMAIN vs : \A v \in DOMAIN vs : v <= c
      BY <1>5, <2>1 DEF VersionsHeld
    <2>3. /\ w[c + 1].files = Applied(CurrentFiles, edit)
          /\ CurrentVersion(vs) = c
          /\ \A u \in DOMAIN w : u # c + 1 => u \in DOMAIN vs /\ w[u].files = vs[u].files
      BY <2>1, <2>2, InstalledVersions
    <2>4. CurrentFiles = vs[c].files /\ CurrentFiles \in SUBSET Nat
      BY <2>1, <2>3 DEF CurrentFiles, IsDirectory, VersionRecords
    <2>5. Applied(CurrentFiles, edit) \subseteq CurrentFiles \cup edit.add
      <3>1. edit \in Edits
        BY <1>1, <1>3 DEF TypeOK
      <3> QED
        BY <2>4, <3>1, AppliedIs
    <2>6. \A u \in DOMAIN w : \A t \in w[u].files : tables[t].data \subseteq K
      <3>1. \A v \in DOMAIN vs : \A t \in vs[v].files : tables[t].data \subseteq K
        BY <1>9, <2>1 DEF RunningOn, VersionsOf
      <3>2. \A t \in edit.add : tables[t].data \subseteq K
        BY <1>3, <1>9 DEF RunningOn, EditOf, Holds
      <3> QED
        BY <2>3, <2>4, <2>5, <3>1, <3>2
    <2>7. \A u \in DOMAIN w : \A t \in w[u].files : t \in DOMAIN tables'
      BY <1>6, <2>1 DEF VersionsHeld, Whole
    <2> QED
      BY <1>4, <2>1, <2>6, <2>7 DEF VersionsOf
  <1>16. OutputsApart'
    <2>1. \A t \in Needed(m)' : t \in Needed(m)
      BY <1>7, <1>8, <1>12 DEF Needed
    <2> QED
      BY <1>3, <1>5, <1>9, <2>1 DEF RunningOn, OutputsApart, Merging
  <1>17. RunningOn(K)'
    BY <1>11, <1>14, <1>15, <1>16 DEF RunningOn
  <1> QED
    BY <1>3, <1>9, <1>17, UpNumbers

-----------------------------------------------------------------------------
(***************************************************************************)
(* Crashes.                                                                *)
(***************************************************************************)

LEMMA CrashNumbers ==
  ASSUME Inv, NumbersInv, Crash
  PROVE  NumbersInv'
  <1>1. TypeOK
    BY DEF Inv
  <1>2. phase' = "down" /\ mem' = {} /\ imm' = {} /\ tables' = tables /\ current' = current
    BY DEF Crash, Forget
  <1>3. /\ \A n \in DOMAIN manifests : manifests'[n] \in CutManifest(manifests[n])
        /\ DOMAIN logs' = DOMAIN logs
        /\ \A n \in DOMAIN logs : logs'[n] \in CutLog(logs[n])
    BY DEF Crash, Remains
  <1>4. ASSUME NEW n \in DOMAIN logs PROVE RecordsOf(logs'[n]) \subseteq RecordsOf(logs[n])
    <2>1. PICK recs \in Seq(Writes), s \in Nat : recs = logs[n].recs /\ s = logs[n].synced
      BY <1>1 DEF TypeOK, IsDirectory, LogFiles
    <2>2. PICK k \in s..Len(recs) : logs'[n] = [recs |-> SubSeq(recs, 1, k), synced |-> k]
      BY <1>3, <2>1 DEF CutLog
    <2>3. PICK cut : cut = SubSeq(recs, 1, k)
      OBVIOUS
    <2>4. Len(cut) = k /\ \A i \in 1..k : cut[i] = recs[i]
      <3>1. k \in 0..Len(recs)
        BY <2>1
      <3> QED
        BY <2>3, <3>1, CutFacts
    <2>5. logs'[n].recs = cut /\ \A i \in 1..k : i \in 1..Len(recs)
      BY <2>1, <2>2, <2>3
    <2> QED
      BY <2>1, <2>4, <2>5 DEF RecordsOf
  <1>5. PICK c : c = current
    OBVIOUS
  <1>6. ASSUME c # 0 PROVE Numbered(c)'
    <2>1. Sound(c) /\ c \in DOMAIN manifests /\ Numbered(c)
      BY <1>5, <1>6 DEF Inv, DiskSound, Sound, NumbersInv
    <2>2. PICK es \in Seq(Edits), s \in Nat : es = manifests[c].edits /\ s = manifests[c].synced
      BY <1>1, <2>1, SoundFacts
    <2>3. PICK k \in s..Len(es) : manifests'[c] = [edits |-> SubSeq(es, 1, k), synced |-> k]
      BY <1>3, <2>1, <2>2 DEF CutManifest
    <2>4. k \in Nat /\ k \in 0..Len(es)
      BY <2>3
    <2>5. PICK cut \in Seq(Edits) : /\ cut = SubSeq(es, 1, k) /\ Len(cut) = k
                                    /\ \A i \in 1..k : cut[i] = es[i]
                                    /\ FilesAt(cut, k) = FilesAt(es, k)
      <3>1. /\ SubSeq(es, 1, k) \in Seq(Edits) /\ Len(SubSeq(es, 1, k)) = k
            /\ \A i \in 1..k : SubSeq(es, 1, k)[i] = es[i]
        BY <2>4, CutFacts
      <3>2. k \in 0..k
        BY <2>4
      <3>3. \A i \in 0..k : FilesAt(SubSeq(es, 1, k), i) = FilesAt(es, i)
        BY <2>4, FilesCut
      <3> QED
        BY <3>1, <3>2, <3>3
    <2>6. /\ manifests'[c].edits = cut /\ manifests'[c].synced = k
          /\ \A i \in k..Len(cut) : i = k
      BY <2>3, <2>4, <2>5
    <2>7. ASSUME k >= 1 PROVE \E K \in SUBSET Writes : Unique(K) /\ Covers(cut, k, K)'
      <3>1. PICK K \in SUBSET Writes : Unique(K) /\ Covers(es, k, K)
        BY <2>1, <2>2, <2>7 DEF Numbered
      <3>2. cut[k] = es[k]
        BY <2>4, <2>5, <2>7
      <3>3. \A t \in FilesAt(cut, k) : Holds(t, K, cut[k].last)'
        BY <1>2, <2>5, <3>1, <3>2 DEF Covers, Holds
      <3>4. \A l \in DOMAIN logs' : l >= cut[k].log => RecordsOf(logs'[l]) \subseteq K
        BY <1>3, <1>4, <3>1, <3>2 DEF Covers
      <3> QED
        BY <3>1, <3>3, <3>4 DEF Covers
    <2> QED
      BY <2>6, <2>7 DEF Numbered
  <1> QED
    BY <1>2, <1>3, <1>5, <1>6, DownNumbers

LEMMA StutterNumbers ==
  ASSUME Inv, NumbersInv, UNCHANGED vars
  PROVE  NumbersInv'
  BY DEF vars, NumbersInv, Numbered, Covers, Holds, OpeningFrom, RunningOn, MemoryOf, LogsOf,
         VersionsOf, ManifestOf, EditOf, OutputsApart, Merging, Needed, LastEdit

LEMMA StepsNumbers ==
  ASSUME Inv, Inv', NumbersInv, Steps
  PROVE  NumbersInv'
  <1>1. CASE Open BY <1>1, OpenNumbers
  <1>2. CASE NewDB BY <1>2, NewDBNumbers
  <1>3. CASE WriteTempFile BY <1>3, WriteTempFileNumbers
  <1>4. CASE RenameTempFile BY <1>4, RenameTempFileNumbers
  <1>5. CASE SetCurrentFileFails BY <1>5, SetCurrentFileFailsNumbers
  <1>6. CASE Recover BY <1>6, RecoverNumbers
  <1>7. CASE RecoverLogFile BY <1>7, RecoverLogFileNumbers
  <1>8. CASE NewLog BY <1>8, NewLogNumbers
  <1>9. CASE WriteSnapshot BY <1>9, WriteSnapshotNumbers
  <1>10. CASE WriteFirstEdit BY <1>10, WriteFirstEditNumbers
  <1>11. CASE InstallFirst BY <1>11, InstallFirstNumbers
  <1>12. CASE Write(TRUE) BY <1>12, WriteNumbers
  <1>13. CASE Write(FALSE) BY <1>13, WriteNumbers
  <1>14. CASE SwitchMemTable BY <1>14, SwitchMemTableNumbers
  <1>15. CASE NewIterator BY <1>15, NewIteratorNumbers
  <1>16. CASE CleanupIteratorState BY <1>16, CleanupIteratorStateNumbers
  <1>17. CASE WriteLevel0Table BY <1>17, WriteLevel0TableNumbers
  <1>18. CASE BuildTable BY <1>18, BuildTableNumbers
  <1>19. CASE StartCompaction BY <1>19, StartCompactionNumbers
  <1>20. CASE OpenCompactionOutputFile BY <1>20, OpenCompactionOutputFileNumbers
  <1>21. CASE FinishCompactionOutputFile BY <1>21, FinishCompactionOutputFileNumbers
  <1>22. CASE LogEdit BY <1>22, LogEditNumbers
  <1>23. CASE InstallVersion BY <1>23, InstallVersionNumbers
  <1>24. CASE LogAndApplyFails BY <1>24, LogAndApplyFailsNumbers
  <1>25. CASE CloseDone BY <1>25, CloseDoneNumbers
  <1> QED
    BY <1>1, <1>2, <1>3, <1>4, <1>5, <1>6, <1>7, <1>8, <1>9, <1>10, <1>11, <1>12, <1>13,
       <1>14, <1>15, <1>16, <1>17, <1>18, <1>19, <1>20, <1>21, <1>22, <1>23, <1>24, <1>25
       DEF Steps

\* Whatever a crash leaves of the manifest and the logs, what DB::Open makes of
\* them are writes with numbers of their own, and the LastSequence it goes on
\* from is not behind the tables.
THEOREM NumbersConsistent == Spec => []NumbersInv
  <1>1. Init => NumbersInv
    BY NumbersInit
  <1>2. Inv /\ Inv' /\ NumbersInv /\ [Next]_vars => NumbersInv'
    <2> SUFFICES ASSUME Inv, Inv', NumbersInv, [Next]_vars PROVE NumbersInv'
      OBVIOUS
    <2>1. CASE Steps
      BY <2>1, StepsNumbers
    <2>2. CASE Close
      BY <2>2, CloseNumbers
    <2>3. CASE Crash
      BY <2>3, CrashNumbers
    <2>4. CASE UNCHANGED vars
      BY <2>4, StutterNumbers
    <2> QED
      BY <2>1, <2>2, <2>3, <2>4 DEF Next
  <1> QED
    BY <1>1, <1>2, DatabaseConsistent, PTL DEF Spec

\* In an open database a sequence number stands for one write, also when a
\* crash took away writes whose numbers are given again, and LastSequence is not
\* behind any write in memory or in a table of the current version.
THEOREM OneNumberPerWrite == Spec => []OneWritePerSequence
  <1>1. Inv /\ NumbersInv => OneWritePerSequence
    <2> SUFFICES ASSUME Inv, NumbersInv, phase = "up"
                 PROVE  \A a, b \in Data : a[1] <= vset.last /\ (a[1] = b[1] => a = b)
      BY DEF OneWritePerSequence
    <2>1. PICK K \in SUBSET Writes : Unique(K) /\ RunningOn(K)
      BY DEF NumbersInv, Up
    <2>2. CurrentVersion(versions) \in DOMAIN versions
      <3>1. PICK vs : vs = versions /\ IsDirectory(vs, VersionRecords)
        BY DEF Inv, TypeOK
      <3>2. PICK c \in DOMAIN vs : \A v \in DOMAIN vs : v <= c
        BY <3>1 DEF Inv, RunningSound, VersionsHeld, Up
      <3>3. CurrentVersion(vs) = c
        BY <3>1, <3>2, CurrentIs
      <3> QED
        BY <3>1, <3>2, <3>3
    <2>3. \A t \in CurrentFiles : tables[t].data \subseteq K
      BY <2>1, <2>2 DEF RunningOn, VersionsOf, CurrentFiles
    <2>4. mem \subseteq K /\ UNION imm \subseteq K /\ UpTo(K, vset.last)
      BY <2>1 DEF RunningOn, MemoryOf
    <2>5. Data \subseteq K
      BY <2>3, <2>4 DEF Data
    <2> QED
      BY <2>1, <2>4, <2>5 DEF Unique, UpTo
  <1> QED
    BY <1>1, DatabaseConsistent, NumbersConsistent, PTL

-----------------------------------------------------------------------------
(***************************************************************************)
(* Synced writes: the invariant.                                           *)
(***************************************************************************)

Synced(l) == {l.recs[i] : i \in 1..l.synced}

\* Where a write may be: in a table, or in a log that opening replays.
Stored(w, files) == \E t \in files : w \in tables[t].data
Logged(w, n) == \E l \in DOMAIN logs : l >= n /\ w \in Synced(logs[l])

\* Opening finds every promised write if k edits are left of a manifest...
Durable(edits, k) ==
  \A w \in promised : Stored(w, FilesAt(edits, k)) \/ Logged(w, edits[k].log)

\* ... however many a crash leaves of manifest n.
Safe(n) ==
  \A k \in manifests[n].synced..Len(manifests[n].edits) : Durable(manifests[n].edits, k)

\* While opening: what is promised is in the tables that are known, or is still
\* to be replayed.
OpeningHas ==
  /\ \A w \in promised : \/ Stored(w, versions[1].files \cup edit.add)
                         \/ phase = "replay" /\ \E l \in todo : w \in Synced(logs[l])
  /\ phase # "replay" => /\ logfile \in DOMAIN logs /\ edit.log = logfile
                         /\ \A l \in DOMAIN logs : l < vset.next_file
  /\ phase \in Written => Safe(vset.manifest) /\ LastEdit(vset.manifest).log = logfile

\* The current log is the memtable's, and no manifest names a later one.
LogsInOrder ==
  /\ logfile \in DOMAIN logs /\ RecordsOf(logs[logfile]) \subseteq mem
  /\ \A l \in DOMAIN logs : l < vset.next_file
  /\ vset.log_number <= LastEdit(current).log
  /\ \A k \in manifests[current].synced..Len(manifests[current].edits) :
       manifests[current].edits[k].log <= logfile

InMemory ==
  \A w \in promised : w \in mem \/ w \in UNION imm \/ Stored(w, CurrentFiles)
OnDisk ==
  \A w \in promised : \/ w \in UNION imm \/ w \in Synced(logs[logfile])
                      \/ Stored(w, LastFiles(current))

\* An edit loses nothing: it adds what it deletes, and what logs it gives up had.
EditHas ==
  /\ flush # None => imm # {}
  /\ edit # None =>
       /\ vset.log_number <= edit.log /\ edit.log <= logfile
       /\ flush # None => \A w \in UNION imm : Stored(w, edit.add)
       /\ \A t \in edit.del : \A w \in tables[t].data : Stored(w, edit.add)
       /\ edit.logged => edit.log = LastEdit(current).log /\ edit.add \subseteq LastFiles(current)
       /\ ~edit.logged => \A w \in promised : \/ Stored(w, LastFiles(current) \cup edit.add)
                                              \/ Logged(w, edit.log)

\* What a compaction is still writing is of no version.
OutputsNew ==
  Merging => \A t \in comp.outs : \A v \in DOMAIN versions : t \notin versions[v].files

RunningHas == LogsInOrder /\ InMemory /\ OnDisk /\ EditHas /\ OutputsNew

SyncedInv ==
  /\ \A l \in DOMAIN logs : logs[l].synced <= Len(logs[l].recs)
  /\ ~opened => promised = {}
  /\ current # 0 => Safe(current)
  /\ phase \in Opening => OpeningHas
  /\ phase \in Up => RunningHas

-----------------------------------------------------------------------------
(***************************************************************************)
(* Steps that leave what is promised.                                      *)
(***************************************************************************)

LogsSound == \A l \in DOMAIN logs : logs[l].synced <= Len(logs[l].recs)

\* The logs g have what is synced in f.
Longer(g, f) == \A l \in DOMAIN f : l \in DOMAIN g /\ Synced(f[l]) \subseteq Synced(g[l])

LEMMA LongerSame == \A f : Longer(f, f)
  BY DEF Longer

LEMMA SafeKeeps ==
  ASSUME NEW n, Safe(n), manifests'[n] = manifests[n], promised' = promised, Longer(logs', logs),
         \A t \in Needed(n) : tables'[t].data = tables[t].data
  PROVE  Safe(n)'
  <1>1. PICK es, s : es = manifests[n].edits /\ s = manifests[n].synced
    OBVIOUS
  <1>2. ASSUME NEW k \in s..Len(es) PROVE Durable(es, k)'
    <2>1. SUFFICES ASSUME NEW w \in promised
                   PROVE  Stored(w, FilesAt(es, k))' \/ Logged(w, es[k].log)'
      BY DEF Durable
    <2>2. Stored(w, FilesAt(es, k)) \/ Logged(w, es[k].log)
      BY <1>1 DEF Safe, Durable
    <2>3. \A t \in FilesAt(es, k) : t \in Needed(n)
      BY <1>1 DEF Needed
    <2>4. Stored(w, FilesAt(es, k)) => Stored(w, FilesAt(es, k))'
      BY <2>3 DEF Stored
    <2>5. Logged(w, es[k].log) => Logged(w, es[k].log)'
      BY DEF Logged, Longer
    <2> QED
      BY <2>2, <2>4, <2>5
  <1> QED
    BY <1>1, <1>2 DEF Safe

LEMMA SafeSame ==
  ASSUME NEW n, logs' = logs, tables' = tables, manifests' = manifests, promised' = promised
  PROVE  Safe(n) => Safe(n)'
  BY SafeKeeps, LongerSame

\* With nothing promised all is safe.
LEMMA NothingPromised ==
  ASSUME NEW n, promised = {}
  PROVE  Safe(n)
  BY DEF Safe, Durable

-----------------------------------------------------------------------------
(***************************************************************************)
(* The first states of DB::Open.                                           *)
(***************************************************************************)

LEMMA SyncedInit == Init => SyncedInv
  BY NoneFacts DEF Init, SyncedInv, Opening, Written, Up

\* Steps that leave the logs, with the database not open.
LEMMA ClosedHas ==
  ASSUME SyncedInv, phase' \notin Up, logs' = logs, opened' = opened, promised' = promised,
         current' # 0 => Safe(current)', phase' \in Opening => OpeningHas'
  PROVE  SyncedInv'
  BY DEF SyncedInv

LEMMA OpenSynced ==
  ASSUME Inv, SyncedInv, Open
  PROVE  SyncedInv'
  <1>1. /\ phase' \in {"new", "recover"}
        /\ logs' = logs /\ tables' = tables /\ manifests' = manifests /\ current' = current
        /\ opened' = opened /\ promised' = promised
    BY DEF Open, disk, history
  <1>2. PICK n : n = current
    OBVIOUS
  <1>3. Safe(n) => Safe(n)'
    BY <1>1, SafeSame
  <1>4. current' # 0 => Safe(current)'
    BY <1>1, <1>2, <1>3 DEF SyncedInv
  <1> QED
    BY <1>1, <1>4, ClosedHas DEF Opening, Written, Up

LEMMA NewDBSynced ==
  ASSUME Inv, SyncedInv, NewDB
  PROVE  SyncedInv'
  <1>1. /\ phase = "new" /\ phase' = "new_temp" /\ logs' = logs /\ current' = current
        /\ opened' = opened /\ promised' = promised
    BY DEF NewDB, history
  <1>2. current' = 0
    BY <1>1 DEF Inv, Resting
  <1> QED
    BY <1>1, <1>2, ClosedHas DEF Opening, Written, Up

LEMMA WriteTempFileSynced ==
  ASSUME Inv, SyncedInv, WriteTempFile
  PROVE  SyncedInv'
  <1>1. /\ phase \in {"new_temp", "temp"}
        /\ phase' = IF phase = "temp" THEN "rename" ELSE "new_rename"
        /\ logs' = logs /\ tables' = tables /\ manifests' = manifests /\ current' = current
        /\ vset' = vset /\ versions' = versions /\ logfile' = logfile
        /\ edit' = edit /\ opened' = opened /\ promised' = promised
    BY DEF WriteTempFile, memory, history
  <1>2. PICK n, m : n = current /\ m = vset.manifest
    OBVIOUS
  <1>3. (Safe(n) => Safe(n)') /\ (Safe(m) => Safe(m)')
    BY <1>1, SafeSame
  <1>4. OpeningHas /\ phase = "temp" => OpeningHas'
    BY <1>1, <1>2, <1>3 DEF OpeningHas, Stored, LastEdit, Written
  <1>5. current' # 0 => Safe(current)'
    BY <1>1, <1>2, <1>3 DEF SyncedInv
  <1>6. phase' \in Opening => OpeningHas'
    BY <1>1, <1>4 DEF SyncedInv, Opening, Written
  <1> QED
    BY <1>1, <1>5, <1>6, ClosedHas DEF Up

LEMMA RenameTempFileSynced ==
  ASSUME Inv, SyncedInv, RenameTempFile
  PROVE  SyncedInv'
  <1>1. /\ phase \in {"new_rename", "rename"}
        /\ phase' = IF phase = "rename" THEN "install" ELSE "recover"
        /\ current' = vset.manifest
        /\ logs' = logs /\ tables' = tables /\ manifests' = manifests
        /\ vset' = vset /\ versions' = versions /\ logfile' = logfile
        /\ edit' = edit /\ opened' = opened /\ promised' = promised
    BY DEF RenameTempFile, memory, history
  <1>2. PICK m : m = vset.manifest
    OBVIOUS
  <1>3. Safe(m) => Safe(m)'
    BY <1>1, SafeSame
  <1>4. Safe(m)
    <2>1. CASE phase = "new_rename"
      <3>1. promised = {}
        BY <2>1 DEF Inv, Resting, DiskSound, SyncedInv
      <3> QED
        BY <3>1, NothingPromised
    <2>2. CASE phase = "rename"
      BY <1>2, <2>2 DEF SyncedInv, OpeningHas, Opening, Written
    <2> QED
      BY <1>1, <2>1, <2>2
  <1>5. phase' \in Opening => OpeningHas'
    BY <1>1, <1>2, <1>3 DEF SyncedInv, OpeningHas, Stored, LastEdit, Opening, Written
  <1> QED
    BY <1>1, <1>2, <1>3, <1>4, <1>5, ClosedHas DEF Up

LEMMA SetCurrentFileFailsSynced ==
  ASSUME Inv, SyncedInv, SetCurrentFileFails
  PROVE  SyncedInv'
  <1>1. /\ phase \in {"new_temp", "new_rename", "temp", "rename"} /\ phase' = "down"
        /\ current' = current
        /\ manifests' = IF phase \in {"temp", "rename"} THEN Without(manifests, vset.manifest)
                        ELSE manifests
        /\ logs' = logs /\ tables' = tables /\ opened' = opened /\ promised' = promised
    BY DEF SetCurrentFileFails, OpenFails, Fails
  <1>2. PICK n \in Nat : n = current
    BY DEF Inv, TypeOK
  <1>3. n # 0 => manifests'[n] = manifests[n]
    <2>1. CASE phase \in {"temp", "rename"}
      <3>1. PICK m \in Nat : m = vset.manifest
        BY DEF Inv, TypeOK
      <3>2. n < m
        BY <1>2, <2>1, <3>1 DEF Inv, OpeningSound, Opening, Written
      <3>3. n # 0 => n \in DOMAIN manifests
        BY <1>2 DEF Inv, DiskSound, Sound
      <3> QED
        BY <1>1, <2>1, <3>1, <3>2, <3>3 DEF Without, Restrict1
    <2>2. CASE phase \notin {"temp", "rename"}
      BY <1>1, <2>2
    <2> QED
      BY <2>1, <2>2
  <1>4. n # 0 => Safe(n)'
    <2>1. n # 0 => Safe(n)
      BY <1>2 DEF SyncedInv
    <2>2. Longer(logs', logs)
      BY <1>1, LongerSame
    <2> QED
      BY <1>1, <1>3, <2>1, <2>2, SafeKeeps
  <1> QED
    BY <1>1, <1>2, <1>4, ClosedHas DEF Opening, Written, Up

-----------------------------------------------------------------------------
(***************************************************************************)
(* Reading the manifest and the logs.                                      *)
(***************************************************************************)

LEMMA SyncedRecords ==
  ASSUME TypeOK, LogsSound, NEW l \in DOMAIN logs
  PROVE  Synced(logs[l]) \subseteq RecordsOf(logs[l])
  <1>1. PICK n \in Nat, s \in Nat : n = Len(logs[l].recs) /\ s = logs[l].synced
    <2>1. PICK x \in LogFiles : x = logs[l]
      BY DEF TypeOK, IsDirectory
    <2>2. x.recs \in Seq(Writes) /\ x.synced \in Nat
      BY DEF LogFiles
    <2> QED
      BY <2>1, <2>2
  <1>2. \A i \in 1..s : i \in 1..n
    BY <1>1 DEF LogsSound
  <1> QED
    BY <1>1, <1>2 DEF Synced, RecordsOf

LEMMA RecoverSynced ==
  ASSUME Inv, SyncedInv, Recover
  PROVE  SyncedInv'
  <1>1. /\ phase = "recover" /\ logs' = logs /\ tables' = tables /\ manifests' = manifests
        /\ current' = current /\ opened' = opened /\ promised' = promised
    BY DEF Recover, disk, history
  <1>2. PICK n \in Nat : n = current /\ n # 0 /\ Sound(n)
    BY <1>1 DEF Inv, TypeOK, Resting, DiskSound
  <1>3. TypeOK
    BY DEF Inv
  <1>4. PICK es \in Seq(Edits) : es = manifests[n].edits
    BY <1>2, <1>3, SoundFacts
  <1>5. PICK s : s = Replay(es)
    OBVIOUS
  <1>6. s = Replay(IF current \in DOMAIN manifests THEN manifests[current].edits ELSE <<>>)
    BY <1>2, <1>4, <1>5 DEF Sound
  <1>7. Safe(n) /\ Safe(n)'
    BY <1>1, <1>2, SafeSame DEF SyncedInv
  <1>8. CASE phase' = "corrupt"
    BY <1>1, <1>2, <1>7, <1>8, ClosedHas DEF Opening, Written, Up
  <1>9. CASE phase' # "corrupt"
    <2>1. /\ s.next # Unset /\ s.log # Unset /\ s.last # Unset
          /\ phase' = "replay"
          /\ versions' = AppendVersion(None, s.files)
          /\ todo' = LogsToReplay(s.log)
          /\ edit' = Edit(Unset, Unset, Unset, {}, {})
      BY <1>6, <1>9 DEF Recover
    <2>2. es # <<>>
      BY <1>5, <2>1, ReplayNone
    <2>3. PICK l \in Nat : l = Len(es) /\ l >= 1 /\ l \in manifests[n].synced..Len(es)
      <3>1. manifests[n].synced \in Nat /\ manifests[n].synced <= Len(es) /\ Len(es) >= 1
        BY <1>2, <1>3, <1>4, <2>2, SoundFacts
      <3> QED
        BY <3>1
    <2>4. PICK e \in Edits : e = es[l] /\ AllSet(e)
      <3>1. LastEdit(n) \in Edits /\ AllSet(LastEdit(n))
        BY <1>2, <1>3, <1>4, <2>2, SoundFacts
      <3> QED
        BY <1>4, <2>3, <3>1 DEF LastEdit
    <2>5. s = [files |-> FilesAt(es, l), log |-> e.log, next |-> e.next, last |-> e.last]
      BY <1>5, <2>2, <2>3, <2>4, ReplayIs
    <2>6. PICK files \in SUBSET Nat : files = FilesAt(es, l)
      <3>1. l \in 0..Len(es)
        BY <2>3
      <3> QED
        BY <3>1, FilesAtNumbers
    <2>7. versions'[1].files = files
      <3>1. AppendVersion(None, files)[1] = [files |-> files, refs |-> 1]
        BY FirstVersion
      <3> QED
        BY <2>1, <2>5, <2>6, <3>1
    <2>8. edit'.add = {}
      BY <2>1 DEF Edit
    <2>9. Durable(es, l)
      BY <1>4, <1>7, <2>3 DEF Safe
    <2>10. ASSUME NEW w \in promised
           PROVE  Stored(w, files)' \/ \E u \in todo' : w \in Synced(logs'[u])
      <3>1. Stored(w, files) \/ Logged(w, e.log)
        BY <2>4, <2>6, <2>9 DEF Durable
      <3> QED
        BY <1>1, <2>1, <2>5, <3>1 DEF Stored, Logged, LogsToReplay
    <2>11. OpeningHas'
      <3>1. versions'[1].files \cup edit'.add = files
        BY <2>7, <2>8
      <3> QED
        BY <1>1, <2>1, <2>10, <3>1 DEF OpeningHas, Written
    <2> QED
      BY <1>1, <1>2, <1>7, <2>1, <2>11, ClosedHas DEF Up
  <1> QED
    BY <1>8, <1>9

LEMMA RecoverLogFileSynced ==
  ASSUME Inv, SyncedInv, RecoverLogFile
  PROVE  SyncedInv'
  <1>1. /\ phase = "replay" /\ todo # {} /\ phase' = phase
        /\ logs' = logs /\ manifests' = manifests
        /\ current' = current /\ versions' = versions /\ opened' = opened /\ promised' = promised
    BY DEF RecoverLogFile, history
  <1>2. TypeOK
    BY DEF Inv
  <1>3. current # 0 /\ todo \subseteq DOMAIN logs /\ edit \in Edits
    BY <1>1 DEF Inv, OpeningSound, Opening
  <1>4. PICK n \in DOMAIN logs : n = OldestLog(todo) /\ n \in todo
    <2>1. todo \in SUBSET Nat /\ todo # {}
      BY <1>1, <1>2 DEF TypeOK
    <2>2. Min(todo) \in todo
      BY <2>1, MinIn
    <2> QED
      BY <1>3, <2>2 DEF OldestLog
  <1>5. PICK recs \in Seq(Writes) : recs = logs[n].recs
    BY <1>2, <1>4 DEF TypeOK, IsDirectory, LogFiles
  <1>6. PICK t \in Nat : t = vset.next_file
    BY <1>2 DEF TypeOK
  <1>7. PICK data : data = {recs[i] : i \in 1..Len(recs)}
    OBVIOUS
  <1>8. /\ todo' = todo \ {n}
        /\ recs = <<>> => tables' = tables /\ edit' = edit
        /\ recs # <<>> => /\ tables' = Put(tables, t, [data |-> data, whole |-> TRUE, level |-> 0])
                          /\ edit' = [edit EXCEPT !.add = edit.add \cup {t}]
    BY <1>4, <1>5, <1>6, <1>7 DEF RecoverLogFile
  <1>9. /\ \A u \in DOMAIN tables : u # t => tables'[u] = tables[u]
        /\ edit.add \subseteq edit'.add
        /\ recs # <<>> => t \in edit'.add /\ tables'[t].data = data
    <2>1. CASE recs = <<>>
      BY <1>8, <2>1
    <2>2. CASE recs # <<>>
      <3>1. edit'.add = edit.add \cup {t}
        BY <1>3, <1>8, <2>2 DEF Edits
      <3>2. tables'[t].data = data /\ \A u \in DOMAIN tables : u # t => tables'[u] = tables[u]
        BY <1>8, <2>2 DEF Put
      <3> QED
        BY <2>2, <3>1, <3>2
    <2> QED
      BY <2>1, <2>2
  <1>10. /\ \A u \in Needed(current) : u # t
         /\ \A u \in versions[1].files \cup edit.add : u # t /\ u \in DOMAIN tables
    <2>1. \A u \in versions[1].files \cup edit.add : Whole(u)
      BY <1>1 DEF Inv, OpeningSound, Opening
    <2> QED
      BY <1>1, <1>6, <2>1, OpeningNeeds DEF Whole
  <1>11. Safe(current)'
    <2>1. PICK c \in Nat : c = current
      BY <1>2 DEF TypeOK
    <2>2. Safe(c) /\ Sound(c)
      BY <1>3, <2>1 DEF Inv, DiskSound, SyncedInv
    <2>3. \A u \in Needed(c) : u \in DOMAIN tables
      <3>1. manifests[c].edits # <<>>
        BY <1>1, <2>1 DEF Inv, OpeningSound, Opening
      <3>2. \A u \in Needed(c) : Whole(u)
        BY <1>2, <2>2, <3>1, SoundFacts
      <3> QED
        BY <3>2 DEF Whole
    <2>4. \A u \in Needed(c) : tables'[u].data = tables[u].data
      BY <1>9, <1>10, <2>1, <2>3
    <2>5. Longer(logs', logs)
      BY <1>1, LongerSame
    <2>6. Safe(c)'
      BY <1>1, <2>2, <2>4, <2>5, SafeKeeps
    <2> QED
      BY <1>1, <2>1, <2>6
  <1>12. ASSUME NEW w \in promised
         PROVE  Stored(w, versions[1].files \cup edit.add)' \/ \E l \in todo' : w \in Synced(logs[l])
    <2>1. Stored(w, versions[1].files \cup edit.add) \/ \E l \in todo : w \in Synced(logs[l])
      BY <1>1 DEF SyncedInv, OpeningHas, Opening
    <2>2. CASE Stored(w, versions[1].files \cup edit.add)
      BY <1>1, <1>9, <1>10, <2>2 DEF Stored
    <2>3. CASE \E l \in todo : w \in Synced(logs[l])
      <3>1. PICK l \in todo : w \in Synced(logs[l])
        BY <2>3
      <3>2. CASE l = n
        <4>1. w \in RecordsOf(logs[n])
          BY <1>2, <3>1, <3>2, SyncedRecords DEF SyncedInv, LogsSound
        <4>2. w \in data
          BY <1>5, <1>7, <4>1 DEF RecordsOf
        <4>3. recs # <<>>
          BY <1>7, <4>2
        <4> QED
          BY <1>9, <4>2, <4>3 DEF Stored
      <3>3. CASE l # n
        BY <1>8, <3>1, <3>3
      <3> QED
        BY <3>2, <3>3
    <2> QED
      BY <2>1, <2>2, <2>3
  <1>13. OpeningHas'
    BY <1>1, <1>12 DEF OpeningHas, Written
  <1> QED
    BY <1>1, <1>3, <1>11, <1>13, ClosedHas DEF Up

LEMMA NewLogSynced ==
  ASSUME Inv, NumbersInv, SyncedInv, NewLog
  PROVE  SyncedInv'
  <1>1. PICK x : x = [recs |-> <<>>, synced |-> 0]
    OBVIOUS
  <1>2. PICK t \in Nat : t = vset.next_file
    BY DEF Inv, TypeOK
  <1>3. /\ phase = "replay" /\ phase' = "manifest" /\ todo = {}
        /\ logs' = Put(logs, t, x) /\ logfile' = t
        /\ vset' = [vset EXCEPT !.next_file = t + 1]
        /\ edit' = Edit(logfile', vset'.next_file, vset.last, {}, edit.add)
        /\ tables' = tables /\ manifests' = manifests
        /\ current' = current /\ versions' = versions /\ opened' = opened /\ promised' = promised
    BY <1>1, <1>2 DEF NewLog, history
  <1>4. vset'.next_file = t + 1 /\ edit'.add = edit.add /\ edit'.log = t
    BY <1>2, <1>3 DEF Inv, TypeOK, Edit
  <1>5. /\ DOMAIN logs' = DOMAIN logs \cup {t} /\ logs'[t] = x
        /\ \A l \in DOMAIN logs : l # t => logs'[l] = logs[l]
    BY <1>3 DEF Put
  <1>6. \A l \in DOMAIN logs : l \in Nat /\ l < t
    BY <1>2, <1>3 DEF NumbersInv, OpeningFrom, Opening, Inv, TypeOK, IsDirectory
  <1>7. \A l \in DOMAIN logs : l # t
    BY <1>2, <1>6
  <1>8. Longer(logs', logs)
    BY <1>5, <1>7 DEF Longer
  <1>9. PICK c : c = current
    OBVIOUS
  <1>10. c # 0 /\ Safe(c)
    BY <1>3, <1>9 DEF Inv, OpeningSound, Opening, SyncedInv
  <1>11. Safe(c)'
    BY <1>3, <1>8, <1>10, SafeKeeps
  <1>12. \A l \in DOMAIN logs' : l < t + 1
    BY <1>2, <1>5, <1>6
  <1>13. OpeningHas'
    BY <1>3, <1>4, <1>5, <1>12 DEF SyncedInv, OpeningHas, Opening, Written, Stored
  <1>14. \A l \in DOMAIN logs' : logs'[l].synced <= Len(logs'[l].recs)
    <2>1. x.synced <= Len(x.recs)
      BY <1>1
    <2> QED
      BY <1>5, <2>1 DEF SyncedInv
  <1> QED
    BY <1>3, <1>9, <1>11, <1>13, <1>14 DEF SyncedInv, Up

LEMMA WriteSnapshotSynced ==
  ASSUME Inv, SyncedInv, WriteSnapshot
  PROVE  SyncedInv'
  <1>1. PICK m, x : m = vset.manifest /\ manifests' = Put(manifests, m, x)
    BY DEF WriteSnapshot
  <1>2. /\ phase = "manifest" /\ phase' = "edit"
        /\ logs' = logs /\ tables' = tables /\ current' = current /\ vset' = vset
        /\ versions' = versions /\ logfile' = logfile /\ edit' = edit
        /\ opened' = opened /\ promised' = promised
    BY DEF WriteSnapshot, memory, history
  <1>3. PICK c \in Nat : c = current
    BY DEF Inv, TypeOK
  <1>4. c # 0 /\ Safe(c) /\ c \in DOMAIN manifests /\ c # m
    <2>1. c # 0 /\ c < m /\ m \in Nat
      BY <1>1, <1>2, <1>3 DEF Inv, TypeOK, OpeningSound, Opening
    <2> QED
      BY <1>3, <2>1 DEF Inv, DiskSound, Sound, SyncedInv
  <1>5. manifests'[c] = manifests[c]
    BY <1>1, <1>4 DEF Put
  <1>6. Safe(c)'
    BY <1>2, <1>4, <1>5, LongerSame, SafeKeeps
  <1>7. OpeningHas'
    BY <1>2 DEF SyncedInv, OpeningHas, Stored, Opening, Written
  <1> QED
    BY <1>2, <1>3, <1>6, <1>7, ClosedHas DEF Up

LEMMA WriteFirstEditSynced ==
  ASSUME Inv, SyncedInv, WriteFirstEdit
  PROVE  SyncedInv'
  <1>1. /\ phase = "edit" /\ logs' = logs /\ tables' = tables /\ current' = current
    BY DEF WriteFirstEdit
  <1>2. TypeOK
    BY DEF Inv
  <1>3. /\ edit \in Edits /\ edit.del = {} /\ current # 0 /\ DOMAIN versions = {1}
        /\ current < vset.manifest
        /\ vset.manifest \in DOMAIN manifests
        /\ manifests[vset.manifest] =
             [edits |-> <<Edit(Unset, Unset, Unset, {}, versions[1].files)>>, synced |-> 0]
    BY <1>1 DEF Inv, OpeningSound, Opening
  <1>4. PICK m \in Nat : m = vset.manifest
    BY <1>2 DEF TypeOK
  <1>5. PICK c \in Nat : c = current
    BY <1>2 DEF TypeOK
  <1>6. PICK f : f = manifests /\ IsDirectory(f, Manifests)
    BY <1>2 DEF TypeOK
  <1>7. c # 0 /\ c # m /\ c \in DOMAIN f /\ m \in DOMAIN f /\ Safe(c)
    BY <1>3, <1>4, <1>5, <1>6 DEF Inv, DiskSound, Sound, SyncedInv
  <1>8. CASE /\ manifests' = [manifests EXCEPT ![vset.manifest] = Appended(@, edit)]
             /\ phase' = "temp" /\ UNCHANGED <<vset, versions, edit, memory, history>>
    <2>1. /\ phase' = "temp" /\ vset' = vset /\ versions' = versions /\ edit' = edit
          /\ logfile' = logfile /\ opened' = opened /\ promised' = promised
      BY <1>8 DEF memory, history
    <2>2. PICK files \in SUBSET Nat : files = versions[1].files
      BY <1>2, <1>3 DEF TypeOK, IsDirectory, VersionRecords
    <2>3. PICK s \in Edits : s = Edit(Unset, Unset, Unset, {}, files) /\ s.del = {} /\ s.add = files
      <3>1. /\ Edit(Unset, Unset, Unset, {}, files) \in Edits
            /\ Edit(Unset, Unset, Unset, {}, files).del = {}
            /\ Edit(Unset, Unset, Unset, {}, files).add = files
        BY DEF Edit, Edits, Fields
      <3> QED
        BY <3>1
    <2>4. PICK e \in Edits : e = edit
      BY <1>3
    <2>5. PICK one \in Seq(Edits) : one = <<s>> /\ Len(one) = 1 /\ FilesAt(one, 1) = files
      <3>1. <<s>> \in Seq(Edits) /\ Len(<<s>>) = 1 /\ FilesAt(<<s>>, 1) = files
        BY <2>3, FilesOne
      <3> QED
        BY <3>1
    <2>6. PICK two \in Seq(Edits) : /\ two = Append(one, e) /\ Len(two) = 2 /\ two[2] = e
                                    /\ FilesAt(two, 2) = files \cup e.add
      <3>1. /\ Append(one, e) \in Seq(Edits)
            /\ Len(Append(one, e)) = Len(one) + 1
            /\ Append(one, e)[Len(one) + 1] = e
            /\ FilesAt(Append(one, e), Len(one) + 1) = Applied(FilesAt(one, Len(one)), e)
        BY FilesAppend
      <3>2. Len(one) = 1 /\ 1 + 1 = 2
        BY <2>5
      <3>3. Applied(files, e) = files \cup e.add
        BY <1>3, <2>4, AppliedIs
      <3>4. /\ Append(one, e) \in Seq(Edits) /\ Len(Append(one, e)) = 2
            /\ Append(one, e)[2] = e /\ FilesAt(Append(one, e), 2) = files \cup e.add
        BY <2>5, <3>1, <3>2, <3>3
      <3> QED
        BY <3>4
    <2>7. PICK x \in Manifests : x = [edits |-> two, synced |-> 2]
      <3>1. [edits |-> two, synced |-> 2] \in Manifests
        BY DEF Manifests
      <3> QED
        BY <3>1
    <2>8. Appended(f[m], edit) = x
      <3>1. f[m].edits = one
        BY <1>3, <1>4, <1>6, <2>2, <2>3, <2>5
      <3> QED
        BY <2>4, <2>5, <2>6, <2>7, <3>1 DEF Appended
    <2>9. manifests'[m] = x /\ manifests'[c] = manifests[c]
      <3>1. PICK g : g = [f EXCEPT ![m] = x]
        OBVIOUS
      <3>2. IsDirectory(g, Manifests) /\ Changed(g, f, m, x)
        BY <1>6, <1>7, <3>1, ExceptFacts
      <3>3. manifests' = g
        BY <1>4, <1>6, <1>8, <2>8, <3>1
      <3> QED
        BY <1>6, <1>7, <3>2, <3>3 DEF Changed
    <2>10. Safe(c)'
      BY <1>1, <1>7, <2>1, <2>9, LongerSame, SafeKeeps
    <2>11. \A w \in promised : Stored(w, files \cup e.add)
      BY <1>1, <2>2, <2>4 DEF SyncedInv, OpeningHas, Opening
    <2>12. Safe(m)'
      <3>1. Durable(two, 2)'
        BY <1>1, <2>1, <2>6, <2>11 DEF Durable, Stored
      <3>2. manifests'[m].edits = two /\ manifests'[m].synced..Len(two) = {2}
        BY <2>6, <2>7, <2>9
      <3> QED
        BY <3>1, <3>2 DEF Safe
    <2>13. LastEdit(m)' = e
      BY <2>6, <2>7, <2>9 DEF LastEdit
    <2>14. OpeningHas'
      BY <1>1, <1>4, <2>1, <2>4, <2>12, <2>13 DEF SyncedInv, OpeningHas, Opening, Stored, Written
    <2> QED
      BY <1>1, <1>5, <2>1, <2>10, <2>14, ClosedHas DEF Up
  <1>9. CASE OpenFails /\ manifests' = Without(manifests, vset.manifest)
    <2>1. phase' = "down" /\ opened' = opened /\ promised' = promised
      BY <1>9 DEF OpenFails, Fails
    <2>2. manifests'[c] = manifests[c]
      BY <1>4, <1>6, <1>7, <1>9 DEF Without, Restrict1
    <2>3. Safe(c)'
      BY <1>1, <1>7, <2>1, <2>2, LongerSame, SafeKeeps
    <2> QED
      BY <1>1, <1>5, <2>1, <2>3, ClosedHas DEF Opening, Written, Up
  <1> QED
    BY <1>8, <1>9 DEF WriteFirstEdit

\* DeleteObsoleteFiles keeps the logs from log n on.
LEMMA DeletedLogs ==
  ASSUME NEW mf, NEW vs, NEW p, NEW n, NEW ok,
         DeleteObsoleteFiles(logs, mf, vs, p, n, ok)
  PROVE  \A l \in DOMAIN logs : l >= n => l \in DOMAIN logs' /\ logs'[l] = logs[l]
  BY DEF DeleteObsoleteFiles, KeptLogs, Restrict1

LEMMA InstallFirstSynced ==
  ASSUME Inv, Inv', NumbersInv, SyncedInv, InstallFirst
  PROVE  SyncedInv'
  <1>1. /\ phase = "install" /\ phase' = "up" /\ edit' = None
        /\ versions' = AppendVersion(versions, Applied(CurrentFiles, edit))
        /\ vset' = [vset EXCEPT !.log_number = edit.log]
        /\ DeleteObsoleteFiles(logs, manifests, versions', pending, edit.log, TRUE)
        /\ current' = current /\ mem' = mem /\ imm' = imm /\ logfile' = logfile
        /\ flush' = flush /\ comp' = comp /\ promised' = promised /\ opened' = TRUE
    BY DEF InstallFirst, memory, background
  <1>2. TypeOK /\ TypeOK'
    BY DEF Inv
  <1>3. /\ edit \in Edits /\ edit.del = {} /\ DOMAIN versions = {1} /\ versions[1].refs = 1
        /\ Sound(vset.manifest)
        /\ manifests[vset.manifest].synced = Len(manifests[vset.manifest].edits)
        /\ LastFiles(vset.manifest) = Applied(versions[1].files, edit)
        /\ current = vset.manifest
    BY <1>1 DEF Inv, OpeningSound, Opening, Written
  <1>4. comp = None /\ flush = None
    BY <1>1 DEF Inv, Resting, Up
  <1>5. PICK m \in Nat : m = vset.manifest /\ m = current
    BY <1>2, <1>3 DEF TypeOK
  <1>6. PICK vs : vs = versions /\ IsDirectory(vs, VersionRecords) /\ DOMAIN vs = {1}
                  /\ vs[1].refs = 1 /\ vs[1].files \in SUBSET Nat
    <2>1. IsDirectory(versions, VersionRecords)
      BY <1>2 DEF TypeOK
    <2> QED
      BY <1>3, <2>1 DEF IsDirectory, VersionRecords
  <1>7. PICK files \in SUBSET Nat : /\ files = Applied(vs[1].files, edit)
                                    /\ files = vs[1].files \cup edit.add
    <2>1. Applied(vs[1].files, edit) = vs[1].files \cup edit.add
      BY <1>3, <1>6, AppliedIs
    <2>2. edit.add \in SUBSET Nat
      BY <1>3 DEF Edits
    <2> QED
      BY <1>6, <2>1, <2>2
  <1>8. CurrentFiles' = files /\ \E v \in DOMAIN versions' : versions'[v].files = files
    <2>1. PICK w : w = AppendVersion(vs, files)
      OBVIOUS
    <2>2. PICK c \in DOMAIN vs : c = 1 /\ vs[c].refs >= 1 /\ \A v \in DOMAIN vs : v <= c
      BY <1>6
    <2>3. Follows(w, vs, c, files)
      <3>1. IsDirectory(vs, VersionRecords)
        BY <1>6
      <3> QED
        BY <2>1, <2>2, <3>1, NextVersion
    <2>4. c + 1 \in DOMAIN w /\ CurrentVersion(w) = c + 1 /\ w[c + 1].files = files
      BY <2>3 DEF Follows
    <2>5. CurrentFiles = vs[1].files
      <3>1. CurrentVersion(vs) = 1
        BY <1>6, CurrentIs
      <3> QED
        BY <1>6, <3>1 DEF CurrentFiles
    <2>6. versions' = w
      BY <1>1, <1>6, <1>7, <2>1, <2>5
    <2> QED
      BY <2>4, <2>6 DEF CurrentFiles
  <1>9. /\ \A t \in DOMAIN tables' : tables'[t] = tables[t]
        /\ \A l \in DOMAIN logs' : l \in DOMAIN logs /\ logs'[l] = logs[l]
        /\ \A i \in DOMAIN manifests' : manifests'[i] = manifests[i]
        /\ \A l \in DOMAIN logs : l >= edit.log => l \in DOMAIN logs' /\ logs'[l] = logs[l]
    <2>1. PICK mf, w, p, n : mf = manifests /\ w = versions' /\ p = pending /\ n = edit.log
      OBVIOUS
    <2>2. DeleteObsoleteFiles(logs, mf, w, p, n, TRUE)
      BY <1>1, <2>1
    <2>3. /\ \A t \in DOMAIN tables' : tables'[t] = tables[t]
          /\ \A l \in DOMAIN logs' : l \in DOMAIN logs /\ logs'[l] = logs[l] /\ (TRUE => l >= n)
          /\ \A i \in DOMAIN manifests' : manifests'[i] = mf[i]
      BY <2>2, DeletedFacts
    <2>4. \A l \in DOMAIN logs : l >= n => l \in DOMAIN logs' /\ logs'[l] = logs[l]
      BY <2>2, DeletedLogs
    <2> QED
      BY <2>1, <2>3, <2>4
  <1>10. /\ \A w \in promised : Stored(w, files)
         /\ logfile \in DOMAIN logs /\ edit.log = logfile /\ logfile \in Nat
         /\ \A l \in DOMAIN logs : l < vset.next_file
         /\ LastEdit(m).log = logfile
    <2>1. OpeningHas
      BY <1>1 DEF SyncedInv, Opening, Written
    <2>2. /\ \A w \in promised : Stored(w, versions[1].files \cup edit.add)
          /\ logfile \in DOMAIN logs /\ edit.log = logfile
          /\ \A l \in DOMAIN logs : l < vset.next_file
          /\ LastEdit(vset.manifest).log = logfile
      BY <1>1, <2>1 DEF OpeningHas, Written
    <2>3. versions[1].files \cup edit.add = files
      BY <1>6, <1>7
    <2>4. logfile \in Nat
      BY <1>2 DEF TypeOK
    <2> QED
      BY <1>5, <2>2, <2>3, <2>4
  <1>11. \A t \in files : t \in DOMAIN tables'
    BY <1>1, <1>8 DEF Inv, RunningSound, VersionsHeld, Up, Whole
  <1>12. \A w \in promised : Stored(w, files)'
    BY <1>9, <1>10, <1>11 DEF Stored
  <1>13. PICK es, l : /\ es = manifests[m].edits /\ l = Len(es) /\ l \in Nat
                      /\ manifests'[m].edits = es /\ manifests'[m].synced = l
                      /\ FilesAt(es, l) = files /\ es[l].log = logfile
    <2>1. Sound(m)'
      BY <1>1, <1>5 DEF Inv, DiskSound, OpeningSound, Opening, Written
    <2>2. m \in DOMAIN manifests' /\ manifests'[m] = manifests[m]
      BY <1>9, <2>1 DEF Sound
    <2>3. Len(manifests[m].edits) \in Nat
      BY <1>2, <1>3, <1>5, SoundFacts
    <2> QED
      BY <1>3, <1>5, <1>6, <1>7, <1>10, <2>2, <2>3 DEF LastFiles, LastEdit
  <1>14. \A k \in l..Len(es) : k = l
    BY <1>13
  <1>15. Safe(m)'
    <2>1. Durable(es, l)'
      BY <1>1, <1>12, <1>13 DEF Durable
    <2> QED
      BY <1>13, <1>14, <2>1 DEF Safe
  <1>16. LastEdit(m)'.log = logfile /\ LastFiles(m)' = files
    BY <1>13 DEF LastEdit, LastFiles
  <1>17. LogsInOrder'
    <2>1. logfile \in DOMAIN logs' /\ logs'[logfile] = logs[logfile]
      BY <1>9, <1>10
    <2>2. RecordsOf(logs[logfile]) = {}
      BY <1>1, <1>10 DEF NumbersInv, OpeningFrom, Opening, Written
    <2>3. vset'.log_number = logfile /\ vset'.next_file = vset.next_file
      BY <1>1, <1>2, <1>10 DEF TypeOK
    <2>4. \A k \in manifests'[m].synced..Len(manifests'[m].edits) : manifests'[m].edits[k].log <= logfile
      BY <1>10, <1>13, <1>14
    <2>5. \A n \in DOMAIN logs' : n < vset'.next_file
      BY <1>9, <1>10, <2>3
    <2> QED
      BY <1>1, <1>5, <1>10, <1>16, <2>1, <2>2, <2>3, <2>4, <2>5 DEF LogsInOrder
  <1>18. InMemory' /\ OnDisk'
    BY <1>1, <1>5, <1>8, <1>12, <1>16 DEF InMemory, OnDisk, Stored
  <1>19. EditHas' /\ OutputsNew'
    BY <1>1, <1>4 DEF EditHas, OutputsNew, Merging
  <1>20. \A n \in DOMAIN logs' : logs'[n].synced <= Len(logs'[n].recs)
    BY <1>9 DEF SyncedInv
  <1> QED
    BY <1>1, <1>5, <1>15, <1>17, <1>18, <1>19, <1>20 DEF SyncedInv, RunningHas, Opening, Written

-----------------------------------------------------------------------------
(***************************************************************************)
(* The open database.                                                      *)
(***************************************************************************)

LEMMA UpSynced ==
  ASSUME Inv', phase' \in Up, LogsSound', Safe(current)', RunningHas'
  PROVE  SyncedInv'
  <1>1. opened'
    BY DEF Inv, RunningSound
  <1>2. phase' \notin Opening
    BY DEF Opening, Written, Up
  <1> QED
    BY <1>1, <1>2 DEF SyncedInv, LogsSound

\* A user of a version who takes or drops a reference does not change what the
\* current version holds.
LEMMA TakenHere ==
  ASSUME Inv, phase \in Up, versions' = Ref(versions, CurrentVersion(versions))
  PROVE  /\ CurrentFiles' = CurrentFiles
         /\ \A v \in DOMAIN versions' : v \in DOMAIN versions /\ versions'[v].files = versions[v].files
  <1>1. PICK vs : vs = versions /\ IsDirectory(vs, VersionRecords)
    BY DEF Inv, TypeOK
  <1>2. PICK c \in DOMAIN vs : \A v \in DOMAIN vs : v <= c
    BY <1>1 DEF Inv, RunningSound, VersionsHeld
  <1>3. CurrentVersion(vs) = c
    BY <1>1, <1>2, CurrentIs
  <1>4. PICK w : w = versions' /\ w = Ref(vs, c)
    BY <1>1, <1>3
  <1>5. Taken(w, vs, c)
    BY <1>1, <1>4, RefFacts
  <1>6. CurrentVersion(w) = c /\ w[c].files = vs[c].files
    BY <1>1, <1>2, <1>5, TakenCurrent
  <1> QED
    BY <1>1, <1>3, <1>4, <1>5, <1>6 DEF CurrentFiles, Taken

LEMMA DroppedHere ==
  ASSUME Inv, phase \in Up, NEW r, versions' = Unref(versions, r),
         \/ reader # 0 /\ r = reader
         \/ comp # None /\ r = comp.v
         \/ flush # None /\ edit = None /\ r = flush.base
  PROVE  /\ CurrentFiles' = CurrentFiles
         /\ \A v \in DOMAIN versions' : v \in DOMAIN versions /\ versions'[v].files = versions[v].files
  <1>1. VersionsHeld /\ ReferencesExact
    BY DEF Inv, RunningSound
  <1>2. PICK vs : vs = versions /\ IsDirectory(vs, VersionRecords)
    BY DEF Inv, TypeOK
  <1>3. PICK c \in DOMAIN vs : \A v \in DOMAIN vs : v <= c
    BY <1>1, <1>2 DEF VersionsHeld
  <1>4. CurrentVersion(vs) = c
    BY <1>2, <1>3, CurrentIs
  <1>5. r \in DOMAIN vs
    BY <1>1, <1>2 DEF VersionsHeld
  <1>6. vs[r].refs = (IF r = c THEN 1 ELSE 0) + (IF r = reader THEN 1 ELSE 0)
                     + (IF comp # None /\ r = comp.v THEN 1 ELSE 0)
                     + (IF flush # None /\ edit = None /\ r = flush.base THEN 1 ELSE 0)
    BY <1>1, <1>2, <1>4, <1>5 DEF ReferencesExact, Running, Up
  <1>7. vs[r].refs >= 1 /\ (r = c => vs[r].refs >= 2)
    BY <1>6
  <1>8. PICK w : w = versions' /\ w = Unref(vs, r)
    BY <1>2
  <1>9. Dropped(w, vs, r)
    BY <1>2, <1>5, <1>7, <1>8, UnrefFacts
  <1>10. CurrentVersion(w) = c /\ w[c].files = vs[c].files /\ DOMAIN w \subseteq DOMAIN vs
    BY <1>2, <1>3, <1>5, <1>7, <1>9, DroppedCurrent
  <1> QED
    BY <1>2, <1>4, <1>8, <1>9, <1>10 DEF CurrentFiles, Dropped

\* Steps that leave the logs and the manifest, and the tables these need.
LEMMA SameLogs ==
  ASSUME Inv, Inv', SyncedInv, phase \in Up, phase' \in Up,
         logs' = logs, manifests' = manifests, current' = current,
         mem' = mem, imm' = imm, logfile' = logfile, promised' = promised,
         vset'.log_number = vset.log_number, vset'.next_file >= vset.next_file,
         CurrentFiles' = CurrentFiles,
         \A t \in Needed(current) \cup CurrentFiles : tables'[t].data = tables[t].data,
         EditHas', OutputsNew'
  PROVE  SyncedInv'
  <1>1. RunningHas /\ Safe(current) /\ LogsSound
    BY DEF SyncedInv, LogsSound, Inv, RunningSound, DiskSound
  <1>2. PICK c : c = current
    OBVIOUS
  <1>3. TypeOK /\ TypeOK' /\ Sound(c) /\ opened
    BY <1>2 DEF Inv, RunningSound, DiskSound
  <1>4. LastFiles(c) \subseteq Needed(c)
    BY <1>3, SoundFacts
  <1>5. Safe(c)'
    BY <1>1, <1>2, LongerSame, SafeKeeps
  <1>6. LastEdit(c)' = LastEdit(c) /\ LastFiles(c)' = LastFiles(c)
    BY DEF LastEdit, LastFiles
  <1>7. LogsInOrder'
    <2>1. \A l \in DOMAIN logs : l \in Nat
      BY <1>3 DEF TypeOK, IsDirectory
    <2>2. vset.next_file \in Nat /\ vset'.next_file \in Nat
      BY <1>3 DEF TypeOK
    <2>3. \A l \in DOMAIN logs : l < vset'.next_file
      BY <1>1, <2>1, <2>2 DEF RunningHas, LogsInOrder
    <2> QED
      BY <1>1, <1>2, <1>6, <2>3 DEF RunningHas, LogsInOrder
  <1>8. InMemory'
    BY <1>1 DEF RunningHas, InMemory, Stored
  <1>9. OnDisk'
    BY <1>1, <1>2, <1>4, <1>6 DEF RunningHas, OnDisk, Stored
  <1>10. LogsSound'
    BY <1>1 DEF LogsSound
  <1> QED
    BY <1>2, <1>5, <1>7, <1>8, <1>9, <1>10, UpSynced DEF RunningHas

\* ... and the tables and what the background thread is doing.
LEMMA QuietSynced ==
  ASSUME Inv, Inv', SyncedInv, phase \in Up, phase' \in Up,
         logs' = logs, tables' = tables, manifests' = manifests, current' = current,
         mem' = mem, imm' = imm, logfile' = logfile, promised' = promised, vset' = vset,
         CurrentFiles' = CurrentFiles,
         \A v \in DOMAIN versions' : v \in DOMAIN versions /\ versions'[v].files = versions[v].files,
         edit' \in {None, edit}, flush' \in {None, flush},
         comp # None /\ comp' # None => comp' = comp,
         comp = None /\ comp' # None => comp'.outs = {}
  PROVE  SyncedInv'
  <1>1. RunningHas
    BY DEF SyncedInv
  <1>2. TypeOK
    BY DEF Inv
  <1>3. LastEdit(current)' = LastEdit(current) /\ LastFiles(current)' = LastFiles(current)
    BY DEF LastEdit, LastFiles
  <1>4. EditHas'
    <2>1. CASE edit' = None
      BY <1>1, <2>1 DEF RunningHas, EditHas
    <2>2. CASE edit' # None
      <3>1. flush' # None => flush' = flush
        OBVIOUS
      <3>2. edit' = edit
        BY <2>2
      <3> QED
        BY <1>1, <1>3, <2>2, <3>1, <3>2 DEF RunningHas, EditHas, Stored, Logged
    <2> QED
      BY <2>1, <2>2
  <1>5. OutputsNew'
    BY <1>1 DEF RunningHas, OutputsNew, Merging
  <1>6. vset.next_file \in Nat /\ vset.next_file >= vset.next_file
    BY <1>2 DEF TypeOK
  <1> QED
    BY <1>4, <1>5, <1>6, SameLogs

LEMMA NewIteratorSynced ==
  ASSUME Inv, Inv', SyncedInv, NewIterator
  PROVE  SyncedInv'
  <1>1. /\ phase = "up" /\ phase' = phase /\ versions' = Ref(versions, CurrentVersion(versions))
        /\ logs' = logs /\ tables' = tables /\ manifests' = manifests /\ current' = current
        /\ vset' = vset /\ mem' = mem /\ imm' = imm /\ logfile' = logfile /\ promised' = promised
        /\ edit' = edit /\ flush' = flush /\ comp' = comp
    BY DEF NewIterator, disk, memory, background, history
  <1>2. /\ CurrentFiles' = CurrentFiles
        /\ \A v \in DOMAIN versions' : v \in DOMAIN versions /\ versions'[v].files = versions[v].files
    BY <1>1, TakenHere DEF Up
  <1> QED
    BY <1>1, <1>2, QuietSynced DEF Up

LEMMA StartCompactionSynced ==
  ASSUME Inv, Inv', SyncedInv, StartCompaction
  PROVE  SyncedInv'
  <1>1. /\ phase = "up" /\ phase' = phase /\ comp = None
        /\ comp' = [v |-> CurrentVersion(versions), inputs |-> CurrentFiles,
                    outs |-> {}, done |-> FALSE]
        /\ versions' = Ref(versions, comp'.v)
        /\ logs' = logs /\ tables' = tables /\ manifests' = manifests /\ current' = current
        /\ vset' = vset /\ mem' = mem /\ imm' = imm /\ logfile' = logfile /\ promised' = promised
        /\ edit' = edit /\ flush' = flush
    BY DEF StartCompaction, disk, memory, history
  <1>2. comp'.v = CurrentVersion(versions) /\ comp'.outs = {}
    BY <1>1
  <1>3. versions' = Ref(versions, CurrentVersion(versions))
    BY <1>1, <1>2
  <1>4. /\ CurrentFiles' = CurrentFiles
        /\ \A v \in DOMAIN versions' : v \in DOMAIN versions /\ versions'[v].files = versions[v].files
    BY <1>1, <1>3, TakenHere DEF Up
  <1> QED
    BY <1>1, <1>2, <1>4, QuietSynced DEF Up

LEMMA CleanupIteratorStateSynced ==
  ASSUME Inv, Inv', SyncedInv, CleanupIteratorState
  PROVE  SyncedInv'
  <1>1. /\ phase' = phase /\ reader # 0 /\ versions' = Unref(versions, reader)
        /\ logs' = logs /\ tables' = tables /\ manifests' = manifests /\ current' = current
        /\ vset' = vset /\ mem' = mem /\ imm' = imm /\ logfile' = logfile /\ promised' = promised
        /\ edit' = edit /\ flush' = flush /\ comp' = comp
    BY DEF CleanupIteratorState, disk, memory, background, history
  <1>2. phase \in Up
    BY <1>1 DEF Inv, Resting
  <1>3. /\ CurrentFiles' = CurrentFiles
        /\ \A v \in DOMAIN versions' : v \in DOMAIN versions /\ versions'[v].files = versions[v].files
    BY <1>1, <1>2, DroppedHere
  <1> QED
    BY <1>1, <1>2, <1>3, QuietSynced

LEMMA CleanupSynced ==
  ASSUME Inv, Inv', SyncedInv, phase \in Up, phase' = phase, comp # None, Cleanup,
         edit' \in {None, edit}, flush' = flush,
         UNCHANGED <<disk, vset, memory, promised>>
  PROVE  SyncedInv'
  <1>1. /\ versions' = Unref(versions, comp.v) /\ comp' = None
        /\ logs' = logs /\ tables' = tables /\ manifests' = manifests /\ current' = current
        /\ vset' = vset /\ mem' = mem /\ imm' = imm /\ logfile' = logfile /\ promised' = promised
    BY DEF Cleanup, disk, memory
  <1>2. /\ CurrentFiles' = CurrentFiles
        /\ \A v \in DOMAIN versions' : v \in DOMAIN versions /\ versions'[v].files = versions[v].files
    BY <1>1, DroppedHere
  <1> QED
    BY <1>1, <1>2, QuietSynced

LEMMA LogAndApplyFailsSynced ==
  ASSUME Inv, Inv', SyncedInv, LogAndApplyFails
  PROVE  SyncedInv'
  <1>1. /\ phase \in Up /\ phase' = phase /\ edit # None /\ edit' = None
        /\ UNCHANGED <<disk, vset, memory, promised>>
    BY DEF LogAndApplyFails, Running, Up, Fails
  <1>2. CASE flush = None
    <2>1. comp # None
      BY <1>1, <1>2 DEF Inv, RunningSound, OutputsHeld
    <2>2. Cleanup /\ flush' = flush
      BY <1>2 DEF LogAndApplyFails
    <2> QED
      BY <1>1, <2>1, <2>2, CleanupSynced
  <1>3. CASE flush # None
    <2>1. comp' = comp /\ versions' = versions /\ flush' = None
      BY <1>3 DEF LogAndApplyFails
    <2>2. CurrentFiles' = CurrentFiles
      BY <2>1 DEF CurrentFiles
    <2> QED
      BY <1>1, <2>1, <2>2, QuietSynced DEF disk, memory
  <1> QED
    BY <1>2, <1>3

LEMMA CloseSynced ==
  ASSUME Inv, Inv', SyncedInv, Close
  PROVE  SyncedInv'
  <1>1. /\ phase \in Up /\ phase' \in Up /\ versions' = versions
        /\ logs' = logs /\ tables' = tables /\ manifests' = manifests /\ current' = current
        /\ vset' = vset /\ mem' = mem /\ imm' = imm /\ logfile' = logfile /\ promised' = promised
        /\ edit' = edit /\ flush' = flush /\ comp' = comp
    BY DEF Close, disk, memory, background, Up
  <1>2. CurrentFiles' = CurrentFiles
    BY <1>1 DEF CurrentFiles
  <1> QED
    BY <1>1, <1>2, QuietSynced

LEMMA CloseDoneSynced ==
  ASSUME Inv, SyncedInv, CloseDone
  PROVE  SyncedInv'
  <1>1. /\ phase' = "down" /\ opened' = opened /\ promised' = promised
        /\ logs' = logs /\ tables' = tables /\ manifests' = manifests /\ current' = current
    BY DEF CloseDone, Forget, disk, history
  <1>2. PICK n : n = current
    OBVIOUS
  <1>3. current' # 0 => Safe(current)'
    BY <1>1, <1>2, SafeSame DEF SyncedInv
  <1> QED
    BY <1>1, <1>3, ClosedHas DEF Opening, Written, Up

\* A write goes to the end of the log: with sync all of the log is synced.
LEMMA AppendedLog ==
  ASSUME NEW x \in LogFiles, x.synced <= Len(x.recs), NEW w \in Writes, NEW sync \in BOOLEAN,
         NEW y, y.recs = Append(x.recs, w),
         sync => y.synced = Len(y.recs), ~sync => y.synced = x.synced
  PROVE  /\ y.synced <= Len(y.recs) /\ Synced(x) \subseteq Synced(y)
         /\ sync => w \in Synced(y)
         /\ RecordsOf(y) \subseteq RecordsOf(x) \cup {w}
  <1>1. PICK old \in Seq(Writes), s \in Nat, n \in Nat :
          old = x.recs /\ s = x.synced /\ n = Len(old) /\ s <= n
    BY DEF LogFiles
  <1>2. PICK recs : recs = y.recs /\ recs = Append(old, w)
    BY <1>1
  <1>3. Len(recs) = n + 1 /\ recs[n + 1] = w /\ \A i \in 1..n : recs[i] = old[i]
    BY <1>1, <1>2
  <1>4. y.recs = recs /\ (sync => y.synced = n + 1) /\ (~sync => y.synced = s)
    BY <1>1, <1>2, <1>3
  <1>5. \A i \in 1..s : i \in 1..n /\ i \in 1..(n + 1) 
    BY <1>1
  <1>6. \A i \in 1..(n + 1) : i \in 1..n \/ i = n + 1
    OBVIOUS
  <1>7. Synced(x) \subseteq Synced(y)
    <2>1. SUFFICES ASSUME NEW i \in 1..s PROVE old[i] \in Synced(y)
      BY <1>1 DEF Synced
    <2>2. old[i] = recs[i] /\ i \in 1..y.synced
      BY <1>3, <1>4, <1>5
    <2> QED
      BY <1>4, <2>2 DEF Synced
  <1>8. RecordsOf(y) \subseteq RecordsOf(x) \cup {w}
    <2>1. SUFFICES ASSUME NEW i \in 1..(n + 1) PROVE recs[i] \in RecordsOf(x) \cup {w}
      BY <1>3, <1>4 DEF RecordsOf
    <2> QED
      BY <1>1, <1>3, <1>6 DEF RecordsOf
  <1>9. sync => w \in Synced(y)
    <2>1. n + 1 \in 1..(n + 1)
      OBVIOUS
    <2> QED
      BY <1>3, <1>4, <2>1 DEF Synced
  <1>10. y.synced <= Len(y.recs)
    <2>1. s <= n + 1 /\ n + 1 <= n + 1
      BY <1>1
    <2> QED
      BY <1>3, <1>4, <2>1
  <1> QED
    BY <1>7, <1>8, <1>9, <1>10

LEMMA WriteSynced ==
  ASSUME Inv, Inv', SyncedInv, NEW sync \in BOOLEAN, Write(sync)
  PROVE  SyncedInv'
  <1>1. PICK w \in Writes : w = <<vset.last + 1, written + 1>>
    <2>1. PICK m, n \in Nat : m = vset.last + 1 /\ n = written + 1
      BY DEF Inv, TypeOK
    <2>2. <<m, n>> \in Nat \X Nat
      OBVIOUS
    <2> QED
      BY <2>1, <2>2 DEF Writes
  <1>2. PICK l : l = logfile
    OBVIOUS
  <1>3. PICK recs : recs = Append(logs[l].recs, w)
    OBVIOUS
  <1>4. PICK y : y = [recs |-> recs, synced |-> IF sync THEN Len(recs) ELSE logs[l].synced]
    OBVIOUS
  <1>5. /\ phase = "up" /\ phase' = phase
        /\ logs' = [logs EXCEPT ![l] = y]
        /\ mem' = mem \cup {w} /\ vset' = [vset EXCEPT !.last = vset.last + 1]
        /\ promised' = IF sync THEN promised \cup {w} ELSE promised
        /\ tables' = tables /\ manifests' = manifests /\ current' = current
        /\ versions' = versions /\ imm' = imm /\ logfile' = logfile
        /\ edit' = edit /\ flush' = flush /\ comp' = comp
    BY <1>1, <1>2, <1>3, <1>4 DEF Write, background
  <1>6. TypeOK /\ RunningHas /\ Safe(current) /\ LogsSound /\ l \in DOMAIN logs
    BY <1>2, <1>5 DEF Inv, RunningSound, DiskSound, SyncedInv, LogsSound, RunningHas, LogsInOrder, Up
  <1>7. PICK x \in LogFiles : x = logs[l] /\ x.synced <= Len(x.recs)
    BY <1>6 DEF TypeOK, IsDirectory, LogsSound
  <1>8. /\ y.synced <= Len(y.recs) /\ Synced(x) \subseteq Synced(y)
        /\ sync => w \in Synced(y)
        /\ RecordsOf(y) \subseteq RecordsOf(x) \cup {w}
    <2>1. /\ y.recs = Append(x.recs, w)
          /\ sync => y.synced = Len(y.recs)
          /\ ~sync => y.synced = x.synced
      BY <1>3, <1>4, <1>7
    <2> QED
      BY <1>7, <2>1, AppendedLog
  <1>9. DOMAIN logs' = DOMAIN logs /\ logs'[l] = y /\ \A n \in DOMAIN logs : n # l => logs'[n] = logs[n]
    BY <1>5, <1>6
  <1>10. Longer(logs', logs)
    BY <1>7, <1>8, <1>9 DEF Longer
  <1>11. \A p \in promised' : p \in promised \/ (p = w /\ p \in Synced(logs'[l]))
    BY <1>5, <1>8, <1>9
  <1>12. PICK c, es, s : c = current /\ es = manifests[c].edits /\ s = manifests[c].synced
    OBVIOUS
  <1>13. Safe(c)'
    <2>1. SUFFICES ASSUME NEW k \in s..Len(es), NEW p \in promised'
                   PROVE  Stored(p, FilesAt(es, k))' \/ Logged(p, es[k].log)'
      BY <1>5, <1>12 DEF Safe, Durable
    <2>2. CASE p \in promised
      <3>1. Stored(p, FilesAt(es, k)) \/ Logged(p, es[k].log)
        BY <1>6, <1>12, <2>2 DEF Safe, Durable
      <3> QED
        BY <1>5, <1>10, <3>1 DEF Stored, Logged, Longer
    <2>3. CASE p \in Synced(logs'[l])
      <3>1. es[k].log <= l
        BY <1>2, <1>6, <1>12 DEF RunningHas, LogsInOrder
      <3> QED
        BY <1>6, <1>9, <2>3, <3>1 DEF Logged
    <2> QED
      BY <1>11, <2>2, <2>3
  <1>14. LastEdit(c)' = LastEdit(c) /\ LastFiles(c)' = LastFiles(c) /\ CurrentFiles' = CurrentFiles
    BY <1>5 DEF LastEdit, LastFiles, CurrentFiles
  <1>15. LogsInOrder'
    <2>1. vset'.log_number = vset.log_number /\ vset'.next_file = vset.next_file
      BY <1>5, <1>6 DEF TypeOK
    <2>2. RecordsOf(logs'[l]) \subseteq mem'
      BY <1>2, <1>5, <1>6, <1>7, <1>8, <1>9 DEF RunningHas, LogsInOrder
    <2> QED
      BY <1>2, <1>5, <1>6, <1>9, <1>12, <1>14, <2>1, <2>2 DEF RunningHas, LogsInOrder
  <1>16. InMemory'
    BY <1>5, <1>6, <1>11, <1>14 DEF RunningHas, InMemory, Stored
  <1>17. OnDisk'
    BY <1>2, <1>5, <1>6, <1>10, <1>11, <1>12, <1>14 DEF RunningHas, OnDisk, Stored, Longer
  <1>18. EditHas'
    <2>1. SUFFICES ASSUME edit # None, ~edit.logged, NEW p \in promised'
                   PROVE  Stored(p, LastFiles(c) \cup edit.add)' \/ Logged(p, edit.log)'
      <3>1. vset'.log_number = vset.log_number
        BY <1>5, <1>6 DEF TypeOK
      <3> QED
        BY <1>5, <1>6, <1>12, <1>14, <3>1 DEF RunningHas, EditHas, Stored
    <2>2. CASE p \in promised
      <3>1. Stored(p, LastFiles(c) \cup edit.add) \/ Logged(p, edit.log)
        BY <1>6, <1>12, <2>1, <2>2 DEF RunningHas, EditHas
      <3> QED
        BY <1>5, <1>10, <1>14, <3>1 DEF Stored, Logged, Longer
    <2>3. CASE p \in Synced(logs'[l])
      <3>1. edit.log <= l
        BY <1>2, <1>6, <2>1 DEF RunningHas, EditHas
      <3> QED
        BY <1>5, <1>6, <1>9, <2>3, <3>1 DEF Logged
    <2> QED
      BY <1>11, <2>2, <2>3
  <1>19. OutputsNew'
    BY <1>5, <1>6 DEF RunningHas, OutputsNew, Merging
  <1>20. LogsSound'
    BY <1>6, <1>8, <1>9 DEF LogsSound
  <1> QED
    BY <1>5, <1>12, <1>13, <1>15, <1>16, <1>17, <1>18, <1>19, <1>20, UpSynced DEF RunningHas, Up

LEMMA SwitchMemTableSynced ==
  ASSUME Inv, Inv', SyncedInv, SwitchMemTable
  PROVE  SyncedInv'
  <1>1. PICK x : x = [recs |-> <<>>, synced |-> 0]
    OBVIOUS
  <1>2. PICK t \in Nat : t = vset.next_file
    BY DEF Inv, TypeOK
  <1>3. /\ phase = "up" /\ phase' = phase /\ imm = {} /\ imm' = {mem} /\ mem' = {}
        /\ logs' = Put(logs, t, x) /\ logfile' = t /\ vset' = [vset EXCEPT !.next_file = t + 1]
        /\ tables' = tables /\ manifests' = manifests /\ current' = current
        /\ versions' = versions /\ promised' = promised
        /\ edit' = edit /\ flush' = flush /\ comp' = comp
    BY <1>1, <1>2 DEF SwitchMemTable, background, history
  <1>4. TypeOK /\ RunningHas /\ Safe(current) /\ LogsSound
    BY <1>3 DEF Inv, RunningSound, DiskSound, SyncedInv, LogsSound, Up
  <1>5. PICK l \in Nat : l = logfile /\ l < t /\ l \in DOMAIN logs
    BY <1>2, <1>4 DEF TypeOK, RunningHas, LogsInOrder
  <1>6. /\ DOMAIN logs' = DOMAIN logs \cup {t} /\ logs'[t] = x
        /\ \A n \in DOMAIN logs : n # t => logs'[n] = logs[n]
    BY <1>3 DEF Put
  <1>7. \A n \in DOMAIN logs : n \in Nat /\ n < t
    BY <1>2, <1>4 DEF RunningHas, LogsInOrder, TypeOK, IsDirectory
  <1>8. \A n \in DOMAIN logs : n # t
    BY <1>2, <1>7
  <1>9. Longer(logs', logs)
    BY <1>6, <1>8 DEF Longer
  <1>10. PICK c, es, s : c = current /\ es = manifests[c].edits /\ s = manifests[c].synced
    OBVIOUS
  <1>11. Safe(c)'
    BY <1>3, <1>4, <1>9, <1>10, SafeKeeps
  <1>12. LastEdit(c)' = LastEdit(c) /\ LastFiles(c)' = LastFiles(c) /\ CurrentFiles' = CurrentFiles
    BY <1>3 DEF LastEdit, LastFiles, CurrentFiles
  <1>13. RecordsOf(x) = {} /\ x.synced <= Len(x.recs)
    BY <1>1, NoRecords
  <1>14. vset'.log_number = vset.log_number /\ vset'.next_file = t + 1
    BY <1>2, <1>3, <1>4 DEF TypeOK
  <1>15. flush = None
    BY <1>3, <1>4 DEF RunningHas, EditHas
  \* The numbers in the manifest and the edit are not beyond the old log's.
  <1>16. ASSUME NEW n \in Fields, n <= l PROVE n <= t
    <2>1. n \in Int
      BY <1>16 DEF Fields, Unset
    <2> QED
      BY <1>5, <1>16, <2>1
  <1>17. LogsInOrder'
    <2>1. ASSUME NEW k \in s..Len(es) PROVE es[k].log <= t
      <3>1. es[k].log <= l
        BY <1>4, <1>5, <1>10 DEF RunningHas, LogsInOrder
      <3>2. Sound(c) /\ opened
        BY <1>3, <1>10 DEF Inv, RunningSound, DiskSound, Up
      <3>3. es \in Seq(Edits) /\ s \in Nat
        BY <1>4, <1>10, <3>2, SoundFacts
      <3>4. k >= 1
        BY <1>10, <3>2 DEF Sound, Readable
      <3>5. k \in 1..Len(es)
        BY <3>3, <3>4
      <3>6. PICK e \in Edits : e = es[k]
        BY <3>3, <3>5
      <3>7. es[k].log \in Fields
        BY <3>6 DEF Edits
      <3> QED
        BY <1>16, <3>1, <3>7
    <2>2. \A n \in DOMAIN logs' : n < t + 1
      BY <1>2, <1>6, <1>7
    <2> QED
      BY <1>3, <1>4, <1>6, <1>10, <1>12, <1>13, <1>14, <2>1, <2>2 DEF RunningHas, LogsInOrder
  <1>18. InMemory'
    BY <1>3, <1>4, <1>12 DEF RunningHas, InMemory, Stored
  <1>19. OnDisk'
    <2>1. Synced(logs[l]) \subseteq mem
      <3>1. Synced(logs[l]) \subseteq RecordsOf(logs[l])
        BY <1>4, <1>5, SyncedRecords
      <3> QED
        BY <1>4, <1>5, <3>1 DEF RunningHas, LogsInOrder
    <2> QED
      BY <1>3, <1>4, <1>5, <1>10, <1>12, <2>1 DEF RunningHas, OnDisk, Stored
  <1>20. EditHas'
    <2>1. edit # None => edit.log <= t
      <3>1. edit # None => edit.log \in Fields /\ edit.log <= l
        BY <1>4, <1>5 DEF TypeOK, Edits, RunningHas, EditHas
      <3> QED
        BY <1>16, <3>1
    <2>2. \A w : edit # None => (Logged(w, edit.log) => Logged(w, edit.log)')
      BY <1>3, <1>9 DEF Logged, Longer
    <2> QED
      BY <1>3, <1>4, <1>10, <1>12, <1>14, <1>15, <2>1, <2>2 DEF RunningHas, EditHas, Stored
  <1>21. OutputsNew'
    BY <1>3, <1>4 DEF RunningHas, OutputsNew, Merging
  <1>22. LogsSound'
    BY <1>4, <1>6, <1>8, <1>13 DEF LogsSound
  <1> QED
    BY <1>3, <1>10, <1>11, <1>17, <1>18, <1>19, <1>20, <1>21, <1>22, UpSynced DEF RunningHas, Up

-----------------------------------------------------------------------------
(***************************************************************************)
(* The background thread's tables.                                         *)
(***************************************************************************)

LEMMA NewTableSynced ==
  ASSUME Inv, Inv', SyncedInv, phase \in Up, phase' \in Up, edit = None, edit' = None,
         imm' # {} \/ flush' = None,
         NEW x \in TableFiles, tables' = Put(tables, vset.next_file, x),
         vset' = [vset EXCEPT !.next_file = vset.next_file + 1],
         manifests' = manifests, current' = current, logs' = logs,
         mem' = mem, imm' = imm, logfile' = logfile, promised' = promised,
         CurrentFiles' = CurrentFiles,
         \A v \in DOMAIN versions' : v \in DOMAIN versions /\ versions'[v].files = versions[v].files,
         comp' # None => comp # None /\ comp'.done = comp.done
                         /\ comp'.outs \subseteq comp.outs \cup {vset.next_file}
  PROVE  SyncedInv'
  <1>1. PICK n, t : n = current /\ t = vset.next_file
    OBVIOUS
  <1>2. TypeOK /\ RunningHas /\ VersionsHeld
    BY DEF Inv, SyncedInv, RunningSound
  <1>3. t \notin Needed(n)
    <2>1. opened' = opened
      BY DEF Inv, RunningSound
    <2> QED
      BY <1>1, <2>1, NewTable
  <1>4. \A u \in DOMAIN tables : u # t => tables'[u] = tables[u]
    BY <1>1 DEF Put
  <1>5. CurrentVersion(versions) \in DOMAIN versions
    <2>1. PICK vs : vs = versions /\ IsDirectory(vs, VersionRecords)
      BY <1>2 DEF TypeOK
    <2>2. PICK c \in DOMAIN vs : \A v \in DOMAIN vs : v <= c
      BY <1>2, <2>1 DEF VersionsHeld
    <2>3. CurrentVersion(vs) = c
      BY <2>1, <2>2, CurrentIs
    <2> QED
      BY <2>1, <2>2, <2>3
  <1>6. \A u \in Needed(current) \cup CurrentFiles : tables'[u].data = tables[u].data
    BY <1>1, <1>3, <1>4, <1>5, RunningNeeds DEF CurrentFiles
  <1>7. EditHas'
    BY <1>2 DEF EditHas
  <1>8. OutputsNew'
    <2>1. \A v \in DOMAIN versions : t \notin versions[v].files
      BY <1>1, RunningNeeds
    <2> QED
      BY <1>1, <1>2, <2>1 DEF RunningHas, OutputsNew, Merging
  <1>9. vset'.log_number = vset.log_number /\ vset'.next_file >= vset.next_file
    BY <1>2 DEF TypeOK
  <1> QED
    BY <1>6, <1>7, <1>8, <1>9, SameLogs

LEMMA WriteLevel0TableSynced ==
  ASSUME Inv, Inv', SyncedInv, WriteLevel0Table
  PROVE  SyncedInv'
  <1>1. PICK x \in TableFiles : x = [data |-> {}, whole |-> FALSE, level |-> 0]
    <2>1. [data |-> {}, whole |-> FALSE, level |-> 0] \in TableFiles
      BY DEF TableFiles
    <2> QED
      BY <2>1
  <1>2. /\ phase = "up" /\ phase' = phase /\ edit = None /\ edit' = edit /\ imm # {}
        /\ tables' = Put(tables, vset.next_file, x)
        /\ vset' = [vset EXCEPT !.next_file = vset.next_file + 1]
        /\ flush' = [number |-> vset.next_file, base |-> CurrentVersion(versions)]
        /\ versions' = Ref(versions, flush'.base)
        /\ manifests' = manifests /\ current' = current /\ logs' = logs
        /\ mem' = mem /\ imm' = imm /\ logfile' = logfile /\ promised' = promised /\ comp' = comp
    BY <1>1 DEF WriteLevel0Table, memory, history
  <1>3. flush'.base = CurrentVersion(versions)
    BY <1>2
  <1>4. versions' = Ref(versions, CurrentVersion(versions))
    BY <1>2, <1>3
  <1>5. /\ CurrentFiles' = CurrentFiles
        /\ \A v \in DOMAIN versions' : v \in DOMAIN versions /\ versions'[v].files = versions[v].files
    BY <1>2, <1>4, TakenHere DEF Up
  <1> QED
    BY <1>1, <1>2, <1>5, NewTableSynced DEF Up

LEMMA OpenCompactionOutputFileSynced ==
  ASSUME Inv, Inv', SyncedInv, OpenCompactionOutputFile
  PROVE  SyncedInv'
  <1>1. PICK x \in TableFiles : x = [data |-> {}, whole |-> FALSE, level |-> 0]
    <2>1. [data |-> {}, whole |-> FALSE, level |-> 0] \in TableFiles
      BY DEF TableFiles
    <2> QED
      BY <2>1
  <1>2. /\ phase = "up" /\ phase' = phase /\ comp # None /\ ~comp.done
        /\ flush = None /\ flush' = flush
        /\ comp' = [comp EXCEPT !.outs = {vset.next_file}]
        /\ tables' = Put(tables, vset.next_file, x)
        /\ vset' = [vset EXCEPT !.next_file = vset.next_file + 1]
        /\ versions' = versions /\ edit' = edit
        /\ manifests' = manifests /\ current' = current /\ logs' = logs
        /\ mem' = mem /\ imm' = imm /\ logfile' = logfile /\ promised' = promised
    BY <1>1 DEF OpenCompactionOutputFile, Merging, memory, history
  <1>3. edit = None
    BY <1>2 DEF Inv, RunningSound, OutputsHeld, Up
  <1>4. comp'.done = comp.done /\ comp'.outs = {vset.next_file}
    BY <1>2 DEF Inv, TypeOK
  <1>5. CurrentFiles' = CurrentFiles
    BY <1>2 DEF CurrentFiles
  <1> QED
    BY <1>1, <1>2, <1>3, <1>4, <1>5, NewTableSynced DEF Up

\* What the manifest ends with, in an open database.
LEMMA LastLog ==
  ASSUME Inv, phase \in Up, RunningHas
  PROVE  /\ LastEdit(current).log \in Nat /\ vset.log_number <= LastEdit(current).log
         /\ LastEdit(current).log <= logfile /\ logfile \in Nat /\ vset.log_number \in Nat
  <1>1. PICK c : c = current
    OBVIOUS
  <1>2. TypeOK /\ Sound(c) /\ opened
    BY <1>1 DEF Inv, RunningSound, DiskSound
  <1>3. PICK e \in Edits : e = LastEdit(c) /\ AllSet(e)
    BY <1>2, SoundFacts
  <1>4. PICK es \in Seq(Edits), s \in Nat, l \in Nat :
          es = manifests[c].edits /\ s = manifests[c].synced /\ l = Len(es) /\ s <= l
    <2>1. /\ manifests[c].edits \in Seq(Edits) /\ manifests[c].synced \in Nat
          /\ manifests[c].synced <= Len(manifests[c].edits)
      BY <1>2, SoundFacts
    <2> QED
      BY <2>1
  <1>5. l \in s..l
    BY <1>4
  <1>6. es[l] = e
    BY <1>3, <1>4 DEF LastEdit
  <1>7. e.log \in Nat
    BY <1>3 DEF Edits, Fields, AllSet
  <1>8. vset.log_number <= e.log
    BY <1>1, <1>3 DEF RunningHas, LogsInOrder
  <1>9. e.log <= logfile
    BY <1>1, <1>4, <1>5, <1>6 DEF RunningHas, LogsInOrder
  <1> QED
    BY <1>1, <1>2, <1>3, <1>7, <1>8, <1>9 DEF TypeOK

LEMMA BuildTableSynced ==
  ASSUME Inv, Inv', SyncedInv, BuildTable
  PROVE  SyncedInv'
  <1>1. /\ phase \in Up /\ phase' = phase /\ flush # None /\ edit = None
        /\ versions' = Unref(versions, flush.base)
        /\ logs' = logs /\ manifests' = manifests /\ current' = current
        /\ vset' = vset /\ mem' = mem /\ imm' = imm /\ logfile' = logfile /\ comp' = comp
        /\ promised' = promised
    BY DEF BuildTable, Running, Up, memory, history, Fails
  <1>2. PICK n, t : n = current /\ t = flush.number
    OBVIOUS
  <1>3. /\ VersionsHeld /\ OutputsHeld /\ TypeOK /\ RunningHas
        /\ t \in DOMAIN tables
        /\ \A v \in DOMAIN versions : t \notin versions[v].files
        /\ t \notin Needed(n)
    BY <1>1, <1>2 DEF Inv, RunningSound, OutputsHeld, Needed, SyncedInv
  <1>4. /\ CurrentFiles' = CurrentFiles
        /\ \A v \in DOMAIN versions' : v \in DOMAIN versions /\ versions'[v].files = versions[v].files
    BY <1>1, DroppedHere
  <1>5. imm # {}
    BY <1>1, <1>3 DEF RunningHas, EditHas
  \* The table holds the memtable, or it is gone.
  <1>6. /\ \A u \in DOMAIN tables : u # t => tables'[u] = tables[u]
        /\ \/ edit' = None
           \/ /\ edit' = Edit(logfile, vset.next_file, vset.last, {}, {t})
              /\ tables'[t].data = UNION imm
    <2>1. CASE /\ tables' = [tables EXCEPT ![flush.number] =
                               [data |-> UNION imm, whole |-> TRUE, level |-> 0]]
               /\ IF phase = "closing"
                  THEN flush' = None /\ bg_ok' = FALSE /\ UNCHANGED edit
                  ELSE /\ edit' = Edit(logfile, vset.next_file, vset.last, {}, {flush.number})
                       /\ UNCHANGED <<flush, bg_ok>>
      <3>1. tables'[t].data = UNION imm /\ \A u \in DOMAIN tables : u # t => tables'[u] = tables[u]
        BY <1>2, <1>3, <2>1
      <3> QED
        BY <1>1, <1>2, <2>1, <3>1
    <2>2. CASE tables' = Without(tables, flush.number) /\ UNCHANGED edit
      BY <1>1, <1>2, <2>2 DEF Without, Restrict1
    <2> QED
      BY <2>1, <2>2 DEF BuildTable
  <1>7. CurrentVersion(versions) \in DOMAIN versions
    <2>1. PICK vs : vs = versions /\ IsDirectory(vs, VersionRecords)
      BY <1>3 DEF TypeOK
    <2>2. PICK c \in DOMAIN vs : \A v \in DOMAIN vs : v <= c
      BY <1>3, <2>1 DEF VersionsHeld
    <2>3. CurrentVersion(vs) = c
      BY <2>1, <2>2, CurrentIs
    <2> QED
      BY <2>1, <2>2, <2>3
  <1>8. \A u \in Needed(current) \cup CurrentFiles : tables'[u].data = tables[u].data
    BY <1>1, <1>2, <1>3, <1>6, <1>7, RunningNeeds DEF CurrentFiles
  <1>9. EditHas'
    <2>1. CASE edit' = None
      BY <1>1, <1>5, <2>1 DEF EditHas
    <2>2. CASE /\ edit' = Edit(logfile, vset.next_file, vset.last, {}, {t})
               /\ tables'[t].data = UNION imm
      <3>1. edit'.log = logfile /\ edit'.del = {} /\ edit'.add = {t} /\ ~edit'.logged
        BY <2>2 DEF Edit
      <3>2. vset.log_number <= logfile /\ logfile <= logfile
        <4>1. PICK x \in Nat : x = LastEdit(current).log
          BY <1>1, <1>3, LastLog
        <4>2. vset.log_number <= x /\ x <= logfile /\ logfile \in Nat /\ vset.log_number \in Nat
          BY <1>1, <1>3, <4>1, LastLog
        <4> QED
          BY <4>2
      <3>3. \A w \in UNION imm : Stored(w, {t})'
        BY <2>2 DEF Stored
      <3>4. ASSUME NEW w \in promised
            PROVE  Stored(w, LastFiles(n) \cup {t})' \/ Logged(w, logfile)'
        <4>1. \/ w \in UNION imm \/ w \in Synced(logs[logfile]) \/ Stored(w, LastFiles(n))
          BY <1>2, <1>3 DEF RunningHas, OnDisk
        <4>2. LastFiles(n)' = LastFiles(n) /\ LastFiles(n) \subseteq Needed(n)
          <5>1. Sound(n) /\ opened
            BY <1>1, <1>2 DEF Inv, RunningSound, DiskSound
          <5>2. LastFiles(n) \subseteq Needed(n)
            BY <1>3, <5>1, SoundFacts
          <5> QED
            BY <1>1, <5>2 DEF LastFiles
        <4>3. logfile \in DOMAIN logs
          BY <1>3 DEF RunningHas, LogsInOrder
        <4> QED
          BY <1>1, <1>2, <1>8, <2>2, <3>2, <4>1, <4>2, <4>3 DEF Stored, Logged
      <3> QED
        BY <1>1, <1>2, <1>5, <3>1, <3>2, <3>3, <3>4 DEF EditHas
    <2> QED
      BY <1>6, <2>1, <2>2
  <1>10. OutputsNew'
    BY <1>1, <1>3, <1>4 DEF RunningHas, OutputsNew, Merging
  <1>11. vset'.log_number = vset.log_number /\ vset'.next_file >= vset.next_file
    BY <1>1, <1>3 DEF TypeOK
  <1> QED
    BY <1>1, <1>4, <1>8, <1>9, <1>10, <1>11, SameLogs

LEMMA FinishCompactionOutputFileSynced ==
  ASSUME Inv, Inv', NumbersInv, SyncedInv, FinishCompactionOutputFile
  PROVE  SyncedInv'
  <1>1. /\ phase \in Up /\ phase' = phase /\ comp # None /\ ~comp.done /\ flush = None /\ edit = None
        /\ logs' = logs /\ manifests' = manifests /\ current' = current
        /\ vset' = vset /\ mem' = mem /\ imm' = imm /\ temps' = temps /\ logfile' = logfile
        /\ flush' = flush /\ promised' = promised
    BY DEF FinishCompactionOutputFile, Running, Up, Merging, memory, history, Fails
  <1>2. CASE CompactionFails /\ UNCHANGED <<tables, edit>>
    BY <1>1, <1>2, CleanupSynced DEF CompactionFails, disk, memory
  <1>3. CASE /\ tables' = [n \in DOMAIN tables |->
                  IF n \in comp.outs
                  THEN [data |-> UNION {tables[i].data : i \in comp.inputs},
                        whole |-> TRUE, level |-> 1]
                  ELSE tables[n]]
             /\ edit' = Edit(vset.log_number, vset.next_file, vset.last, comp.inputs, comp.outs)
             /\ comp' = [comp EXCEPT !.done = TRUE]
             /\ versions' = versions /\ comp.outs # {}
    <2>1. PICK n, outs, data : /\ n = current /\ outs = comp.outs
                               /\ data = UNION {tables[i].data : i \in comp.inputs}
      OBVIOUS
    <2>2. /\ \A u \in DOMAIN tables : u \notin outs => tables'[u] = tables[u]
          /\ \A u \in DOMAIN tables : u \in outs => tables'[u].data = data
      BY <1>3, <2>1
    <2>3. /\ VersionsHeld /\ OutputsHeld /\ TypeOK /\ RunningHas /\ Safe(n) /\ Sound(n) /\ opened
          /\ outs \subseteq DOMAIN tables
      BY <1>1, <2>1 DEF Inv, RunningSound, DiskSound, OutputsHeld, SyncedInv
    <2>4. \A u \in outs : u \notin Needed(n) /\ \A v \in DOMAIN versions : u \notin versions[v].files
      <3>1. PICK K \in SUBSET Writes : Unique(K) /\ RunningOn(K)
        BY <1>1 DEF NumbersInv
      <3> QED
        BY <1>1, <2>1, <2>3, <3>1 DEF RunningOn, OutputsApart, Merging, RunningHas, OutputsNew
    <2>5. CurrentVersion(versions) \in DOMAIN versions
      <3>1. PICK vs : vs = versions /\ IsDirectory(vs, VersionRecords)
        BY <2>3 DEF TypeOK
      <3>2. PICK c \in DOMAIN vs : \A v \in DOMAIN vs : v <= c
        BY <2>3, <3>1 DEF VersionsHeld
      <3>3. CurrentVersion(vs) = c
        BY <3>1, <3>2, CurrentIs
      <3> QED
        BY <3>1, <3>2, <3>3
    <2>6. \A u \in Needed(current) \cup CurrentFiles : tables'[u].data = tables[u].data
      BY <1>1, <2>1, <2>2, <2>4, <2>5, RunningNeeds DEF CurrentFiles
    <2>7. \A i \in comp.inputs : tables'[i].data = tables[i].data
      <3>1. comp.v \in DOMAIN versions /\ comp.inputs = versions[comp.v].files
        BY <1>1, <2>3 DEF VersionsHeld
      <3> QED
        BY <1>1, <2>1, <2>2, <2>4, <3>1, RunningNeeds
    <2>8. ASSUME NEW i \in comp.inputs, NEW w \in tables'[i].data PROVE Stored(w, outs)'
      <3>1. w \in data
        BY <2>1, <2>7, <2>8
      <3>2. PICK u \in outs : u \in DOMAIN tables
        BY <1>3, <2>1, <2>3
      <3>3. w \in tables'[u].data
        BY <2>2, <3>1, <3>2
      <3> QED
        BY <3>2, <3>3 DEF Stored
    <2>9. /\ edit'.log = vset.log_number /\ edit'.del = comp.inputs /\ edit'.add = outs
          /\ ~edit'.logged
      BY <1>3, <2>1 DEF Edit
    <2>10. PICK x \in Nat : x = LastEdit(n).log
      BY <1>1, <2>1, <2>3, LastLog
    <2>11. /\ vset.log_number <= vset.log_number /\ vset.log_number <= logfile
           /\ vset.log_number <= x /\ vset.log_number \in Nat
      <3>1. vset.log_number <= x /\ x <= logfile /\ logfile \in Nat /\ vset.log_number \in Nat
        BY <1>1, <2>1, <2>3, <2>10, LastLog
      <3> QED
        BY <2>10, <3>1
    <2>12. LastFiles(n)' = LastFiles(n) /\ LastFiles(n) \subseteq Needed(n)
      <3>1. LastFiles(n) \subseteq Needed(n)
        BY <2>3, SoundFacts
      <3> QED
        BY <1>1, <3>1 DEF LastFiles
    <2>13. ASSUME NEW w \in promised
           PROVE  Stored(w, LastFiles(n) \cup outs)' \/ Logged(w, vset.log_number)'
      <3>1. PICK es \in Seq(Edits), l \in Nat :
              es = manifests[n].edits /\ l = Len(es) /\ l \in manifests[n].synced..l
        <4>1. /\ manifests[n].edits \in Seq(Edits) /\ manifests[n].synced \in Nat
              /\ manifests[n].synced <= Len(manifests[n].edits)
          BY <2>3, SoundFacts
        <4> QED
          BY <4>1
      <3>2. Stored(w, FilesAt(es, l)) \/ Logged(w, es[l].log)
        BY <2>3, <3>1 DEF Safe, Durable
      <3>3. LastFiles(n) = FilesAt(es, l) /\ es[l].log = x
        BY <2>10, <3>1 DEF LastFiles, LastEdit
      <3>4. CASE Stored(w, FilesAt(es, l))
        BY <2>1, <2>6, <2>12, <3>3, <3>4 DEF Stored
      <3>5. CASE Logged(w, x)
        <4>1. PICK a \in DOMAIN logs : a >= x /\ w \in Synced(logs[a])
          BY <3>5 DEF Logged
        <4>2. a \in Nat
          BY <2>3, <4>1 DEF TypeOK, IsDirectory
        <4>3. a >= vset.log_number
          BY <2>10, <2>11, <4>1, <4>2
        <4> QED
          BY <1>1, <4>1, <4>3 DEF Logged
      <3> QED
        BY <3>2, <3>3, <3>4, <3>5
    <2>14. EditHas'
      BY <1>1, <2>1, <2>8, <2>9, <2>11, <2>13 DEF EditHas
    <2>15. OutputsNew'
      <3>1. comp'.done
        BY <1>1, <1>3, <2>3 DEF TypeOK
      <3> QED
        BY <3>1 DEF OutputsNew, Merging
    <2>16. CurrentFiles' = CurrentFiles
      BY <1>3 DEF CurrentFiles
    <2>17. vset'.log_number = vset.log_number /\ vset'.next_file >= vset.next_file
      BY <1>1, <2>3 DEF TypeOK
    <2> QED
      BY <1>1, <2>6, <2>14, <2>15, <2>16, <2>17, SameLogs
  <1> QED
    BY <1>2, <1>3 DEF FinishCompactionOutputFile

-----------------------------------------------------------------------------
(***************************************************************************)
(* LogAndApply.                                                            *)
(***************************************************************************)

LEMMA LogEditSynced ==
  ASSUME Inv, Inv', SyncedInv, LogEdit
  PROVE  SyncedInv'
  <1>1. PICK m : m = vset.manifest
    OBVIOUS
  <1>2. /\ phase \in Up /\ phase' = phase /\ edit # None /\ ~edit.logged
        /\ edit' = [edit EXCEPT !.logged = TRUE]
        /\ manifests' = [manifests EXCEPT ![m].edits = Append(@, edit)]
        /\ logs' = logs /\ tables' = tables /\ current' = current /\ vset' = vset
        /\ versions' = versions /\ mem' = mem /\ imm' = imm /\ logfile' = logfile
        /\ flush' = flush /\ comp' = comp /\ promised' = promised
    BY <1>1 DEF LogEdit, Running, Up, memory, background, history
  <1>3. TypeOK /\ RunningHas /\ LogsSound
    BY <1>2 DEF Inv, SyncedInv, LogsSound
  <1>4. opened /\ current = m /\ OutputsHeld /\ Sound(m) /\ Safe(m)
    BY <1>1, <1>2 DEF Inv, RunningSound, DiskSound, SyncedInv
  <1>5. PICK e \in Edits : e = edit /\ e.log \in Nat
    <2>1. edit \in Edits /\ AllSet(edit)
      BY <1>2, <1>3, <1>4 DEF TypeOK, OutputsHeld
    <2> QED
      BY <2>1 DEF Edits, Fields, AllSet
  <1>6. PICK es \in Seq(Edits), s \in Nat, l \in Nat :
          /\ es = manifests[m].edits /\ s = manifests[m].synced
          /\ l = Len(es) /\ s <= l /\ l >= 1
    <2>1. /\ manifests[m].edits \in Seq(Edits) /\ manifests[m].synced \in Nat
          /\ manifests[m].synced <= Len(manifests[m].edits) /\ Len(manifests[m].edits) >= 1
      BY <1>3, <1>4, SoundFacts
    <2> QED
      BY <2>1
  <1>7. PICK es2 \in Seq(Edits) :
          /\ es2 = Append(es, e) /\ Len(es2) = l + 1 /\ es2[l + 1] = e
          /\ \A k \in 1..l : es2[k] = es[k]
          /\ \A k \in 0..l : FilesAt(es2, k) = FilesAt(es, k)
          /\ FilesAt(es2, l + 1) = Applied(FilesAt(es, l), e)
    <2>1. PICK a : a = Append(es, e)
      OBVIOUS
    <2>2. /\ a \in Seq(Edits) /\ Len(a) = Len(es) + 1 /\ a[Len(es) + 1] = e
          /\ \A k \in 1..Len(es) : a[k] = es[k]
          /\ \A k \in 0..Len(es) : FilesAt(a, k) = FilesAt(es, k)
          /\ FilesAt(a, Len(es) + 1) = Applied(FilesAt(es, Len(es)), e)
      BY <2>1, FilesAppend
    <2> QED
      BY <1>6, <2>1, <2>2
  <1>8. manifests'[m].edits = es2 /\ manifests'[m].synced = s
    <2>1. PICK f, r : f = manifests /\ r = f[m] /\ IsDirectory(f, Manifests) /\ m \in DOMAIN f
      BY <1>3, <1>4 DEF TypeOK, Sound
    <2>2. r \in Manifests /\ r.edits = es /\ r.synced = s
      BY <1>6, <2>1 DEF IsDirectory
    <2>3. [r EXCEPT !.edits = es2].edits = es2 /\ [r EXCEPT !.edits = es2].synced = s
      BY <2>2 DEF Manifests
    <2>4. manifests' = [f EXCEPT ![m] = [r EXCEPT !.edits = es2]]
      BY <1>2, <1>5, <1>7, <2>1, <2>2
    <2> QED
      BY <2>1, <2>3, <2>4
  <1>9. PICK base \in SUBSET Nat : base = FilesAt(es, l)
    <2>1. l \in 0..Len(es)
      BY <1>6
    <2> QED
      BY <2>1, FilesAtNumbers
  <1>10. FilesAt(es2, l + 1) = (base \ e.del) \cup e.add
    BY <1>7, <1>9, AppliedIs
  <1>11. LastFiles(m) = base /\ LastFiles(m)' = (base \ e.del) \cup e.add /\ LastEdit(m)' = e
    BY <1>6, <1>7, <1>8, <1>9, <1>10 DEF LastFiles, LastEdit
  <1>12. /\ vset.log_number <= e.log /\ e.log <= logfile
         /\ flush # None => imm # {} /\ \A w \in UNION imm : Stored(w, e.add)
         /\ \A t \in e.del : \A w \in tables[t].data : Stored(w, e.add)
         /\ \A w \in promised : Stored(w, base \cup e.add) \/ Logged(w, e.log)
    BY <1>2, <1>3, <1>4, <1>5, <1>11 DEF RunningHas, EditHas
  \* What the edit deletes it adds again.
  <1>13. ASSUME NEW w, Stored(w, base \cup e.add) PROVE Stored(w, (base \ e.del) \cup e.add)
    <2>1. PICK t \in base \cup e.add : w \in tables[t].data
      BY <1>13 DEF Stored
    <2>2. CASE t \in e.del
      <3>1. Stored(w, e.add)
        BY <1>12, <2>1, <2>2
      <3> QED
        BY <3>1 DEF Stored
    <2>3. CASE t \notin e.del
      BY <2>1, <2>3 DEF Stored
    <2> QED
      BY <2>2, <2>3
  <1>14. \A w \in promised : Stored(w, (base \ e.del) \cup e.add) \/ Logged(w, e.log)
    BY <1>12, <1>13
  <1>15. ASSUME NEW k \in s..(l + 1), k # l + 1
         PROVE  k \in s..l /\ k \in 1..l /\ es2[k] = es[k] /\ FilesAt(es2, k) = FilesAt(es, k)
    <2>1. k \in s..l /\ k \in 0..l
      BY <1>6, <1>15
    <2>2. k >= 1
      BY <1>4, <1>6, <2>1 DEF Sound, Readable
    <2>3. k \in 1..l
      BY <2>1, <2>2
    <2> QED
      BY <1>7, <2>1, <2>3
  <1>16. Safe(m)'
    <2>1. ASSUME NEW k \in s..(l + 1) PROVE Durable(es2, k)'
      <3>1. CASE k = l + 1
        <4>1. \A w \in promised : Stored(w, FilesAt(es2, k)) \/ Logged(w, es2[k].log)
          BY <1>7, <1>10, <1>14, <3>1
        <4> QED
          BY <1>2, <4>1 DEF Durable, Stored, Logged
      <3>2. CASE k # l + 1
        <4>1. Durable(es, k)
          BY <1>4, <1>6, <1>15, <3>2 DEF Safe
        <4>2. es2[k] = es[k] /\ FilesAt(es2, k) = FilesAt(es, k)
          BY <1>15, <3>2
        <4> QED
          BY <1>2, <4>1, <4>2 DEF Durable, Stored, Logged
      <3> QED
        BY <3>1, <3>2
    <2> QED
      BY <1>7, <1>8, <2>1 DEF Safe
  <1>17. LogsInOrder'
    <2>1. ASSUME NEW k \in s..(l + 1) PROVE es2[k].log <= logfile
      <3>1. CASE k = l + 1
        BY <1>7, <1>12, <3>1
      <3>2. CASE k # l + 1
        <4>1. es[k].log <= logfile
          BY <1>3, <1>4, <1>6, <1>15, <3>2 DEF RunningHas, LogsInOrder
        <4> QED
          BY <1>15, <3>2, <4>1
      <3> QED
        BY <3>1, <3>2
    <2>2. \A k \in manifests'[m].synced..Len(manifests'[m].edits) : manifests'[m].edits[k].log <= logfile
      BY <1>7, <1>8, <2>1
    <2> QED
      BY <1>2, <1>3, <1>4, <1>11, <1>12, <2>2 DEF RunningHas, LogsInOrder
  <1>18. InMemory'
    BY <1>2, <1>3 DEF RunningHas, InMemory, Stored, CurrentFiles
  <1>19. OnDisk'
    <2>1. \A w : Stored(w, base) => Stored(w, base \cup e.add)
      BY DEF Stored
    <2>2. ASSUME NEW w \in promised
          PROVE  \/ w \in UNION imm \/ w \in Synced(logs[logfile])
                 \/ Stored(w, (base \ e.del) \cup e.add)
      BY <1>3, <1>4, <1>11, <1>13, <2>1 DEF RunningHas, OnDisk
    <2> QED
      BY <1>2, <1>4, <1>11, <2>2 DEF OnDisk, Stored
  <1>20. edit'.add = e.add /\ edit'.del = e.del /\ edit'.log = e.log /\ edit'.logged
    BY <1>2, <1>5 DEF Edits
  <1>21. EditHas'
    BY <1>2, <1>3, <1>4, <1>11, <1>12, <1>20 DEF RunningHas, EditHas, Stored
  <1>22. OutputsNew'
    BY <1>2, <1>3 DEF RunningHas, OutputsNew, Merging
  <1>23. LogsSound'
    BY <1>2, <1>3 DEF LogsSound
  <1> QED
    BY <1>2, <1>4, <1>16, <1>17, <1>18, <1>19, <1>21, <1>22, <1>23, UpSynced DEF RunningHas

LEMMA InstallVersionSynced ==
  ASSUME Inv, Inv', NumbersInv, SyncedInv, InstallVersion
  PROVE  SyncedInv'
  <1>1. TypeOK /\ TypeOK'
    BY DEF Inv
  <1>2. PICK m, f, synced : /\ m = vset.manifest /\ f = manifests
                            /\ synced = [f EXCEPT ![m].synced = Len(f[m].edits)]
    OBVIOUS
  <1>3. /\ phase \in Up /\ phase' = phase /\ edit # None /\ edit.logged /\ edit' = None
        /\ (flush = None => comp' = None /\ imm' = imm /\ flush' = flush)
        /\ (flush # None => comp' = comp /\ imm' = {} /\ flush' = None)
        /\ vset' = [vset EXCEPT !.log_number = edit.log]
        /\ DeleteObsoleteFiles(logs, synced, versions', pending', edit.log, bg_ok)
        /\ current' = current /\ mem' = mem /\ logfile' = logfile /\ promised' = promised
    BY <1>2 DEF InstallVersion, Running, Up, history
  <1>4. /\ \A t \in DOMAIN tables' : tables'[t] = tables[t]
        /\ \A n \in DOMAIN logs' : n \in DOMAIN logs /\ logs'[n] = logs[n]
        /\ \A i \in DOMAIN manifests' : manifests'[i] = synced[i]
        /\ \A n \in DOMAIN logs : n >= edit.log => n \in DOMAIN logs' /\ logs'[n] = logs[n]
    <2>1. PICK vs, p, n, ok : vs = versions' /\ p = pending' /\ n = edit.log /\ ok = bg_ok
      OBVIOUS
    <2>2. DeleteObsoleteFiles(logs, synced, vs, p, n, ok)
      BY <1>3, <2>1
    <2>3. /\ \A t \in DOMAIN tables' : tables'[t] = tables[t]
          /\ \A l \in DOMAIN logs' : l \in DOMAIN logs /\ logs'[l] = logs[l] /\ (ok => l >= n)
          /\ \A i \in DOMAIN manifests' : manifests'[i] = synced[i]
      BY <2>2, DeletedFacts
    <2>4. \A l \in DOMAIN logs : l >= n => l \in DOMAIN logs' /\ logs'[l] = logs[l]
      BY <2>2, DeletedLogs
    <2> QED
      BY <2>1, <2>3, <2>4
  <1>5. current = m /\ Sound(m) /\ opened /\ VersionsHeld /\ OutputsHeld /\ Safe(m) /\ RunningHas /\ LogsSound
    BY <1>2, <1>3 DEF Inv, RunningSound, DiskSound, SyncedInv, LogsSound
  <1>6. opened' /\ Sound(m)' /\ VersionsHeld'
    BY <1>3, <1>5 DEF Inv, RunningSound, DiskSound
  <1>7. PICK es \in Seq(Edits), s \in Nat, l \in Nat :
          es = manifests[m].edits /\ s = manifests[m].synced /\ l = Len(es) /\ s <= l
    <2>1. /\ manifests[m].edits \in Seq(Edits) /\ manifests[m].synced \in Nat
          /\ manifests[m].synced <= Len(manifests[m].edits)
      BY <1>1, <1>5, SoundFacts
    <2> QED
      BY <2>1
  <1>8. manifests'[m].edits = es /\ manifests'[m].synced = l
    <2>1. m \in DOMAIN manifests' /\ m \in DOMAIN f
      BY <1>2, <1>5, <1>6 DEF Sound
    <2>2. PICK r \in Manifests : r = f[m]
      BY <1>1, <1>2, <2>1 DEF TypeOK, IsDirectory
    <2>3. [r EXCEPT !.synced = l].edits = es /\ [r EXCEPT !.synced = l].synced = l
      BY <1>2, <1>7, <2>2 DEF Manifests
    <2>4. synced[m] = [r EXCEPT !.synced = l]
      BY <1>2, <1>7, <2>1, <2>2
    <2> QED
      BY <1>4, <2>1, <2>3, <2>4
  <1>9. l \in s..l /\ l \in s..Len(es) /\ \A k \in l..Len(es) : k = l
    BY <1>7
  <1>10. PICK e \in Edits : e = edit
    BY <1>1, <1>3 DEF TypeOK
  <1>11. /\ e.log = es[l].log /\ e.add \subseteq FilesAt(es, l)
         /\ e.log <= logfile /\ logfile \in DOMAIN logs
         /\ flush # None => \A w \in UNION imm : Stored(w, e.add)
         /\ flush # None => imm # {}
         /\ \A t \in e.del : \A w \in tables[t].data : Stored(w, e.add)
    BY <1>3, <1>5, <1>7, <1>10 DEF RunningHas, EditHas, LogsInOrder, LastEdit, LastFiles
  <1>12. LastEdit(m)' = es[l] /\ LastFiles(m)' = FilesAt(es, l) /\ LastFiles(m) = FilesAt(es, l)
    BY <1>7, <1>8 DEF LastEdit, LastFiles
  <1>13. \A t \in FilesAt(es, l) : t \in DOMAIN tables'
    <2>1. Readable(es, l, m)'
      BY <1>6, <1>7, <1>8 DEF Sound
    <2> QED
      BY <2>1 DEF Readable, Whole
  <1>14. \A w : Stored(w, FilesAt(es, l)) => Stored(w, FilesAt(es, l))'
    BY <1>4, <1>13 DEF Stored
  <1>15. Safe(m)'
    <2>1. ASSUME NEW w \in promised PROVE Stored(w, FilesAt(es, l))' \/ Logged(w, es[l].log)'
      <3>1. Stored(w, FilesAt(es, l)) \/ Logged(w, es[l].log)
        BY <1>5, <1>7, <1>9, <2>1 DEF Safe, Durable
      <3>2. Logged(w, es[l].log) => Logged(w, es[l].log)'
        BY <1>4, <1>10, <1>11 DEF Logged
      <3> QED
        BY <1>14, <3>1, <3>2
    <2>2. Durable(es, l)'
      BY <1>3, <2>1 DEF Durable
    <2> QED
      BY <1>8, <1>9, <2>2 DEF Safe
  <1>16. LogsInOrder'
    <2>1. logfile \in DOMAIN logs' /\ logs'[logfile] = logs[logfile]
      BY <1>4, <1>10, <1>11
    <2>2. vset'.log_number = e.log /\ vset'.next_file = vset.next_file
      BY <1>1, <1>3, <1>10 DEF TypeOK
    <2>3. e.log <= e.log
      <3>1. AllSet(edit)
        BY <1>3, <1>5 DEF OutputsHeld
      <3>2. e.log \in Nat
        BY <1>10, <3>1 DEF AllSet, Edits, Fields
      <3> QED
        BY <3>2
    <2>4. \A n \in DOMAIN logs' : n < vset'.next_file
      BY <1>4, <1>5, <2>2 DEF RunningHas, LogsInOrder
    <2>5. \A k \in manifests'[m].synced..Len(manifests'[m].edits) : manifests'[m].edits[k].log <= logfile
      BY <1>8, <1>9, <1>11
    <2>6. RecordsOf(logs'[logfile]) \subseteq mem'
      BY <1>3, <1>5, <2>1 DEF RunningHas, LogsInOrder
    <2> QED
      BY <1>3, <1>5, <1>11, <1>12, <2>1, <2>2, <2>3, <2>4, <2>5, <2>6 DEF LogsInOrder
  <1>17. OnDisk'
    <2>1. ASSUME NEW w \in promised
          PROVE  \/ w \in UNION imm' \/ w \in Synced(logs'[logfile]) \/ Stored(w, FilesAt(es, l))
      <3>1. w \in UNION imm \/ w \in Synced(logs[logfile]) \/ Stored(w, FilesAt(es, l))
        BY <1>5, <1>12 DEF RunningHas, OnDisk
      <3>2. w \in UNION imm => w \in UNION imm' \/ Stored(w, FilesAt(es, l))
        BY <1>3, <1>11 DEF Stored
      <3>3. logs'[logfile] = logs[logfile]
        BY <1>4, <1>10, <1>11
      <3> QED
        BY <3>1, <3>2, <3>3
    <2> QED
      BY <1>3, <1>5, <1>12, <1>14, <2>1 DEF OnDisk
  <1>18. PICK vs, w : vs = versions /\ w = versions' /\ IsDirectory(vs, VersionRecords)
    BY <1>1 DEF TypeOK
  <1>19. PICK c \in DOMAIN vs : \A v \in DOMAIN vs : v <= c
    BY <1>5, <1>18 DEF VersionsHeld
  <1>20. /\ w[c + 1].files = Applied(CurrentFiles, edit) /\ CurrentVersion(w) = c + 1
         /\ c + 1 \in DOMAIN w
         /\ CurrentVersion(vs) = c
         /\ \A u \in DOMAIN w : u # c + 1 => u \in DOMAIN vs /\ w[u].files = vs[u].files
    BY <1>18, <1>19, InstalledVersions
  <1>21. PICK cur \in SUBSET Nat : cur = CurrentFiles /\ cur = vs[c].files
    BY <1>18, <1>19, <1>20 DEF CurrentFiles, IsDirectory, VersionRecords
  <1>22. PICK new : new = (cur \ e.del) \cup e.add
    OBVIOUS
  <1>23. CurrentFiles' = new
    <2>1. Applied(cur, e) = new
      BY <1>21, <1>22, AppliedIs
    <2> QED
      BY <1>10, <1>18, <1>20, <1>21, <2>1 DEF CurrentFiles
  <1>24. \A t \in new : t \in DOMAIN tables'
    <2>1. w[c + 1].files = new
      BY <1>18, <1>20, <1>23 DEF CurrentFiles
    <2> QED
      BY <1>6, <1>18, <1>20, <2>1 DEF VersionsHeld, Whole
  <1>25. InMemory'
    <2>1. ASSUME NEW p \in promised PROVE p \in mem \/ p \in UNION imm' \/ Stored(p, new)
      <3>1. p \in mem \/ p \in UNION imm \/ Stored(p, cur)
        BY <1>5, <1>21 DEF RunningHas, InMemory
      <3>2. p \in UNION imm => p \in UNION imm' \/ Stored(p, new)
        BY <1>3, <1>11, <1>22 DEF Stored
      <3>3. ASSUME Stored(p, cur) PROVE Stored(p, new)
        <4>1. PICK t \in cur : p \in tables[t].data
          BY <3>3 DEF Stored
        <4>2. CASE t \in e.del
          BY <1>11, <1>22, <4>1, <4>2 DEF Stored
        <4>3. CASE t \notin e.del
          BY <1>22, <4>1, <4>3 DEF Stored
        <4> QED
          BY <4>2, <4>3
      <3> QED
        BY <3>1, <3>2, <3>3
    <2>2. \A p : Stored(p, new) => Stored(p, new)'
      BY <1>4, <1>24 DEF Stored
    <2> QED
      BY <1>3, <1>23, <2>1, <2>2 DEF InMemory
  <1>26. EditHas'
    BY <1>3 DEF EditHas
  <1>27. OutputsNew'
    <2>1. SUFFICES ASSUME Merging', NEW t \in comp'.outs, NEW u \in DOMAIN w PROVE t \notin w[u].files
      BY <1>18 DEF OutputsNew
    <2>2. comp' = comp /\ Merging
      BY <1>3, <2>1 DEF Merging
    <2>3. \A v \in DOMAIN vs : t \notin vs[v].files
      BY <1>5, <1>18, <2>1, <2>2 DEF RunningHas, OutputsNew
    <2>4. t \notin e.add
      <3>1. PICK K \in SUBSET Writes : Unique(K) /\ RunningOn(K)
        BY <1>3 DEF NumbersInv
      <3> QED
        BY <1>3, <1>10, <2>1, <2>2, <3>1 DEF RunningOn, OutputsApart
    <2>5. w[c + 1].files = new
      BY <1>18, <1>20, <1>23 DEF CurrentFiles
    <2> QED
      BY <1>20, <1>21, <1>22, <2>3, <2>4, <2>5
  <1>28. LogsSound'
    BY <1>4, <1>5 DEF LogsSound
  <1> QED
    BY <1>3, <1>5, <1>15, <1>16, <1>17, <1>25, <1>26, <1>27, <1>28, UpSynced DEF RunningHas

-----------------------------------------------------------------------------
(***************************************************************************)
(* Crashes.                                                                *)
(***************************************************************************)

LEMMA CrashSynced ==
  ASSUME Inv, SyncedInv, Crash
  PROVE  SyncedInv'
  <1>1. TypeOK /\ LogsSound
    BY DEF Inv, SyncedInv, LogsSound
  <1>2. /\ phase' = "down" /\ tables' = tables /\ current' = current
        /\ promised' = promised /\ opened' = opened
    BY DEF Crash, Forget
  <1>3. /\ \A n \in DOMAIN manifests : manifests'[n] \in CutManifest(manifests[n])
        /\ DOMAIN logs' = DOMAIN logs
        /\ \A n \in DOMAIN logs : logs'[n] \in CutLog(logs[n])
    BY DEF Crash, Remains
  <1>4. ASSUME NEW n \in DOMAIN logs
        PROVE  Synced(logs[n]) \subseteq Synced(logs'[n]) /\ logs'[n].synced <= Len(logs'[n].recs)
    <2>1. PICK recs \in Seq(Writes), s \in Nat : recs = logs[n].recs /\ s = logs[n].synced
      BY <1>1 DEF TypeOK, IsDirectory, LogFiles
    <2>2. PICK k \in s..Len(recs) : logs'[n] = [recs |-> SubSeq(recs, 1, k), synced |-> k]
      BY <1>3, <2>1 DEF CutLog
    <2>3. PICK cut : cut = SubSeq(recs, 1, k)
      OBVIOUS
    <2>4. Len(cut) = k /\ \A i \in 1..k : cut[i] = recs[i]
      <3>1. k \in 0..Len(recs)
        BY <2>1
      <3> QED
        BY <2>3, <3>1, CutFacts
    <2>5. logs'[n].recs = cut /\ logs'[n].synced = k /\ k <= k
      BY <2>1, <2>2, <2>3
    <2>6. \A i \in 1..s : i \in 1..k
      BY <2>1
    <2>7. Synced(logs[n]) \subseteq Synced(logs'[n])
      BY <2>1, <2>4, <2>5, <2>6 DEF Synced
    <2> QED
      BY <2>4, <2>5, <2>7
  <1>5. Longer(logs', logs)
    BY <1>3, <1>4 DEF Longer
  <1>6. PICK c : c = current
    OBVIOUS
  <1>7. ASSUME c # 0 PROVE Safe(c)'
    <2>1. Sound(c) /\ c \in DOMAIN manifests /\ Safe(c)
      BY <1>6, <1>7 DEF Inv, DiskSound, Sound, SyncedInv
    <2>2. PICK es \in Seq(Edits), s \in Nat : es = manifests[c].edits /\ s = manifests[c].synced
      BY <1>1, <2>1, SoundFacts
    <2>3. PICK k \in s..Len(es) : manifests'[c] = [edits |-> SubSeq(es, 1, k), synced |-> k]
      BY <1>3, <2>1, <2>2 DEF CutManifest
    <2>4. k \in Nat /\ k \in 0..Len(es)
      BY <2>3
    <2>5. PICK cut \in Seq(Edits) : /\ cut = SubSeq(es, 1, k) /\ Len(cut) = k
                                    /\ \A i \in 1..k : cut[i] = es[i]
                                    /\ FilesAt(cut, k) = FilesAt(es, k)
      <3>1. /\ SubSeq(es, 1, k) \in Seq(Edits) /\ Len(SubSeq(es, 1, k)) = k
            /\ \A i \in 1..k : SubSeq(es, 1, k)[i] = es[i]
        BY <2>4, CutFacts
      <3>2. k \in 0..k
        BY <2>4
      <3>3. \A i \in 0..k : FilesAt(SubSeq(es, 1, k), i) = FilesAt(es, i)
        BY <2>4, FilesCut
      <3> QED
        BY <3>1, <3>2, <3>3
    <2>6. /\ manifests'[c].edits = cut /\ manifests'[c].synced = k
          /\ \A i \in k..Len(cut) : i = k
      BY <2>3, <2>4, <2>5
    \* A manifest without an edit is left only of a database not yet opened.
    <2>7. CASE k = 0
      <3>1. \E i \in manifests[c].synced..Len(manifests[c].edits) : i = 0
        BY <2>2, <2>3, <2>7
      <3>2. ~opened
        BY <2>1, <3>1 DEF Sound, Readable
      <3>3. promised' = {}
        BY <1>2, <3>2 DEF SyncedInv
      <3> QED
        BY <3>3 DEF Safe, Durable
    <2>8. CASE k # 0
      <3>1. cut[k] = es[k]
        BY <2>4, <2>5, <2>8
      <3>2. Durable(es, k)
        BY <2>1, <2>2, <2>3 DEF Safe
      <3>3. ASSUME NEW w \in promised PROVE Stored(w, FilesAt(cut, k))' \/ Logged(w, cut[k].log)'
        <4>1. Stored(w, FilesAt(cut, k)) \/ Logged(w, cut[k].log)
          BY <2>5, <3>1, <3>2 DEF Durable
        <4> QED
          BY <1>2, <1>5, <4>1 DEF Stored, Logged, Longer
      <3>4. Durable(cut, k)'
        BY <1>2, <3>3 DEF Durable
      <3> QED
        BY <2>6, <3>4 DEF Safe
    <2> QED
      BY <2>7, <2>8
  <1>8. LogsSound'
    BY <1>3, <1>4 DEF LogsSound
  <1> QED
    BY <1>2, <1>6, <1>7, <1>8 DEF SyncedInv, LogsSound, Opening, Written, Up

LEMMA StutterSynced ==
  ASSUME SyncedInv, UNCHANGED vars
  PROVE  SyncedInv'
  <1>1. PICK n : n = current
    OBVIOUS
  <1>2. PICK m : m = vset.manifest
    OBVIOUS
  <1>3. (Safe(n) => Safe(n)') /\ (Safe(m) => Safe(m)')
    BY SafeSame DEF vars
  <1>4. OpeningHas => OpeningHas'
    BY <1>2, <1>3 DEF vars, OpeningHas, Stored, LastEdit
  <1>5. RunningHas => RunningHas'
    BY DEF vars, RunningHas, LogsInOrder, InMemory, OnDisk, EditHas, OutputsNew, Stored, Logged,
           Merging, LastEdit, LastFiles, CurrentFiles
  <1>6. SyncedInv' <=>
          /\ \A l \in DOMAIN logs : logs[l].synced <= Len(logs[l].recs)
          /\ ~opened => promised = {}
          /\ current # 0 => Safe(n)'
          /\ phase \in Opening => OpeningHas'
          /\ phase \in Up => RunningHas'
    BY <1>1 DEF vars, SyncedInv
  <1> QED
    BY <1>1, <1>3, <1>4, <1>5, <1>6 DEF SyncedInv

LEMMA StepsSynced ==
  ASSUME Inv, Inv', NumbersInv, SyncedInv, Steps
  PROVE  SyncedInv'
  <1>1. CASE Open BY <1>1, OpenSynced
  <1>2. CASE NewDB BY <1>2, NewDBSynced
  <1>3. CASE WriteTempFile BY <1>3, WriteTempFileSynced
  <1>4. CASE RenameTempFile BY <1>4, RenameTempFileSynced
  <1>5. CASE SetCurrentFileFails BY <1>5, SetCurrentFileFailsSynced
  <1>6. CASE Recover BY <1>6, RecoverSynced
  <1>7. CASE RecoverLogFile BY <1>7, RecoverLogFileSynced
  <1>8. CASE NewLog BY <1>8, NewLogSynced
  <1>9. CASE WriteSnapshot BY <1>9, WriteSnapshotSynced
  <1>10. CASE WriteFirstEdit BY <1>10, WriteFirstEditSynced
  <1>11. CASE InstallFirst BY <1>11, InstallFirstSynced
  <1>12. CASE Write(TRUE) BY <1>12, WriteSynced
  <1>13. CASE Write(FALSE) BY <1>13, WriteSynced
  <1>14. CASE SwitchMemTable BY <1>14, SwitchMemTableSynced
  <1>15. CASE NewIterator BY <1>15, NewIteratorSynced
  <1>16. CASE CleanupIteratorState BY <1>16, CleanupIteratorStateSynced
  <1>17. CASE WriteLevel0Table BY <1>17, WriteLevel0TableSynced
  <1>18. CASE BuildTable BY <1>18, BuildTableSynced
  <1>19. CASE StartCompaction BY <1>19, StartCompactionSynced
  <1>20. CASE OpenCompactionOutputFile BY <1>20, OpenCompactionOutputFileSynced
  <1>21. CASE FinishCompactionOutputFile BY <1>21, FinishCompactionOutputFileSynced
  <1>22. CASE LogEdit BY <1>22, LogEditSynced
  <1>23. CASE InstallVersion BY <1>23, InstallVersionSynced
  <1>24. CASE LogAndApplyFails BY <1>24, LogAndApplyFailsSynced
  <1>25. CASE CloseDone BY <1>25, CloseDoneSynced
  <1> QED
    BY <1>1, <1>2, <1>3, <1>4, <1>5, <1>6, <1>7, <1>8, <1>9, <1>10, <1>11, <1>12, <1>13,
       <1>14, <1>15, <1>16, <1>17, <1>18, <1>19, <1>20, <1>21, <1>22, <1>23, <1>24, <1>25
       DEF Steps

\* Whatever a crash leaves of the manifest and the logs, every write that was
\* acknowledged with sync is in a table that this manifest names, or in a log
\* that DB::Open replays.
THEOREM SyncedConsistent == Spec => []SyncedInv
  <1>1. Init => SyncedInv
    BY SyncedInit
  <1>2. Inv /\ Inv' /\ NumbersInv /\ SyncedInv /\ [Next]_vars => SyncedInv'
    <2> SUFFICES ASSUME Inv, Inv', NumbersInv, SyncedInv, [Next]_vars PROVE SyncedInv'
      OBVIOUS
    <2>1. CASE Steps
      BY <2>1, StepsSynced
    <2>2. CASE Close
      BY <2>2, CloseSynced
    <2>3. CASE Crash
      BY <2>3, CrashSynced
    <2>4. CASE UNCHANGED vars
      BY <2>4, StutterSynced
    <2> QED
      BY <2>1, <2>2, <2>3, <2>4 DEF Next
  <1> QED
    BY <1>1, <1>2, DatabaseConsistent, NumbersConsistent, PTL DEF Spec

\* Once a write was acknowledged with sync it is in every open database: in a
\* memtable or in a table of the current version, whatever crashed, failed or
\* was compacted and deleted since.
THEOREM SyncedWritesStay == Spec => []SyncedKept
  <1>1. Inv /\ SyncedInv => SyncedKept
    <2> SUFFICES ASSUME Inv, SyncedInv, phase = "up", NEW w \in promised PROVE w \in Data
      BY DEF SyncedKept
    <2>1. w \in mem \/ w \in UNION imm \/ Stored(w, CurrentFiles)
      BY DEF SyncedInv, RunningHas, InMemory, Up
    <2>2. \A t \in CurrentFiles : t \in DOMAIN tables
      <3>1. CurrentVersion(versions) \in DOMAIN versions
        <4>1. PICK vs : vs = versions /\ IsDirectory(vs, VersionRecords)
          BY DEF Inv, TypeOK
        <4>2. PICK c \in DOMAIN vs : \A v \in DOMAIN vs : v <= c
          BY <4>1 DEF Inv, RunningSound, VersionsHeld, Up
        <4>3. CurrentVersion(vs) = c
          BY <4>1, <4>2, CurrentIs
        <4> QED
          BY <4>1, <4>2, <4>3
      <3> QED
        BY <3>1 DEF Inv, RunningSound, VersionsHeld, Whole, CurrentFiles, Up
    <2> QED
      BY <2>1, <2>2 DEF Stored, Data
  <1> QED
    BY <1>1, DatabaseConsistent, SyncedConsistent, PTL

=============================================================================
