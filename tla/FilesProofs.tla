------------------------------ MODULE FilesProofs ------------------------------
(***************************************************************************)
(* Theorems about Files, for any paths and data, any number of             *)
(* descriptors and any length of files.                                    *)
(*                                                                         *)
(* What a call returned is seen to be right at once, from its arguments    *)
(* and the file; what has to be carried from call to call is that the file *)
(* behind an open descriptor exists (OpenInv), and where uga_fs_read_file  *)
(* is between its system calls, while others change the file (PendingInv). *)
(***************************************************************************)
EXTENDS Files, SequenceTheorems, WellFoundedInduction, TLAPS

Contents  == Seq(Data \union {Hole})
AllFlags  == [creat : BOOLEAN, read : BOOLEAN, write : BOOLEAN, append : BOOLEAN]
Opens     == [path : Paths, pos : Nat, flags : AllFlags]
FdNumbers == 1 .. MaxTable
FdTables  == UNION {[F -> Opens] : F \in SUBSET FdNumbers}

TypeOK ==
  /\ files \in [Paths -> Contents \union {NoFile}]
  /\ table \in FdTables /\ given \subseteq DOMAIN table
  /\ pc \in {"client", "stat", "read"} /\ size \in Nat

OpenInv == \A f \in DOMAIN table : files[table[f].path] \in Contents

PendingInv ==
  pc \in {"stat", "read"} => "read_file" \in WholeFile /\ fd \in DOMAIN table /\ last = Nothing

IInv == TypeOK /\ OpenInv /\ PendingInv /\ WholeFileExact /\ FileFailureTold

\* DescriptorsKept, of one step.
KeptByStep ==
  /\ Unowned \subseteq Unowned'
  /\ Unowned' # Unowned => pc' = "stat" \/ last'.op \in WholeFile

-----------------------------------------------------------------------------
(* The contents of files. *)

LEMMA PrefixIs ==
  ASSUME NEW S, NEW s \in Seq(S), NEW t \in Seq(S), Len(s) <= Len(t),
         \A k \in 1 .. Len(s) : s[k] = t[k]
  PROVE  IsPrefix(s, t)
<1>1. /\ SubSeq(s, 1, Len(s)) \in Seq(S) /\ Len(SubSeq(s, 1, Len(s))) = Len(s)
      /\ \A k \in 1 .. Len(s) : SubSeq(s, 1, Len(s))[k] = s[k]
  OBVIOUS
<1>2. /\ SubSeq(t, 1, Len(s)) \in Seq(S) /\ Len(SubSeq(t, 1, Len(s))) = Len(s)
      /\ \A k \in 1 .. Len(s) : SubSeq(t, 1, Len(s))[k] = t[k]
  OBVIOUS
<1>3. SubSeq(s, 1, Len(s)) = SubSeq(t, 1, Len(s)) BY <1>1, <1>2, SeqEqual
<1> QED BY <1>3 DEF IsPrefix

LEMMA SuffixIs ==
  ASSUME NEW S, NEW s \in Seq(S), NEW t \in Seq(S), Len(s) <= Len(t),
         \A k \in 1 .. Len(s) : s[k] = t[Len(t) - Len(s) + k]
  PROVE  IsSuffix(s, t)
<1> DEFINE r == Reverse(s)
           u == Reverse(t)
<1>1. /\ r \in Seq(S) /\ Len(r) = Len(s)
      /\ \A k \in 1 .. Len(s) : r[k] = s[Len(s) - k + 1]
  BY DEF Reverse
<1>2. /\ u \in Seq(S) /\ Len(u) = Len(t)
      /\ \A k \in 1 .. Len(t) : u[k] = t[Len(t) - k + 1]
  BY DEF Reverse
<1>3. ASSUME NEW k \in 1 .. Len(s) PROVE r[k] = u[k]
  <2>1. Len(s) - k + 1 \in 1 .. Len(s) /\ k \in 1 .. Len(t) OBVIOUS
  <2>2. s[Len(s) - k + 1] = t[Len(t) - Len(s) + (Len(s) - k + 1)] BY <2>1
  <2>3. Len(t) - Len(s) + (Len(s) - k + 1) = Len(t) - k + 1 OBVIOUS
  <2> QED BY <1>1, <1>2, <2>1, <2>2, <2>3
<1> HIDE DEF r, u
<1>4. IsPrefix(r, u) BY <1>1, <1>2, <1>3, PrefixIs
<1> QED BY <1>4 DEF IsSuffix, r, u

\* The file after a write of the data at a position.
HasData(w, content, pos, data) ==
  /\ w \in Contents
  /\ Len(w) >= pos + Len(data)
  /\ Len(content) <= pos + Len(data) => Len(w) = pos + Len(data)
  /\ \A k \in 1 .. Len(data) : w[pos + k] = data[k]
  /\ \A k \in 1 .. Len(content) : k <= pos => w[k] = content[k]

LEMMA WrittenIs ==
  ASSUME NEW content \in Contents, NEW pos \in Nat, NEW data \in Seq(Data),
         NEW w, w = Written(content, pos, data)
  PROVE  HasData(w, content, pos, data)
<1> DEFINE n == IF pos + Len(data) > Len(content) THEN pos + Len(data) ELSE Len(content)
<1>1. Len(data) \in Nat /\ Len(content) \in Nat /\ n \in Nat BY DEF Contents
<1>2. /\ w = [k \in 1 .. n |-> w[k]]
      /\ \A k \in 1 .. n : w[k] = IF k \in pos + 1 .. pos + Len(data) THEN data[k - pos]
                                  ELSE IF k <= Len(content) THEN content[k] ELSE Hole
  BY DEF Written
<1>3. ASSUME NEW k \in 1 .. n PROVE w[k] \in Data \union {Hole}
  <2>1. CASE k \in pos + 1 .. pos + Len(data)
    <3>1. k - pos \in 1 .. Len(data) BY <1>1, <2>1
    <3>2. data[k - pos] \in Data BY <3>1
    <3> QED BY <1>2, <2>1, <3>2
  <2>2. CASE k \notin pos + 1 .. pos + Len(data) /\ k <= Len(content)
    <3>1. k \in 1 .. Len(content) BY <1>1, <2>2
    <3>2. content[k] \in Data \union {Hole} BY <3>1 DEF Contents
    <3> QED BY <1>2, <2>2, <3>2
  <2>3. CASE k \notin pos + 1 .. pos + Len(data) /\ ~(k <= Len(content)) BY <1>2, <2>3
  <2> QED BY <2>1, <2>2, <2>3
<1>4. w \in [1 .. n -> Data \union {Hole}] BY <1>2, <1>3
<1>5. ASSUME NEW k \in 1 .. Len(data) PROVE w[pos + k] = data[k]
  <2>1. pos + k \in 1 .. n /\ pos + k \in pos + 1 .. pos + Len(data) BY <1>1
  <2>2. (pos + k) - pos = k BY <1>1
  <2> QED BY <1>2, <2>1, <2>2
<1>6. ASSUME NEW k \in 1 .. Len(content), k <= pos PROVE w[k] = content[k]
  <2>1. k \in 1 .. n /\ k \notin pos + 1 .. pos + Len(data) /\ k <= Len(content) BY <1>1, <1>6
  <2> QED BY <1>2, <2>1
<1>7. w \in Contents /\ Len(w) = n
  <2> HIDE DEF n
  <2> QED BY <1>1, <1>4 DEF Contents
<1>8. n >= pos + Len(data) /\ (Len(content) <= pos + Len(data) => n = pos + Len(data)) BY <1>1
<1> HIDE DEF n
<1> QED BY <1>5, <1>6, <1>7, <1>8 DEF HasData

\* Data written at its beginning are what a file begins with.
LEMMA WrittenAtStart ==
  ASSUME NEW content \in Contents, NEW data \in Seq(Data),
         NEW w, w = Written(content, 0, data)
  PROVE  IsPrefix(data, w)
<1>1. Len(content) \in Nat /\ Len(data) \in Nat BY DEF Contents
<1>2. /\ w \in Contents
      /\ Len(w) >= 0 + Len(data)
      /\ \A k \in 1 .. Len(data) : w[0 + k] = data[k]
  <2>1. HasData(w, content, 0, data) BY WrittenIs
  <2> QED BY <2>1 DEF HasData
<1>3. \A k \in 1 .. Len(data) : data[k] = w[k] BY <1>1, <1>2
<1>4. Len(data) <= Len(w) BY <1>1, <1>2
<1>5. data \in Contents BY DEF Contents
<1> QED BY <1>2, <1>3, <1>4, <1>5, PrefixIs DEF Contents

\* Data written at its end are what it ends with, after all there was.
LEMMA WrittenAtEnd ==
  ASSUME NEW content \in Contents, NEW data \in Seq(Data),
         NEW w, w = Written(content, Len(content), data)
  PROVE  /\ w \in Contents
         /\ IsSuffix(data, w) /\ IsPrefix(content, w)
<1> DEFINE pos == Len(content)
<1>1. pos \in Nat /\ Len(data) \in Nat BY DEF Contents
<1>2. /\ w \in Contents
      /\ pos <= pos + Len(data) => Len(w) = pos + Len(data)
      /\ \A k \in 1 .. Len(data) : w[pos + k] = data[k]
      /\ \A k \in 1 .. pos : k <= pos => w[k] = content[k]
  <2>1. HasData(w, content, pos, data) BY <1>1, WrittenIs DEF pos
  <2> QED BY <2>1 DEF HasData, pos
<1> HIDE DEF pos
<1>3. Len(w) = pos + Len(data) BY <1>1, <1>2
<1>4. data \in Contents BY DEF Contents
<1>5. IsPrefix(content, w)
  <2>1. Len(content) <= Len(w) BY <1>1, <1>3 DEF pos
  <2>2. \A k \in 1 .. Len(content) : content[k] = w[k] BY <1>1, <1>2 DEF pos
  <2> QED BY <1>2, <2>1, <2>2, PrefixIs DEF Contents
<1>6. IsSuffix(data, w)
  <2>1. Len(data) <= Len(w) /\ Len(w) - Len(data) = pos BY <1>1, <1>3
  <2>2. \A k \in 1 .. Len(data) : data[k] = w[Len(w) - Len(data) + k] BY <1>2, <2>1
  <2> QED BY <1>2, <1>4, <2>1, <2>2, SuffixIs DEF Contents
<1> QED BY <1>2, <1>5, <1>6

LEMMA TransferredIs ==
  ASSUME NEW most \in Nat, NEW n \in Transferred(most)
  PROVE  n \in 0 .. most
BY DEF Transferred

\* What is read of a file is what is there from the position on.
LEMMA ReadIs ==
  ASSUME NEW content \in Contents, NEW pos \in Nat, NEW capacity \in Nat,
         NEW n \in Transferred(Smaller(capacity, Len(Rest(content, pos))))
  PROVE  LET data == SubSeq(Rest(content, pos), 1, n) IN
           /\ n \in 0 .. capacity
           /\ pos = 0 => IsPrefix(data, content)
<1> DEFINE rest == Rest(content, pos)
           data == SubSeq(rest, 1, n)
<1>1. /\ rest \in Contents /\ Len(rest) \in Nat
      /\ pos = 0 => rest = content
  BY DEF Rest, Contents
<1> HIDE DEF rest
<1>2. Smaller(capacity, Len(rest)) \in Nat /\ Smaller(capacity, Len(rest)) <= capacity
      /\ Smaller(capacity, Len(rest)) <= Len(rest)
  BY <1>1 DEF Smaller
<1>3. n \in 0 .. Smaller(capacity, Len(rest)) BY <1>2, TransferredIs DEF rest
<1>4. n \in 0 .. capacity /\ n \in 0 .. Len(rest) BY <1>1, <1>2, <1>3
<1>5. data \in Contents /\ Len(data) = n /\ \A k \in 1 .. n : data[k] = rest[k]
  BY <1>1, <1>4 DEF Contents
<1> HIDE DEF data
<1>6. IsPrefix(data, rest) BY <1>1, <1>4, <1>5, PrefixIs DEF Contents
<1> QED BY <1>1, <1>4, <1>6 DEF rest, data

-----------------------------------------------------------------------------
(* The table of descriptors. *)

LEMMA FdTable ==
  ASSUME NEW t
  PROVE  t \in FdTables <=> DOMAIN t \subseteq FdNumbers /\ t \in [DOMAIN t -> Opens]
BY DEF FdTables

\* The lowest free descriptor is one.
LEMMA NewFdFree ==
  ASSUME FreeFd # {}
  PROVE  NewFd \in FreeFd /\ NewFd \in Nat /\ NewFd \in FdNumbers /\ NewFd \notin DOMAIN table
<1>1. FreeFd \subseteq Nat /\ FreeFd \subseteq FdNumbers BY DEF FreeFd, FdNumbers
<1>2. PICK f \in FreeFd : \A g \in FreeFd : ~(<<g, f>> \in OpToRel(<, Nat))
  BY <1>1, NatLessThanWellFounded, WFMin
<1>3. ASSUME NEW g \in FreeFd PROVE f <= g
  <2>1. f \in Nat /\ g \in Nat BY <1>1
  <2>2. g < f => <<g, f>> \in OpToRel(<, Nat) BY <2>1, Zenon DEF OpToRel
  <2>3. ~(g < f) BY <1>2, <2>2, Zenon
  <2> QED BY <2>1, <2>3
<1>4. NewFd \in FreeFd BY <1>3 DEF NewFd
<1> QED BY <1>1, <1>4 DEF FreeFd

\* A table with a new descriptor of p, and one with the same descriptors
\* of the same files.
HasNewFd(t, p) ==
  /\ t \in FdTables /\ DOMAIN t = DOMAIN table \union {NewFd}
  /\ t[NewFd].path = p /\ \A f \in DOMAIN table : t[f] = table[f]

SameFds(t) ==
  /\ t \in FdTables /\ DOMAIN t = DOMAIN table
  /\ \A g \in DOMAIN table : t[g].path = table[g].path

LEMMA OpenedIs ==
  ASSUME TypeOK, FreeFd # {}, NEW p \in Paths, NEW flags \in AllFlags, NEW pos \in Nat
  PROVE  HasNewFd(Opened(p, flags, pos), p)
<1> DEFINE o == [path |-> p, pos |-> pos, flags |-> flags]
           t == [f \in DOMAIN table \union {NewFd} |-> IF f = NewFd THEN o ELSE table[f]]
<1>1. NewFd \in FdNumbers /\ NewFd \notin DOMAIN table BY NewFdFree
<1>2. DOMAIN table \subseteq FdNumbers /\ table \in [DOMAIN table -> Opens] BY FdTable DEF TypeOK
<1>3. o \in Opens /\ o.path = p BY DEF Opens
<1> HIDE DEF o
<1>4. DOMAIN t = DOMAIN table \union {NewFd} /\ t[NewFd] = o /\ \A f \in DOMAIN table : t[f] = table[f]
  BY <1>1
<1>5. t \in [DOMAIN table \union {NewFd} -> Opens] BY <1>2, <1>3
<1>6. t = Opened(p, flags, pos) BY DEF Opened, o
<1> HIDE DEF t
<1>7. t \in FdTables BY <1>1, <1>2, <1>4, <1>5, FdTable
<1> QED BY <1>3, <1>4, <1>6, <1>7 DEF HasNewFd

LEMMA FlagTypes ==
  /\ OpenRead \in AllFlags /\ OpenWrite \in AllFlags
  /\ OpenAppend \in AllFlags /\ OpenFull \in AllFlags
  /\ ~OpenRead.creat /\ OpenAppend.append /\ OpenAppend.write /\ ~OpenWrite.append
BY DEF OpenRead, OpenWrite, OpenAppend, OpenFull, Flags, AllFlags

\* A descriptor moved to another position.
LEMMA MovedIs ==
  ASSUME TypeOK, NEW f \in DOMAIN table, NEW n \in Nat, NEW t, t = [table EXCEPT ![f].pos = n]
  PROVE  SameFds(t)
<1>1. DOMAIN table \subseteq FdNumbers /\ table \in [DOMAIN table -> Opens] BY FdTable DEF TypeOK
<1>2. t = [table EXCEPT ![f] = [table[f] EXCEPT !.pos = n]] OBVIOUS
<1>3. [table[f] EXCEPT !.pos = n] \in Opens /\ [table[f] EXCEPT !.pos = n].path = table[f].path
  BY <1>1 DEF Opens
<1>4. t \in [DOMAIN table -> Opens] /\ DOMAIN t = DOMAIN table BY <1>1, <1>2, <1>3
<1>5. t \in FdTables BY <1>1, <1>4, FdTable
<1>6. \A g \in DOMAIN table : t[g].path = table[g].path BY <1>1, <1>2, <1>3
<1> QED BY <1>4, <1>5, <1>6 DEF SameFds

LEMMA HeldType ==
  ASSUME TypeOK, OpenInv, NEW f \in DOMAIN table
  PROVE  /\ table[f].path \in Paths /\ table[f].pos \in Nat /\ table[f].flags \in AllFlags
         /\ files[table[f].path] \in Contents
<1>1. table \in [DOMAIN table -> Opens] BY FdTable DEF TypeOK
<1> QED BY <1>1 DEF Opens, OpenInv

\* A file with another content.
LEMMA FilePut ==
  ASSUME TypeOK, NEW p \in Paths, NEW c \in Contents, files' = [files EXCEPT ![p] = c]
  PROVE  /\ files' \in [Paths -> Contents \union {NoFile}] /\ files'[p] = c
         /\ \A q \in Paths : files[q] \in Contents => files'[q] \in Contents
BY DEF TypeOK

LEMMA CreatedIs ==
  ASSUME TypeOK, NEW p \in Paths
  PROVE  /\ Created(p) \in Contents /\ Len(Created(p)) \in Nat
         /\ files[p] # NoFile => files[p] \in Contents /\ Created(p) = files[p]
<1>1. files[p] \in Contents \union {NoFile} BY DEF TypeOK
<1>2. <<>> \in Contents BY DEF Contents
<1> QED BY <1>1, <1>2 DEF Created, Contents

LEMMA BuffersAre ==
  ASSUME NEW data \in Buffers
  PROVE  data \in Seq(Data) /\ Len(data) \in Nat
<1>1. PICK n \in 1 .. MaxLen : data \in [1 .. n -> Data] BY DEF Buffers
<1>2. n \in Nat BY <1>1
<1> QED BY <1>1, <1>2

\* What a call that failed, and said so, leaves.
LEMMA FailedCall ==
  ASSUME NEW op, NEW p, NEW wanted, NEW failed, Fails(op, p, wanted, failed)
  PROVE  /\ WholeFileExact' /\ FileFailureTold' /\ last'.got = -1 /\ last'.op = op
<1>1. errtype' = "STD" /\ last'.got = -1 /\ last'.op = op BY DEF Fails, Outcome
<1>2. WholeFileExact' BY <1>1 DEF WholeFileExact
<1>3. FileFailureTold' BY <1>1 DEF FileFailureTold
<1> QED BY <1>1, <1>2, <1>3

\* What is there to read.
LEMMA ThereIs ==
  ASSUME NEW p, files[p] \in Contents, NEW pos \in Nat, NEW capacity \in Nat
  PROVE  There(p, pos, capacity) \in Nat /\ There(p, pos, capacity) <= capacity
<1>1. Rest(files[p], pos) \in Contents BY DEF Rest, Contents
<1>2. Len(Rest(files[p], pos)) \in Nat BY <1>1 DEF Contents
<1> QED BY <1>2 DEF There, Smaller

\* A read of a file from a position of it, and what it tells.
LEMMA ReadStep ==
  ASSUME TypeOK, NEW op, NEW p \in Paths, NEW pos \in Nat, NEW capacity \in Nat,
         NEW wanted \in Nat, wanted <= capacity,
         files[p] \in Contents, Read(op, p, pos, capacity, wanted), files' = files,
         op \in {"read_file", "read_file_into"} => pos = 0,
         op \notin {"write_file", "append_file"}
  PROVE  WholeFileExact' /\ FileFailureTold' /\ Advanced(last'.got) \in Nat /\ last'.op = op
<1>1. CASE Fails(op, p, wanted, "read") BY <1>1, FailedCall DEF Advanced
<1>2. ASSUME NEW n \in Transferred(Smaller(capacity, Len(Rest(files[p], pos)))),
             errtype' = ReadErr(capacity, n),
             last' = Outcome(op, p, wanted, n, SubSeq(Rest(files[p], pos), 1, n), "none")
      PROVE  WholeFileExact' /\ FileFailureTold' /\ Advanced(last'.got) \in Nat /\ last'.op = op
  <2> DEFINE data == SubSeq(Rest(files[p], pos), 1, n)
  <2>1. n \in 0 .. capacity /\ (pos = 0 => IsPrefix(data, files[p])) BY ReadIs
  <2> HIDE DEF data
  <2>2. /\ last'.op = op /\ last'.path = p /\ last'.wanted = wanted
        /\ last'.got = n /\ last'.data = data /\ last'.failed = "none"
    BY <1>2 DEF Outcome, data
  <2>3. errtype' = "NONE" => n >= wanted BY <1>2, <2>1 DEF ReadErr
  <2>4. WholeFileExact' BY <2>1, <2>2 DEF WholeFileExact
  <2>5. FileFailureTold' BY <2>2, <2>3 DEF FileFailureTold
  <2>6. Advanced(last'.got) \in Nat BY <2>1, <2>2 DEF Advanced
  <2> QED BY <2>2, <2>4, <2>5, <2>6
<1> QED BY <1>1, <1>2 DEF Read

\* A write at a position of a file with the content, and what it tells.
LEMMA WriteStep ==
  ASSUME TypeOK, NEW op, NEW p \in Paths, NEW content \in Contents, NEW pos \in Nat,
         NEW data \in Seq(Data), Write(op, p, content, pos, data),
         op = "write_file" => pos = 0,
         op = "append_file" => pos = Len(content),
         op \notin {"read_file", "read_file_into"}
  PROVE  /\ WholeFileExact' /\ FileFailureTold' /\ last'.op = op
         /\ last'.got > 0 => pos + last'.got \in Nat
         /\ files' \in [Paths -> Contents \union {NoFile}] /\ files'[p] \in Contents
         /\ \A q \in Paths : files[q] \in Contents => files'[q] \in Contents
         /\ pos = Len(content) => IsPrefix(content, files'[p])
<1>1. CASE files' = [files EXCEPT ![p] = content] /\ Fails(op, p, Len(data), "write")
  <2>1. /\ files' \in [Paths -> Contents \union {NoFile}] /\ files'[p] = content
        /\ \A q \in Paths : files[q] \in Contents => files'[q] \in Contents
    BY <1>1, FilePut
  <2>2. IsPrefix(content, content) BY PrefixIs DEF Contents
  <2>3. /\ WholeFileExact' /\ FileFailureTold' /\ last'.got = -1 /\ last'.op = op
    BY <1>1, FailedCall
  <2> QED BY <2>1, <2>2, <2>3
<1>2. ASSUME NEW n \in Transferred(Len(data)),
             files' = [files EXCEPT ![p] = Written(content, pos, SubSeq(data, 1, n))],
             errtype' = WriteErr(Len(data), n),
             last' = Outcome(op, p, Len(data), n, SubSeq(data, 1, n), "none")
      PROVE  /\ WholeFileExact' /\ FileFailureTold' /\ last'.op = op
             /\ last'.got > 0 => pos + last'.got \in Nat
             /\ files' \in [Paths -> Contents \union {NoFile}] /\ files'[p] \in Contents
             /\ \A q \in Paths : files[q] \in Contents => files'[q] \in Contents
             /\ pos = Len(content) => IsPrefix(content, files'[p])
  <2> DEFINE put == SubSeq(data, 1, n)
             w == Written(content, pos, put)
  <2>1. Len(data) \in Nat /\ n \in 0 .. Len(data) BY TransferredIs
  <2>2. put \in Seq(Data) BY <2>1
  <2> HIDE DEF put
  <2>3. HasData(w, content, pos, put) BY <2>2, WrittenIs
  <2>4. w \in Contents BY <2>3 DEF HasData
  <2>5. pos = 0 => IsPrefix(put, w) BY <2>2, WrittenAtStart
  <2>6. pos = Len(content) => IsSuffix(put, w) /\ IsPrefix(content, w) BY <2>2, WrittenAtEnd
  <2> HIDE DEF w
  <2>7. files' = [files EXCEPT ![p] = w] BY <1>2 DEF w, put
  <2>8. /\ files' \in [Paths -> Contents \union {NoFile}] /\ files'[p] = w
        /\ \A q \in Paths : files[q] \in Contents => files'[q] \in Contents
    BY <2>4, <2>7, FilePut
  <2>9. /\ last'.op = op /\ last'.path = p /\ last'.wanted = Len(data)
        /\ last'.got = n /\ last'.data = put /\ last'.failed = "none"
    BY <1>2 DEF Outcome, put
  <2>10. errtype' = "NONE" => n >= Len(data) BY <1>2, <2>1 DEF WriteErr
  <2>11. WholeFileExact' BY <2>5, <2>6, <2>8, <2>9 DEF WholeFileExact
  <2>12. FileFailureTold' BY <2>9, <2>10 DEF FileFailureTold
  <2>13. pos + last'.got \in Nat BY <2>1, <2>9
  <2> QED BY <2>4, <2>6, <2>8, <2>9, <2>11, <2>12, <2>13
<1> QED BY <1>1, <1>2 DEF Write

\* A call that is no whole-file call, and what it tells.
LEMMA OtherCall ==
  ASSUME NEW op \in {"none", "open", "filesize", "access"},
         NEW p, NEW wanted, NEW got, NEW data, NEW failed,
         last' = Outcome(op, p, wanted, got, data, failed),
         errtype' = "NONE" => failed = "none" /\ got >= wanted
  PROVE  WholeFileExact' /\ FileFailureTold'
<1>1. /\ last'.op = op /\ last'.wanted = wanted /\ last'.got = got /\ last'.failed = failed
  BY DEF Outcome
<1> QED BY <1>1 DEF WholeFileExact, FileFailureTold

-----------------------------------------------------------------------------
(* The steps of the client. *)

LEMMA OpenFileStep ==
  ASSUME IInv, NEW p \in Paths, NEW flags \in AllFlags, OpenFile(p, flags)
  PROVE  IInv' /\ KeptByStep
<1> USE DEF IInv
<1>1. pc = "client" /\ UNCHANGED <<pc, fd, size>> BY DEF OpenFile, Idle
<1>2. PendingInv' BY <1>1 DEF PendingInv
<1>3. CASE /\ CanOpen(p, flags)
           /\ table' = Opened(p, flags, 0) /\ given' = given \union {NewFd}
           /\ files' = [files EXCEPT ![p] = Created(p)]
           /\ errtype' = "NONE" /\ last' = Outcome("open", p, 0, NewFd, <<>>, "none")
  <2>1. /\ table' = Opened(p, flags, 0) /\ given' = given \union {NewFd}
        /\ files' = [files EXCEPT ![p] = Created(p)]
        /\ errtype' = "NONE" /\ last' = Outcome("open", p, 0, NewFd, <<>>, "none")
    BY <1>3
  <2>2. FreeFd # {} BY <1>3 DEF CanOpen
  <2>3. NewFd \in Nat /\ NewFd \notin DOMAIN table BY <2>2, NewFdFree
  <2>4. /\ table' \in FdTables /\ DOMAIN table' = DOMAIN table \union {NewFd}
        /\ table'[NewFd].path = p /\ \A f \in DOMAIN table : table'[f] = table[f]
    <3>1. HasNewFd(table', p) BY <2>1, <2>2, OpenedIs
    <3> QED BY <3>1 DEF HasNewFd
  <2>5. /\ files' \in [Paths -> Contents \union {NoFile}] /\ files'[p] \in Contents
        /\ \A q \in Paths : files[q] \in Contents => files'[q] \in Contents
    BY <2>1, CreatedIs, FilePut
  <2>6. TypeOK' BY <1>1, <2>1, <2>4, <2>5 DEF TypeOK
  <2>7. OpenInv'
    <3> SUFFICES ASSUME NEW f \in DOMAIN table' PROVE files'[table'[f].path] \in Contents
      BY DEF OpenInv
    <3>1. CASE f = NewFd BY <2>4, <2>5, <3>1
    <3>2. CASE f \in DOMAIN table BY <2>4, <2>5, <3>2, HeldType
    <3> QED BY <2>4, <3>1, <3>2
  <2>8. WholeFileExact' /\ FileFailureTold'
    <3>1. NewFd >= 0 BY <2>3
    <3> QED BY <2>1, <3>1, OtherCall
  <2>9. KeptByStep BY <2>1, <2>3, <2>4 DEF KeptByStep, Unowned
  <2> QED BY <1>2, <2>6, <2>7, <2>8, <2>9
<1>4. CASE Fails("open", p, 0, "open") /\ UNCHANGED <<files, table, given>>
  <2>1. TypeOK' /\ OpenInv' BY <1>1, <1>4 DEF TypeOK, OpenInv
  <2>2. WholeFileExact' /\ FileFailureTold' BY <1>4, FailedCall
  <2>3. KeptByStep BY <1>4 DEF KeptByStep, Unowned
  <2> QED BY <1>2, <2>1, <2>2, <2>3
<1> QED BY <1>3, <1>4 DEF OpenFile

LEMMA CloseStep ==
  ASSUME IInv, NEW f \in given, Close(f)
  PROVE  IInv' /\ KeptByStep
<1> USE DEF IInv
<1>1. /\ pc = "client" /\ UNCHANGED <<pc, fd, size, files>>
      /\ table' = [g \in DOMAIN table \ {f} |-> table[g]] /\ given' = given \ {f}
  BY DEF Close, Idle
<1>2. DOMAIN table' = DOMAIN table \ {f} /\ \A g \in DOMAIN table' : table'[g] = table[g] BY <1>1
<1>3. DOMAIN table \subseteq FdNumbers /\ table \in [DOMAIN table -> Opens] BY FdTable DEF TypeOK
<1>4. table' \in [DOMAIN table' -> Opens] BY <1>1, <1>2, <1>3
<1>5. table' \in FdTables BY <1>2, <1>3, <1>4, FdTable
<1>6. TypeOK' BY <1>1, <1>2, <1>5 DEF TypeOK
<1>7. OpenInv' BY <1>1, <1>2 DEF OpenInv
<1>8. PendingInv' BY <1>1 DEF PendingInv
<1>9. WholeFileExact' /\ FileFailureTold'
  <2>1. CASE last' = Nothing BY <2>1, OtherCall DEF Nothing
  <2>2. CASE Fails("close", table[f].path, 0, "close") BY <2>2, FailedCall
  <2> QED BY <2>1, <2>2 DEF Close
<1>10. KeptByStep
  <2>1. f \in DOMAIN table BY DEF TypeOK
  <2> QED BY <1>1, <1>2, <2>1 DEF KeptByStep, Unowned
<1> QED BY <1>6, <1>7, <1>8, <1>9, <1>10

\* What the calls that change neither files nor descriptors keep.
LEMMA NothingMoved ==
  ASSUME TypeOK, OpenInv, PendingInv, pc = "client", UNCHANGED <<files, table, given, pc, fd, size>>
  PROVE  TypeOK' /\ OpenInv' /\ PendingInv' /\ KeptByStep
BY DEF TypeOK, OpenInv, PendingInv, KeptByStep, Unowned

LEMMA ReadFdStep ==
  ASSUME IInv, NEW f \in given, NEW capacity \in Nat, ReadFd(f, capacity)
  PROVE  IInv' /\ KeptByStep
<1> USE DEF IInv
<1>1. pc = "client" /\ UNCHANGED <<pc, fd, size, files, given>> BY DEF ReadFd, Idle
<1>2. f \in DOMAIN table BY DEF TypeOK
<1> DEFINE p == table[f].path
           wanted == There(p, table[f].pos, capacity)
<1>3. p \in Paths /\ table[f].pos \in Nat /\ files[p] \in Contents BY <1>2, HeldType
<1>4. WholeFileExact' /\ FileFailureTold' /\ Advanced(last'.got) \in Nat
  <2>1. CASE table[f].flags.read
    <3>1. Read("read_fd", p, table[f].pos, capacity, wanted) BY <2>1 DEF ReadFd
    <3>2. wanted \in Nat /\ wanted <= capacity BY <1>3, ThereIs
    <3> HIDE DEF p, wanted
    <3> QED BY <1>1, <1>3, <3>1, <3>2, ReadStep
  <2>2. CASE ~table[f].flags.read
    <3>1. Fails("read_fd", p, wanted, "read") BY <2>2 DEF ReadFd
    <3> QED BY <3>1, FailedCall DEF Advanced
  <2> QED BY <2>1, <2>2
<1>5. table' = [table EXCEPT ![f].pos = table[f].pos + Advanced(last'.got)] BY DEF ReadFd
<1>6. /\ table' \in FdTables /\ DOMAIN table' = DOMAIN table
      /\ \A g \in DOMAIN table : table'[g].path = table[g].path
  <2>1. table[f].pos + Advanced(last'.got) \in Nat BY <1>3, <1>4
  <2>2. SameFds(table') BY <1>2, <1>5, <2>1, MovedIs
  <2> QED BY <2>2 DEF SameFds
<1>7. TypeOK' /\ OpenInv' /\ PendingInv' BY <1>1, <1>6 DEF TypeOK, OpenInv, PendingInv
<1>8. KeptByStep BY <1>1, <1>6 DEF KeptByStep, Unowned
<1> QED BY <1>4, <1>7, <1>8

LEMMA WriteFdStep ==
  ASSUME IInv, NEW f \in given, NEW data \in Seq(Data), WriteFd(f, data)
  PROVE  /\ IInv' /\ KeptByStep
         /\ table[f].flags.append => IsPrefix(files[table[f].path], files'[table[f].path])
<1> USE DEF IInv
<1>1. pc = "client" /\ UNCHANGED <<pc, fd, size, given>> BY DEF WriteFd, Idle
<1>2. f \in DOMAIN table BY DEF TypeOK
<1> DEFINE p == table[f].path
<1>3. /\ p \in Paths /\ table[f].pos \in Nat /\ files[p] \in Contents
  BY <1>2, HeldType
<1>4. CASE table[f].flags.write
  <2> DEFINE pos == Start(table[f], files[p])
  <2>1. /\ Write("write_fd", p, files[p], pos, data)
        /\ table' = IF last'.got > 0 THEN [table EXCEPT ![f].pos = pos + last'.got] ELSE table
    BY <1>4 DEF WriteFd
  <2>2. /\ pos \in Nat /\ (table[f].flags.append => pos = Len(files[p]))
    BY <1>3 DEF Start, Contents
  <2> HIDE DEF pos
  <2>3. /\ WholeFileExact' /\ FileFailureTold'
        /\ last'.got > 0 => pos + last'.got \in Nat
        /\ files' \in [Paths -> Contents \union {NoFile}]
        /\ \A q \in Paths : files[q] \in Contents => files'[q] \in Contents
        /\ pos = Len(files[p]) => IsPrefix(files[p], files'[p])
    <3>1. /\ "write_fd" = "write_file" => pos = 0
          /\ "write_fd" = "append_file" => pos = Len(files[p])
          /\ "write_fd" \notin {"read_file", "read_file_into"}
      OBVIOUS
    <3> QED BY <1>3, <2>1, <2>2, <3>1, WriteStep, Zenon
  <2>4. /\ table' \in FdTables /\ DOMAIN table' = DOMAIN table
        /\ \A g \in DOMAIN table : table'[g].path = table[g].path
    <3>1. CASE last'.got > 0
      <4>1. SameFds(table') BY <1>2, <2>1, <2>3, <3>1, MovedIs
      <4> QED BY <4>1 DEF SameFds
    <3>2. CASE ~(last'.got > 0) BY <2>1, <3>2 DEF TypeOK
    <3> QED BY <3>1, <3>2
  <2>5. TypeOK' /\ PendingInv' BY <1>1, <2>3, <2>4 DEF TypeOK, PendingInv
  <2>6. OpenInv' BY <2>3, <2>4, HeldType DEF OpenInv
  <2>7. KeptByStep BY <1>1, <2>4 DEF KeptByStep, Unowned
  <2> QED BY <2>2, <2>3, <2>5, <2>6, <2>7
<1>5. CASE ~table[f].flags.write
  <2>1. Fails("write_fd", p, Len(data), "write") /\ UNCHANGED <<files, table>>
    BY <1>5 DEF WriteFd
  <2>2. WholeFileExact' /\ FileFailureTold' BY <2>1, FailedCall
  <2>3. IsPrefix(files[p], files'[p])
    <3>1. files'[p] = files[p] BY <2>1
    <3> QED BY <1>3, <3>1, PrefixIs DEF Contents
  <2> QED BY <1>1, <2>1, <2>2, <2>3, NothingMoved
<1> QED BY <1>4, <1>5

LEMMA FilesizeStep ==
  ASSUME IInv, NEW p \in Paths, Filesize(p)
  PROVE  IInv' /\ KeptByStep
<1> USE DEF IInv
<1>1. pc = "client" /\ UNCHANGED <<files, table, given, pc, fd, size>> BY DEF Filesize, Idle
<1>2. CASE \E failed : Fails("filesize", p, 0, failed) BY <1>1, <1>2, FailedCall, NothingMoved
<1>3. ASSUME CanOpen(p, OpenRead),
             NEW failed, last' = Outcome("filesize", p, 0, Len(files[p]), <<>>, failed),
             errtype' = "NONE" => failed = "none"
      PROVE  IInv' /\ KeptByStep
  <2>1. files[p] \in Contents BY <1>3, CreatedIs, FlagTypes DEF CanOpen
  <2>2. Len(files[p]) >= 0 BY <2>1 DEF Contents
  <2>3. WholeFileExact' /\ FileFailureTold' BY <1>3, <2>2, OtherCall
  <2> QED BY <1>1, <2>3, NothingMoved
<1> QED BY <1>2, <1>3 DEF Filesize

LEMMA FileAccessStep ==
  ASSUME IInv, NEW p \in Paths, FileAccess(p)
  PROVE  IInv' /\ KeptByStep
<1> USE DEF IInv
<1>1. pc = "client" /\ UNCHANGED <<files, table, given, pc, fd, size>> BY DEF FileAccess, Idle
<1>2. \/ last' = Outcome("access", p, 0, 1, <<>>, "none")
      \/ errtype' = "STD" /\ last' = Outcome("access", p, 0, 0, <<>>, "access")
  BY DEF FileAccess
<1>3. WholeFileExact' /\ FileFailureTold' BY <1>2, OtherCall
<1> QED BY <1>1, <1>3, NothingMoved

-----------------------------------------------------------------------------
(* The whole-file calls. *)

LEMMA ReturnedOnErr ==
  ASSUME NEW op \in WholeFile, NEW p, NEW wanted, NEW failed,
         ReturnPrinted(op, p, wanted, failed),
         failed = "open" \/ (op = "read_file" /\ failed \in {"stat", "allocate"})
  PROVE  WholeFileExact' /\ FileFailureTold' /\ last'.op = op
<1>1. last'.op = op /\ last'.got = -1 /\ last'.failed = failed BY DEF ReturnPrinted, Outcome
<1> QED BY <1>1 DEF WholeFileExact, FileFailureTold

LEMMA ReadFileStep ==
  ASSUME IInv, NEW p \in Paths, ReadFile(p)
  PROVE  IInv' /\ KeptByStep
<1> USE DEF IInv
<1>1. pc = "client" /\ "read_file" \in WholeFile /\ UNCHANGED <<files, given, size>>
  BY DEF ReadFile
<1>2. CASE /\ CanOpen(p, OpenRead)
           /\ table' = Opened(p, OpenRead, 0) /\ pc' = "stat" /\ fd' = NewFd
           /\ errtype' = "NONE" /\ last' = Nothing
  <2>1. FreeFd # {} BY <1>2 DEF CanOpen
  <2>2. HasNewFd(table', p) BY <1>2, <2>1, OpenedIs, FlagTypes
  <2>3. files[p] \in Contents BY <1>2, CreatedIs, FlagTypes DEF CanOpen
  <2>4. TypeOK' /\ PendingInv' BY <1>1, <1>2, <2>2 DEF TypeOK, PendingInv, HasNewFd
  <2>5. OpenInv' BY <1>1, <2>2, <2>3 DEF OpenInv, HasNewFd
  <2>6. WholeFileExact' /\ FileFailureTold' BY <1>2, OtherCall DEF Nothing
  <2>7. KeptByStep BY <1>1, <1>2, <2>2 DEF KeptByStep, Unowned, HasNewFd
  <2> QED BY <2>4, <2>5, <2>6, <2>7
<1>3. CASE ReturnPrinted("read_file", p, 0, "open") /\ UNCHANGED <<table, pc, fd>>
  <2>1. WholeFileExact' /\ FileFailureTold' BY <1>1, <1>3, ReturnedOnErr
  <2> QED BY <1>1, <1>3, <2>1, NothingMoved
<1> QED BY <1>2, <1>3 DEF ReadFile

LEMMA ReadFileStatStep ==
  ASSUME IInv, ReadFileStat
  PROVE  IInv' /\ KeptByStep
<1> USE DEF IInv
<1>1. pc = "stat" /\ UNCHANGED <<files, table, given>> BY DEF ReadFileStat
<1>2. fd \in DOMAIN table /\ last = Nothing BY <1>1 DEF PendingInv
<1>3. CASE /\ size' = Len(files[table[fd].path]) /\ pc' = "read"
           /\ UNCHANGED <<errtype, last, fd>>
  <2>1. size' \in Nat BY <1>2, <1>3, HeldType DEF Contents
  <2>2. TypeOK' /\ OpenInv' /\ PendingInv'
    BY <1>1, <1>2, <1>3, <2>1 DEF TypeOK, OpenInv, PendingInv
  <2>3. WholeFileExact' /\ FileFailureTold' BY <1>2, <1>3, OtherCall DEF Nothing
  <2>4. KeptByStep BY <1>1 DEF KeptByStep, Unowned
  <2> QED BY <2>2, <2>3, <2>4
<1>4. CASE /\ \E failed \in {"stat", "allocate"} :
                ReturnPrinted("read_file", table[fd].path, 0, failed)
           /\ pc' = "client" /\ fd' = 0 /\ UNCHANGED size
  <2>1. TypeOK' /\ OpenInv' /\ PendingInv' BY <1>1, <1>4 DEF TypeOK, OpenInv, PendingInv
  <2>2. WholeFileExact' /\ FileFailureTold' BY <1>1, <1>4, ReturnedOnErr DEF PendingInv
  <2>3. KeptByStep BY <1>1 DEF KeptByStep, Unowned
  <2> QED BY <2>1, <2>2, <2>3
<1> QED BY <1>3, <1>4 DEF ReadFileStat

LEMMA ReadFileReadStep ==
  ASSUME IInv, ReadFileRead
  PROVE  IInv' /\ KeptByStep
<1> USE DEF IInv
<1>1. /\ pc = "read" /\ pc' = "client" /\ size' = 0 /\ UNCHANGED <<files, given>>
      /\ Read("read_file", table[fd].path, 0, size, size)
      /\ table' = [table EXCEPT ![fd].pos = Advanced(last'.got)]
  BY DEF ReadFileRead
<1>2. fd \in DOMAIN table /\ size \in Nat BY <1>1 DEF PendingInv, TypeOK
<1>3. table[fd].path \in Paths /\ files[table[fd].path] \in Contents BY <1>2, HeldType
<1>4. size <= size BY <1>2
<1>5. WholeFileExact' /\ FileFailureTold' /\ Advanced(last'.got) \in Nat
  BY <1>1, <1>2, <1>3, <1>4, ReadStep
<1>6. SameFds(table') BY <1>1, <1>2, <1>5, MovedIs
<1>7. TypeOK' /\ OpenInv' /\ PendingInv'
  BY <1>1, <1>6 DEF TypeOK, OpenInv, PendingInv, SameFds
<1>8. KeptByStep BY <1>1, <1>6 DEF KeptByStep, Unowned, SameFds
<1> QED BY <1>5, <1>7, <1>8

LEMMA ReadFileIntoStep ==
  ASSUME IInv, NEW p \in Paths, NEW capacity \in Nat, ReadFileInto(p, capacity)
  PROVE  IInv' /\ KeptByStep
<1> USE DEF IInv
<1>1. /\ pc = "client" /\ UNCHANGED <<pc, fd, size, files, given>>
      /\ "read_file_into" \in WholeFile
  BY DEF ReadFileInto, Idle
<1>2. CASE /\ CanOpen(p, OpenRead)
           /\ Read("read_file_into", p, 0, capacity, There(p, 0, capacity))
           /\ table' = Opened(p, OpenRead, Advanced(last'.got))
  <2>1. FreeFd # {} BY <1>2 DEF CanOpen
  <2>2. files[p] \in Contents BY <1>2, CreatedIs, FlagTypes DEF CanOpen
  <2>3. There(p, 0, capacity) \in Nat /\ There(p, 0, capacity) <= capacity BY <2>2, ThereIs
  <2>4. /\ WholeFileExact' /\ FileFailureTold' /\ Advanced(last'.got) \in Nat
        /\ last'.op = "read_file_into"
    BY <1>1, <1>2, <2>2, <2>3, ReadStep
  <2>5. HasNewFd(table', p) BY <1>2, <2>1, <2>4, OpenedIs, FlagTypes
  <2>6. TypeOK' /\ PendingInv' BY <1>1, <2>5 DEF TypeOK, PendingInv, HasNewFd
  <2>7. OpenInv' BY <1>1, <2>2, <2>5 DEF OpenInv, HasNewFd
  <2>8. KeptByStep BY <1>1, <2>4, <2>5 DEF KeptByStep, Unowned, HasNewFd
  <2> QED BY <2>4, <2>6, <2>7, <2>8
<1>3. CASE ReturnPrinted("read_file_into", p, 0, "open") /\ UNCHANGED table
  <2>1. WholeFileExact' /\ FileFailureTold' BY <1>1, <1>3, ReturnedOnErr
  <2> QED BY <1>1, <1>3, <2>1, NothingMoved
<1> QED BY <1>2, <1>3 DEF ReadFileInto

LEMMA PutFileStep ==
  ASSUME IInv, NEW op, NEW flags \in AllFlags, NEW p \in Paths, NEW data \in Seq(Data),
         PutFile(op, flags, p, data),
         \/ op = "write_file" /\ ~flags.append
         \/ op = "append_file" /\ flags.append
  PROVE  /\ IInv' /\ KeptByStep
         /\ op = "append_file" /\ files[p] # NoFile => IsPrefix(files[p], files'[p])
<1> USE DEF IInv
<1>1. pc = "client" /\ UNCHANGED <<pc, fd, size, given>> /\ op \in WholeFile
  BY DEF PutFile, Idle
<1> DEFINE content == Created(p)
           pos == IF flags.append THEN Len(content) ELSE 0
<1>2. CASE /\ CanOpen(p, flags)
           /\ Write(op, p, content, pos, data)
           /\ table' = Opened(p, flags, IF last'.got > 0 THEN pos + last'.got ELSE 0)
  <2>1. /\ Write(op, p, content, pos, data)
        /\ table' = Opened(p, flags, IF last'.got > 0 THEN pos + last'.got ELSE 0)
    BY <1>2
  <2>2. FreeFd # {} BY <1>2 DEF CanOpen
  <2>3. /\ content \in Contents /\ pos \in Nat
        /\ op = "write_file" => pos = 0
        /\ op = "append_file" => pos = Len(content)
        /\ op \notin {"read_file", "read_file_into"}
    BY CreatedIs
  <2> HIDE DEF pos
  <2>4. /\ WholeFileExact' /\ FileFailureTold' /\ last'.op = op
        /\ last'.got > 0 => pos + last'.got \in Nat
        /\ files' \in [Paths -> Contents \union {NoFile}] /\ files'[p] \in Contents
        /\ \A q \in Paths : files[q] \in Contents => files'[q] \in Contents
        /\ pos = Len(content) => IsPrefix(content, files'[p])
    BY <2>1, <2>3, WriteStep, Zenon
  <2>5. HasNewFd(table', p)
    <3>1. (IF last'.got > 0 THEN pos + last'.got ELSE 0) \in Nat BY <2>4
    <3> QED BY <2>1, <2>2, <3>1, OpenedIs
  <2>6. TypeOK' /\ PendingInv' BY <1>1, <2>1, <2>4, <2>5 DEF TypeOK, PendingInv, HasNewFd
  <2>7. OpenInv'
    <3> SUFFICES ASSUME NEW f \in DOMAIN table' PROVE files'[table'[f].path] \in Contents
      BY DEF OpenInv
    <3>1. CASE f = NewFd BY <2>4, <2>5, <3>1 DEF HasNewFd
    <3>2. CASE f \in DOMAIN table BY <2>4, <2>5, <3>2, HeldType DEF HasNewFd
    <3> QED BY <2>5, <3>1, <3>2 DEF HasNewFd
  <2>8. KeptByStep BY <1>1, <2>1, <2>4, <2>5 DEF KeptByStep, Unowned, HasNewFd
  <2>9. op = "append_file" /\ files[p] # NoFile => IsPrefix(files[p], files'[p])
    BY <2>3, <2>4, CreatedIs
  <2> QED BY <2>4, <2>6, <2>7, <2>8, <2>9
<1>3. CASE ReturnPrinted(op, p, Len(data), "open") /\ UNCHANGED <<files, table>>
  <2>1. WholeFileExact' /\ FileFailureTold' BY <1>1, <1>3, ReturnedOnErr
  <2>2. IInv' /\ KeptByStep BY <1>1, <1>3, <2>1, NothingMoved
  <2>3. files[p] # NoFile => IsPrefix(files[p], files'[p])
    <3>1. files'[p] = files[p] BY <1>3
    <3> QED BY <3>1, CreatedIs, PrefixIs DEF Contents
  <2> QED BY <2>2, <2>3
<1> QED BY <1>2, <1>3 DEF PutFile

-----------------------------------------------------------------------------
(* The other process. *)

LEMMA OtherPut ==
  ASSUME IInv, NEW p \in Paths, NEW c \in Contents, files' = [files EXCEPT ![p] = c],
         last' = Nothing, UNCHANGED <<table, given, errtype, pc, fd, size>>
  PROVE  IInv' /\ KeptByStep
<1> USE DEF IInv
<1>1. /\ files' \in [Paths -> Contents \union {NoFile}]
      /\ \A q \in Paths : files[q] \in Contents => files'[q] \in Contents
  BY FilePut
<1>2. TypeOK' /\ PendingInv' BY <1>1 DEF TypeOK, PendingInv
<1>3. OpenInv' BY <1>1, HeldType DEF OpenInv
<1>4. WholeFileExact' /\ FileFailureTold' BY OtherCall DEF Nothing
<1>5. KeptByStep BY DEF KeptByStep, Unowned
<1> QED BY <1>2, <1>3, <1>4, <1>5

LEMMA OtherAppendsStep ==
  ASSUME IInv, NEW p \in Paths, NEW d \in Data, OtherAppends(p, d)
  PROVE  IInv' /\ KeptByStep
<1>1. /\ files[p] # NoFile /\ files' = [files EXCEPT ![p] = Append(files[p], d)]
      /\ last' = Nothing /\ UNCHANGED <<table, given, errtype, pc, fd, size>>
  BY DEF OtherAppends
<1>2. files[p] \in Contents BY <1>1, CreatedIs DEF IInv
<1>3. Append(files[p], d) \in Contents BY <1>2 DEF Contents
<1> QED BY <1>1, <1>3, OtherPut

LEMMA OtherTruncatesStep ==
  ASSUME IInv, NEW p \in Paths, OtherTruncates(p)
  PROVE  IInv' /\ KeptByStep
<1>1. /\ files' = [files EXCEPT ![p] = <<>>] /\ last' = Nothing
      /\ UNCHANGED <<table, given, errtype, pc, fd, size>>
  BY DEF OtherTruncates
<1>2. <<>> \in Contents BY DEF Contents
<1> QED BY <1>1, <1>2, OtherPut

-----------------------------------------------------------------------------
LEMMA FilesInit ==
  InitFiles => IInv
<1> SUFFICES ASSUME InitFiles PROVE IInv OBVIOUS
<1> USE DEF InitFiles
<1>1. DOMAIN table = {} /\ table \in [{} -> Opens]
  <2>1. table \in Seq(Opens) /\ Len(table) = 0 BY EmptySeq
  <2>2. table \in [1 .. Len(table) -> Opens] /\ DOMAIN table = 1 .. Len(table) BY <2>1, LenProperties
  <2>3. table \in [1 .. 0 -> Opens] /\ DOMAIN table = 1 .. 0 BY <2>1, <2>2, Zenon
  <2>4. 1 .. 0 = {} OBVIOUS
  <2> QED BY <2>3, <2>4, Zenon
<1>2. table \in FdTables
  <2>1. {} \subseteq FdNumbers OBVIOUS
  <2> QED BY <1>1, <2>1, FdTable, Zenon
<1>3. TypeOK BY <1>2 DEF TypeOK
<1>4. OpenInv /\ PendingInv BY <1>1 DEF OpenInv, PendingInv
<1>5. last.op = "none" /\ last.got = 0 /\ last.wanted = 0 /\ last.failed = "none"
  BY DEF Nothing, Outcome
<1>6. WholeFileExact /\ FileFailureTold BY <1>5 DEF WholeFileExact, FileFailureTold
<1> QED BY <1>3, <1>4, <1>6 DEF IInv

LEMMA FilesStep ==
  ASSUME IInv, [NextFiles]_filesVars
  PROVE  IInv' /\ (KeptByStep \/ UNCHANGED filesVars)
<1>1. CASE UNCHANGED filesVars
  BY <1>1 DEF IInv, filesVars, TypeOK, OpenInv, PendingInv, WholeFileExact, FileFailureTold, FreeFd
<1>2. ASSUME NEW p \in Paths, NEW flags \in {OpenRead, OpenWrite, OpenAppend, OpenFull},
             OpenFile(p, flags)
      PROVE  IInv' /\ KeptByStep
  BY <1>2, FlagTypes, OpenFileStep
<1>3. ASSUME NEW p \in Paths, NEW data \in Buffers, WriteFile(p, data)
      PROVE  IInv' /\ KeptByStep
  <2>1. PutFile("write_file", OpenWrite, p, data) BY <1>3 DEF WriteFile
  <2> QED BY <2>1, BuffersAre, FlagTypes, PutFileStep
<1>4. ASSUME NEW p \in Paths, NEW data \in Buffers, AppendFile(p, data)
      PROVE  IInv' /\ KeptByStep
  <2>1. PutFile("append_file", OpenAppend, p, data) BY <1>4 DEF AppendFile
  <2> QED BY <2>1, BuffersAre, FlagTypes, PutFileStep
<1>5. ASSUME NEW capacity \in 1 .. MaxLen PROVE capacity \in Nat OBVIOUS
<1>6. ASSUME NEW p \in Paths,
             \/ Filesize(p) \/ FileAccess(p) \/ ReadFile(p) \/ OtherTruncates(p)
             \/ \E capacity \in 1 .. MaxLen : ReadFileInto(p, capacity)
             \/ \E d \in Data : OtherAppends(p, d)
      PROVE  IInv' /\ KeptByStep
  BY <1>5, <1>6, FilesizeStep, FileAccessStep, ReadFileStep, ReadFileIntoStep,
     OtherAppendsStep, OtherTruncatesStep
<1>7. ASSUME NEW f \in given,
             \/ Close(f) \/ \E capacity \in 1 .. MaxLen : ReadFd(f, capacity)
             \/ \E data \in Buffers : WriteFd(f, data)
      PROVE  IInv' /\ KeptByStep
  BY <1>5, <1>7, BuffersAre, CloseStep, ReadFdStep, WriteFdStep
<1> QED BY <1>1, <1>2, <1>3, <1>4, <1>6, <1>7, ReadFileStatStep, ReadFileReadStep DEF NextFiles

\* AppendsOnly, of one step.
LEMMA AppendsStep ==
  ASSUME IInv, NEW p \in Paths, files[p] # NoFile,
         \/ \E data \in Buffers : AppendFile(p, data)
         \/ \E f \in given : table[f].path = p /\ table[f].flags = OpenAppend
                            /\ \E data \in Buffers : WriteFd(f, data)
  PROVE  IsPrefix(files[p], files'[p])
<1>1. ASSUME NEW data \in Buffers, AppendFile(p, data)
      PROVE  IsPrefix(files[p], files'[p])
  <2>1. PutFile("append_file", OpenAppend, p, data) BY <1>1 DEF AppendFile
  <2> QED BY <2>1, BuffersAre, FlagTypes, PutFileStep
<1>2. ASSUME NEW f \in given, table[f].path = p, table[f].flags = OpenAppend,
             NEW data \in Buffers, WriteFd(f, data)
      PROVE  IsPrefix(files[p], files'[p])
  <2>1. OpenAppend.append BY FlagTypes
  <2> QED BY <1>2, <2>1, BuffersAre, WriteFdStep
<1> QED BY <1>1, <1>2

-----------------------------------------------------------------------------
(***************************************************************************)
(* The inductive invariant holds in every state.                           *)
(***************************************************************************)
THEOREM FilesInvariant == FilesSpec => []IInv
<1>1. InitFiles => IInv BY FilesInit
<1>2. IInv /\ [NextFiles]_filesVars => IInv' BY FilesStep
<1> QED BY <1>1, <1>2, PTL DEF FilesSpec

(***************************************************************************)
(* What a whole-file call read or wrote is at the place in the file where  *)
(* it should be, however short the reads and writes.                       *)
(***************************************************************************)
THEOREM FilesExact == FilesSpec => []WholeFileExact
<1>1. IInv => WholeFileExact BY DEF IInv
<1> QED BY <1>1, FilesInvariant, PTL

(***************************************************************************)
(* A file call in which a system call failed, or that moved less than      *)
(* there was to move, left an error, whichever system call failed and      *)
(* however short the reads and writes: but for the whole-file calls that   *)
(* could not open the file or have no string for it, which return -1.      *)
(***************************************************************************)
THEOREM FilesTold == FilesSpec => []FileFailureTold
<1>1. IInv => FileFailureTold BY DEF IInv
<1> QED BY <1>1, FilesInvariant, PTL

(***************************************************************************)
(* Appending never changes what is in the file, whatever another process   *)
(* does to it between the calls.                                           *)
(***************************************************************************)
THEOREM FilesAppend == FilesSpec => AppendsOnly
<1> DEFINE Kept ==
      \A p \in Paths :
        /\ files[p] # NoFile
        /\ \/ \E data \in Buffers : AppendFile(p, data)
           \/ \E f \in given : table[f].path = p /\ table[f].flags = OpenAppend
                              /\ \E data \in Buffers : WriteFd(f, data)
        => IsPrefix(files[p], files'[p])
<1>1. IInv => Kept BY AppendsStep
<1>2. IInv => [Kept]_filesVars BY <1>1
<1>3. [][Kept]_filesVars => AppendsOnly BY PTL DEF AppendsOnly
<1> HIDE DEF Kept
<1> QED BY <1>2, <1>3, FilesInvariant, PTL

(***************************************************************************)
(* A descriptor that a whole-file call opened stays open for good, and no  *)
(* other call leaves one open that its client was not given to close.      *)
(***************************************************************************)
THEOREM FilesDescriptors == FilesSpec => DescriptorsKept
<1>1. IInv /\ [NextFiles]_filesVars => [KeptByStep]_filesVars BY FilesStep
<1>2. [][KeptByStep]_filesVars => DescriptorsKept BY PTL DEF DescriptorsKept, KeptByStep
<1> QED BY <1>1, <1>2, FilesInvariant, PTL DEF FilesSpec
=============================================================================
