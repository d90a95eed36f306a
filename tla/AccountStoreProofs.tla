------------------------- MODULE AccountStoreProofs -------------------------
(***************************************************************************)
(* What the operators of BookValues and AccountStore return and preserve,  *)
(* for every set of keys, values, ids and every limit.  The lemmas carry   *)
(* the inductive steps of RecordSyncProofs and LibrarySyncProofs.          *)
(***************************************************************************)
EXTENDS AccountStore, SequenceTheorems, WellFoundedInduction, TLAPS

(* Dropping one entry of a folder list leaves a folder list. *)
LEMMA DropOneType ==
  ASSUME NEW fs \in FolderLists, NEW i \in 1 .. Len(fs)
  PROVE  /\ SubSeq(fs, 1, i-1) \o SubSeq(fs, i+1, Len(fs)) \in FolderLists
         /\ \A j \in 1 .. Len(SubSeq(fs, 1, i-1) \o SubSeq(fs, i+1, Len(fs))) :
              (SubSeq(fs, 1, i-1) \o SubSeq(fs, i+1, Len(fs)))[j] # fs[i]
         /\ Len(SubSeq(fs, 1, i-1) \o SubSeq(fs, i+1, Len(fs))) = Len(fs) - 1
<1> DEFINE front == SubSeq(fs, 1, i-1)
           rest  == SubSeq(fs, i+1, Len(fs))
           out   == front \o rest
<1>1. /\ fs \in Seq(Folders) /\ Len(fs) \in Nat /\ Len(fs) <= MaxFolders
      /\ i \in Nat /\ 1 <= i /\ i <= Len(fs)
      /\ \A j, k \in 1 .. Len(fs) : fs[j] = fs[k] => j = k
  BY DEF FolderLists
<1>2. front \in Seq(Folders) /\ Len(front) = i - 1
      /\ \A j \in 1 .. i-1 : front[j] = fs[j]
  BY <1>1
<1>3. rest \in Seq(Folders) /\ Len(rest) = Len(fs) - i
      /\ \A j \in 1 .. Len(fs) - i : rest[j] = fs[j + i]
  BY <1>1
<1> HIDE DEF front, rest
<1>4. /\ out \in Seq(Folders) /\ Len(out) = Len(fs) - 1
      /\ \A j \in 1 .. i - 1 : out[j] = front[j]
      /\ \A j \in i .. Len(fs) - 1 : out[j] = rest[j - (i - 1)]
  <2> HIDE DEF out
  <2>1. /\ out \in Seq(Folders)
        /\ Len(out) = Len(front) + Len(rest)
        /\ \A j \in 1 .. Len(front) + Len(rest) :
             out[j] = IF j <= Len(front) THEN front[j] ELSE rest[j - Len(front)]
    BY <1>2, <1>3, ConcatProperties DEF out
  <2>2. Len(front) + Len(rest) = Len(fs) - 1
    BY <1>1, <1>2, <1>3
  <2>3. \A j \in i .. Len(fs) - 1 : j \in 1 .. Len(front) + Len(rest) /\ ~(j <= Len(front))
    BY <1>1, <1>2, <2>2
  <2>4. \A j \in 1 .. i - 1 : j \in 1 .. Len(front) + Len(rest) /\ j <= Len(front)
    BY <1>1, <1>2, <2>2
  <2> QED BY <1>2, <2>1, <2>2, <2>3, <2>4
<1> HIDE DEF out
<1>5. \A j \in 1 .. Len(fs) - 1 : out[j] = IF j <= i - 1 THEN fs[j] ELSE fs[j + 1]
  <2> SUFFICES ASSUME NEW j \in 1 .. Len(fs) - 1
               PROVE  out[j] = IF j <= i - 1 THEN fs[j] ELSE fs[j + 1]
    OBVIOUS
  <2>1. CASE j <= i - 1
    BY <2>1, <1>1, <1>2, <1>4
  <2>2. CASE j > i - 1
    <3>1. j - (i - 1) \in 1 .. Len(fs) - i /\ j - (i - 1) + i = j + 1
      BY <2>2, <1>1
    <3>2. out[j] = rest[j - (i - 1)]
      BY <2>2, <1>1, <1>4
    <3> QED BY <3>1, <3>2, <2>2, <1>1, <1>3
  <2> QED BY <1>1, <2>1, <2>2
<1>6. \A j, k \in 1 .. Len(fs) - 1 : out[j] = out[k] => j = k
  BY <1>1, <1>5
<1>7. \A j \in 1 .. Len(fs) - 1 : out[j] # fs[i]
  <2>1. \A j \in 1 .. Len(fs) - 1 :
          \E m \in 1 .. Len(fs) : m # i /\ out[j] = fs[m]
    <3> SUFFICES ASSUME NEW j \in 1 .. Len(fs) - 1
                 PROVE  \E m \in 1 .. Len(fs) : m # i /\ out[j] = fs[m]
      OBVIOUS
    <3> DEFINE m == IF j <= i - 1 THEN j ELSE j + 1
    <3>1. m \in 1 .. Len(fs) /\ m # i
      BY <1>1
    <3>2. out[j] = fs[m]
      BY <1>5
    <3> QED BY <3>1, <3>2
  <2> QED BY <1>1, <2>1
<1>8. Len(out) <= MaxFolders
  BY <1>1, <1>4, FolderAssumption
<1>9. out \in FolderLists
  BY <1>4, <1>6, <1>8 DEF FolderLists
<1> QED BY <1>4, <1>7, <1>9 DEF out, front, rest

(* The folders of a list, a given name removed. *)
LEMMA WithoutType ==
  ASSUME NEW fs \in FolderLists, NEW f
  PROVE  /\ Without(fs, f) \in FolderLists
         /\ Len(Without(fs, f)) <= Len(fs)
         /\ \A j \in 1 .. Len(Without(fs, f)) : Without(fs, f)[j] # f
<1>0. fs \in Seq(Folders) /\ Len(fs) \in Nat
  BY DEF FolderLists
<1>1. CASE \E i \in 1 .. Len(fs) : fs[i] = f
  <2> DEFINE at == CHOOSE i \in 1 .. Len(fs) : fs[i] = f
  <2>1. at \in 1 .. Len(fs) /\ fs[at] = f
    BY <1>1
  <2>2. Without(fs, f) = SubSeq(fs, 1, at-1) \o SubSeq(fs, at+1, Len(fs))
    BY <1>1 DEF Without, RemoveAt
  <2> HIDE DEF at
  <2>3. Len(fs) - 1 <= Len(fs)
    BY <1>0
  <2> DEFINE out == SubSeq(fs, 1, at-1) \o SubSeq(fs, at+1, Len(fs))
  <2>4. /\ out \in FolderLists
        /\ \A j \in 1 .. Len(out) : out[j] # fs[at]
        /\ Len(out) = Len(fs) - 1
    BY <2>1, DropOneType
  <2> HIDE DEF out
  <2>5. Without(fs, f) = out
    BY <2>2 DEF out
  <2> QED BY <2>1, <2>3, <2>4, <2>5
<1>2. CASE ~\E i \in 1 .. Len(fs) : fs[i] = f
  BY <1>0, <1>2 DEF Without
<1> QED BY <1>1, <1>2

(* Only the given name goes. *)
LEMMA WithoutKeeps ==
  ASSUME NEW fs \in FolderLists, NEW f, NEW i \in 1 .. Len(fs), fs[i] # f
  PROVE  \E j \in 1 .. Len(Without(fs, f)) : Without(fs, f)[j] = fs[i]
<1>0. fs \in Seq(Folders) /\ Len(fs) \in Nat
  BY DEF FolderLists
<1>1. CASE \E k \in 1 .. Len(fs) : fs[k] = f
  <2> DEFINE at == CHOOSE k \in 1 .. Len(fs) : fs[k] = f
             front == SubSeq(fs, 1, at-1)
             rest == SubSeq(fs, at+1, Len(fs))
             out == front \o rest
  <2>1. at \in 1 .. Len(fs) /\ fs[at] = f
    BY <1>1
  <2>2. Without(fs, f) = out
    BY <1>1 DEF Without, RemoveAt
  <2> HIDE DEF at
  <2>3. front \in Seq(Folders) /\ Len(front) = at - 1
        /\ \A j \in 1 .. at - 1 : front[j] = fs[j]
    BY <1>0, <2>1
  <2>4. rest \in Seq(Folders) /\ Len(rest) = Len(fs) - at
        /\ \A j \in 1 .. Len(fs) - at : rest[j] = fs[j + at]
    BY <1>0, <2>1
  <2> HIDE DEF front, rest
  <2>5. /\ Len(out) = Len(front) + Len(rest)
        /\ \A j \in 1 .. Len(front) + Len(rest) :
             out[j] = IF j <= Len(front) THEN front[j] ELSE rest[j - Len(front)]
    BY <2>3, <2>4, ConcatProperties
  <2> HIDE DEF out
  <2>6. CASE i < at
    <3>1. i \in 1 .. Len(front) + Len(rest) /\ i <= Len(front) /\ i \in 1 .. at - 1
      BY <1>0, <2>1, <2>3, <2>4, <2>6
    <3>2. out[i] = fs[i] /\ i \in 1 .. Len(out)
      BY <2>3, <2>5, <3>1
    <3> QED BY <2>2, <3>2
  <2>7. CASE i > at
    <3>1. /\ i - 1 \in 1 .. Len(front) + Len(rest) /\ ~(i - 1 <= Len(front))
          /\ (i - 1) - Len(front) = i - at /\ i - at \in 1 .. Len(fs) - at
          /\ (i - at) + at = i
      BY <1>0, <2>1, <2>3, <2>4, <2>7
    <3>2. out[i - 1] = rest[i - at] /\ i - 1 \in 1 .. Len(out)
      BY <2>5, <3>1
    <3>3. rest[i - at] = fs[i]
      BY <2>4, <3>1
    <3> QED BY <2>2, <3>2, <3>3
  <2>8. i # at
    BY <2>1
  <2> QED BY <1>0, <2>1, <2>6, <2>7, <2>8
<1>2. CASE ~\E k \in 1 .. Len(fs) : fs[k] = f
  BY <1>2 DEF Without
<1> QED BY <1>1, <1>2

(* Without its primary folder a list is still a folder list. *)
LEMMA TailType ==
  ASSUME NEW fs \in FolderLists, fs # <<>>
  PROVE  Tail(fs) \in FolderLists /\ Len(Tail(fs)) = Len(fs) - 1
<1>1. fs \in Seq(Folders) /\ Len(fs) <= MaxFolders /\ Len(fs) \in Nat /\ Len(fs) # 0
  BY DEF FolderLists
<1>2. Tail(fs) \in Seq(Folders) /\ Len(Tail(fs)) = Len(fs) - 1
      /\ \A j \in 1 .. Len(fs) - 1 : Tail(fs)[j] = fs[j + 1]
  BY <1>1
<1>3. \A j, k \in 1 .. Len(fs) : fs[j] = fs[k] => j = k
  BY DEF FolderLists
<1>4. \A j, k \in 1 .. Len(Tail(fs)) : Tail(fs)[j] = Tail(fs)[k] => j = k
  BY <1>1, <1>2, <1>3
<1>5. Len(Tail(fs)) <= MaxFolders
  BY <1>1, <1>2, FolderAssumption
<1> QED BY <1>2, <1>4, <1>5 DEF FolderLists

(* A legacy primary-folder edit yields a folder list again: no folder      *)
(* twice, and no more of them than before unless there were none.          *)
LEMMA MovedToType ==
  ASSUME NEW fs \in FolderLists, NEW folder \in Folders \cup {NoFolder}
  PROVE  MovedTo(folder, fs) \in FolderLists
<1> DEFINE others == IF fs = <<>> THEN <<>> ELSE Without(Tail(fs), folder)
<1>1. /\ others \in FolderLists
      /\ Len(others) <= MaxFolders - 1
      /\ \A j \in 1 .. Len(others) : others[j] # folder
  <2>1. CASE fs = <<>>
    BY <2>1, FolderAssumption DEF FolderLists
  <2>2. CASE fs # <<>>
    <3>1. Tail(fs) \in FolderLists /\ Len(Tail(fs)) = Len(fs) - 1
      BY <2>2, TailType
    <3>2. /\ Without(Tail(fs), folder) \in FolderLists
          /\ Len(Without(Tail(fs), folder)) <= Len(Tail(fs))
          /\ \A j \in 1 .. Len(Without(Tail(fs), folder)) :
               Without(Tail(fs), folder)[j] # folder
      BY <3>1, WithoutType
    <3>3. Len(fs) <= MaxFolders /\ Len(fs) \in Nat
          /\ Len(Without(Tail(fs), folder)) \in Nat
      BY <3>2 DEF FolderLists
    <3> QED BY <2>2, <3>1, <3>2, <3>3, FolderAssumption
  <2> QED BY <2>1, <2>2
<1> HIDE DEF others
<1>2. MovedTo(folder, fs) = IF folder = NoFolder THEN others ELSE <<folder>> \o others
  BY DEF MovedTo, others
<1>3. CASE folder = NoFolder
  BY <1>1, <1>2, <1>3
<1>4. CASE folder # NoFolder
  <2> DEFINE out == <<folder>> \o others
  <2>1. others \in Seq(Folders) /\ folder \in Folders /\ Len(others) \in Nat
    BY <1>1, <1>4 DEF FolderLists
  <2>2. /\ out \in Seq(Folders)
        /\ Len(out) = Len(others) + 1
        /\ \A j \in 1 .. Len(out) : out[j] = IF j = 1 THEN folder ELSE others[j - 1]
    BY <2>1
  <2>3. \A j, k \in 1 .. Len(others) : others[j] = others[k] => j = k
    BY <1>1 DEF FolderLists
  <2>4. \A j, k \in 1 .. Len(out) : out[j] = out[k] => j = k
    <3> HIDE DEF out
    <3> SUFFICES ASSUME NEW j \in 1 .. Len(out), NEW k \in 1 .. Len(out), out[j] = out[k]
                 PROVE  j = k
      OBVIOUS
    <3>1. \A m \in 1 .. Len(out) : m # 1 => m - 1 \in 1 .. Len(others)
      BY <2>1, <2>2
    <3>2. CASE j = 1 \/ k = 1
      BY <3>1, <3>2, <1>1, <2>2
    <3>3. CASE j # 1 /\ k # 1
      <4>1. others[j - 1] = others[k - 1]
        BY <3>3, <2>2
      <4>2. j - 1 = k - 1
        BY <4>1, <3>1, <3>3, <2>3
      <4> QED BY <4>2
    <3> QED BY <3>2, <3>3
  <2>5. Len(out) <= MaxFolders
    BY <1>1, <2>1, <2>2, FolderAssumption
  <2> HIDE DEF out
  <2>6. out \in FolderLists
    BY <2>2, <2>4, <2>5 DEF FolderLists
  <2> QED BY <1>2, <1>4, <2>6 DEF out
<1> QED BY <1>3, <1>4

(* A primary-folder edit leaves every folder in the list but the one it    *)
(* replaces, and the new one comes first.                                  *)
LEMMA MovedToKeeps ==
  ASSUME NEW fs \in FolderLists, NEW folder \in Folders \cup {NoFolder}
  PROVE  LET out == MovedTo(folder, fs)
         IN  /\ \A i \in 1 .. Len(fs) : fs[i] # Primary(fs)
                  => \E j \in 1 .. Len(out) : out[j] = fs[i]
             /\ Primary(out) = folder \/ folder = NoFolder
<1> DEFINE others == IF fs = <<>> THEN <<>> ELSE Without(Tail(fs), folder)
           out == MovedTo(folder, fs)
<1>1. out = IF folder = NoFolder THEN others ELSE <<folder>> \o others
  BY DEF MovedTo
<1>2. fs \in Seq(Folders) /\ Len(fs) \in Nat
  BY DEF FolderLists
<1>3. others \in Seq(Folders)
  <2>1. CASE fs = <<>>
    BY <2>1
  <2>2. CASE fs # <<>>
    BY <2>2, TailType, WithoutType DEF FolderLists
  <2> QED BY <2>1, <2>2
<1>4. ASSUME NEW i \in 1 .. Len(fs), fs[i] # Primary(fs), fs[i] # folder
      PROVE  \E j \in 1 .. Len(others) : others[j] = fs[i]
  <2>1. fs # <<>> /\ Primary(fs) = fs[1]
    BY <1>2 DEF Primary
  <2> DEFINE t == Tail(fs)
  <2>2. i - 1 \in 1 .. Len(t) /\ t[i - 1] = fs[i]
    BY <1>2, <1>4, <2>1
  <2>3. t \in FolderLists
    BY <2>1, TailType
  <2>4. others = Without(t, folder)
    BY <2>1
  <2> HIDE DEF t, others
  <2> DEFINE k == i - 1
  <2>5. k \in 1 .. Len(t) /\ t[k] = fs[i]
    BY <2>2
  <2> HIDE DEF k
  <2>6. t[k] # folder
    BY <1>4, <2>5
  <2>7. \E j \in 1 .. Len(Without(t, folder)) : Without(t, folder)[j] = t[k]
    BY <2>3, <2>5, <2>6, WithoutKeeps
  <2> QED BY <2>4, <2>5, <2>7
<1> HIDE DEF others, out
<1>5. CASE folder = NoFolder
  <2>1. \A i \in 1 .. Len(fs) : fs[i] # folder
    BY <1>2, <1>5, FolderAssumption
  <2>2. out = others
    BY <1>1, <1>5
  <2> QED BY <1>4, <1>5, <2>1, <2>2 DEF out
<1>6. CASE folder # NoFolder
  <2>1. /\ out = <<folder>> \o others /\ <<folder>> \in Seq(Folders) /\ Len(<<folder>>) = 1
        /\ <<folder>>[1] = folder
    BY <1>1, <1>6
  <2>2. /\ Len(out) = 1 + Len(others) /\ out \in Seq(Folders)
        /\ \A j \in 1 .. 1 + Len(others) :
             out[j] = IF j <= 1 THEN <<folder>>[j] ELSE others[j - 1]
    BY <1>3, <2>1, ConcatProperties
  <2>3. Len(others) \in Nat
    BY <1>3
  <2>4. 1 \in 1 .. Len(out) /\ out[1] = folder /\ out # <<>>
    BY <2>1, <2>2, <2>3
  <2>5. Primary(out) = folder
    BY <2>2, <2>4 DEF Primary
  <2>6. ASSUME NEW j \in 1 .. Len(others) PROVE j + 1 \in 1 .. Len(out) /\ out[j + 1] = others[j]
    BY <2>2, <2>3
  <2>7. ASSUME NEW i \in 1 .. Len(fs), fs[i] # Primary(fs)
        PROVE  \E j \in 1 .. Len(out) : out[j] = fs[i]
    BY <1>4, <2>4, <2>6, <2>7
  <2> QED BY <2>5, <2>7 DEF out
<1> QED BY <1>5, <1>6

(* The folders of a stored value. *)
LEMMA NextFoldersType ==
  ASSUME NEW v \in Values, NEW p \in Values
  PROVE  NextFolders(v, p) \in FolderLists
<1>1. metadataFolders(p) \in FolderLists
  <2>1. CASE p.folders # Absent
    BY <2>1 DEF metadataFolders, Values
  <2>2. CASE p.folders = Absent /\ p.folder \in Folders
    <3>1. metadataFolders(p) = <<p.folder>>
      BY <2>2 DEF metadataFolders
    <3> QED BY <3>1, <2>2, FolderAssumption DEF FolderLists
  <2>3. CASE p.folders = Absent /\ p.folder \notin Folders
    <3>1. metadataFolders(p) = <<>>
      BY <2>3 DEF metadataFolders
    <3> QED BY <3>1, FolderAssumption DEF FolderLists
  <2> QED BY <2>1, <2>2, <2>3
<1>2. CASE v.folders # Absent
  BY <1>2 DEF NextFolders, Values
<1>3. CASE v.folders = Absent /\ v.folder \in {Absent, Primary(metadataFolders(p))}
  BY <1>1, <1>3 DEF NextFolders
<1>4. CASE v.folders = Absent /\ v.folder \notin {Absent, Primary(metadataFolders(p))}
  <2>1. v.folder \in Folders \cup {NoFolder}
    BY <1>4 DEF Values
  <2> QED BY <1>1, <1>4, <2>1, MovedToType DEF NextFolders
<1> QED BY <1>2, <1>3, <1>4

(* Canonical folders make a value out of values. *)
LEMMA CanonicalType ==
  ASSUME NEW v \in Values, NEW p \in Values
  PROVE  canonicalBookFolders(v, p) \in Values
<1>1. NextFolders(v, p) \in FolderLists
  BY NextFoldersType
<1>2. Primary(NextFolders(v, p)) \in Folders \cup {NoFolder}
  BY <1>1 DEF Primary, FolderLists
<1> QED BY <1>1, <1>2 DEF canonicalBookFolders, Values

-----------------------------------------------------------------------------

(* The stored value of an operation is a value. *)
LEMMA SettledType ==
  ASSUME NEW op \in Operation, NEW r \in Record
  PROVE  Settled(op, r) \in Values
<1>1. op.value \in Values /\ r.candidates \in Seq(Candidate)
  BY DEF Operation, Record
<1>2. Sole(r) => r.candidates[1].value \in Values
  <2>1. Sole(r) => r.candidates[1] \in Candidate
    BY <1>1 DEF Sole
  <2> QED BY <2>1 DEF Candidate
<1>3. WithMembership(op.value, r) \in Values
  BY <1>1, <1>2 DEF WithMembership, Values
<1>4. \A b \in Bodies : Blank(b) \in Values
  BY DEF Blank, Values
<1>5. WithMembership(op.value, r).body \in Bodies
  BY <1>3 DEF Values
<1> DEFINE v == WithMembership(op.value, r)
           p == IF ~Conflicts(op, r) /\ Sole(r) THEN r.candidates[1].value ELSE Blank(v.body)
<1>6. v \in Values /\ p \in Values
  BY <1>2, <1>3, <1>4, <1>5
<1>7. canonicalBookFolders(v, p) \in Values
  BY <1>6, CanonicalType
<1>8. Settled(op, r) \in {op.value, v, canonicalBookFolders(v, p)}
  BY DEF Settled
<1> QED BY <1>1, <1>6, <1>7, <1>8

(* The next version of a record: one revision up, one candidate more than  *)
(* the operation leaves in place.                                          *)
LEMMA NextRecordType ==
  ASSUME NEW op \in Operation, NEW r \in Record
  PROVE  /\ NextRecord(op, r) \in Record
         /\ NextRecord(op, r).revision = r.revision + 1
         /\ Kept(op, r) \in Seq(Candidate)
         /\ Len(NextRecord(op, r).candidates) = Len(Kept(op, r)) + 1
         /\ \A i \in 1 .. Len(Kept(op, r)) :
              NextRecord(op, r).candidates[i] = Kept(op, r)[i]
         /\ NextRecord(op, r).candidates[Len(Kept(op, r)) + 1].op = op.id
<1> DEFINE c == [op |-> op.id, deleted |-> op.deleted, value |-> Settled(op, r)]
           kept == Kept(op, r)
<1>1. c \in Candidate
  BY SettledType DEF Candidate, Operation
<1>2. kept \in Seq(Candidate) /\ Len(kept) \in Nat
  BY DEF Kept, Record
<1>3. NextRecord(op, r) = [revision |-> r.revision + 1, candidates |-> Append(kept, c)]
  BY DEF NextRecord
<1>4. c.op = op.id
  OBVIOUS
<1> HIDE DEF c, kept
<1>5. /\ Append(kept, c) \in Seq(Candidate)
      /\ Len(Append(kept, c)) = Len(kept) + 1
      /\ \A i \in 1 .. Len(kept) : Append(kept, c)[i] = kept[i]
      /\ Append(kept, c)[Len(kept) + 1] = c
  BY <1>1, <1>2
<1>6. r.revision + 1 \in Nat
  BY DEF Record
<1> QED BY <1>2, <1>3, <1>4, <1>5, <1>6 DEF Record, kept

(* What is known of the operation's result without looking it up. *)
LEMMA ResultType ==
  ASSUME NEW d \in DB, NEW op \in Operation
  PROVE  Result(d, op) \in OperationResult
<1>1. CASE Replayed(d, op)
  <2>1. PICK e \in d.operations : e.op = op
    BY <1>1 DEF Replayed
  <2>2. (CHOOSE f \in d.operations : f.op = op) \in d.operations
    BY <2>1
  <2>3. d.operations \subseteq Entry
    BY DEF DB
  <2> QED BY <1>1, <2>2, <2>3 DEF Result, Entry
<1>2. CASE ~Replayed(d, op)
  <2>1. op.key \in Keys /\ op.id \in OpIds /\ d.records[op.key].revision \in Nat
    BY DEF Operation, DB, Record
  <2> QED BY <1>2, <2>1 DEF Result, OperationResult, Conflicts
<1> QED BY <1>1, <1>2

(* Writing a record writes one row of each table. *)
LEMMA WriteType ==
  ASSUME NEW d \in DB, NEW k \in Keys, NEW r \in Record
  PROVE  LET w == Write(d, k, r)
         IN  /\ w \in DB
             /\ w.cursor = d.cursor + 1
             /\ w.records = [d.records EXCEPT ![k] = r]
             /\ w.changes = Append(d.changes, [cursor |-> d.cursor + 1, key |-> k, record |-> r])
             /\ w.operations = d.operations
             /\ Len(w.changes) = Len(d.changes) + 1
             /\ \A i \in 1 .. Len(d.changes) : w.changes[i] = d.changes[i]
             /\ w.changes[Len(d.changes) + 1]
                  = [cursor |-> d.cursor + 1, key |-> k, record |-> r]
<1> DEFINE c == [cursor |-> d.cursor + 1, key |-> k, record |-> r]
<1>1. d.cursor \in Nat /\ d.records \in [Keys -> Record] /\ d.changes \in Seq(Change)
      /\ Len(d.changes) \in Nat
  BY DEF DB
<1>2. c \in Change
  BY <1>1 DEF Change
<1>3. Write(d, k, r) = [cursor |-> d.cursor + 1, records |-> [d.records EXCEPT ![k] = r],
                        changes |-> Append(d.changes, c), operations |-> d.operations]
  BY DEF Write
<1> HIDE DEF c
<1>4. /\ Append(d.changes, c) \in Seq(Change)
      /\ Len(Append(d.changes, c)) = Len(d.changes) + 1
      /\ \A i \in 1 .. Len(d.changes) : Append(d.changes, c)[i] = d.changes[i]
      /\ Append(d.changes, c)[Len(d.changes) + 1] = c
  BY <1>1, <1>2
<1>5. [d.records EXCEPT ![k] = r] \in [Keys -> Record]
  BY <1>1
<1>6. d.operations \in SUBSET Entry /\ d.cursor + 1 \in Nat
  BY <1>1 DEF DB
<1> QED BY <1>3, <1>4, <1>5, <1>6 DEF DB, c

(* A new operation writes the next version of its record and its entry. *)
LEMMA AppliedNew ==
  ASSUME NEW d \in DB, NEW op \in Operation, ~Replayed(d, op)
  PROVE  LET a == Applied(d, op)
             w == Write(d, op.key, NextRecord(op, d.records[op.key]))
         IN  /\ a \in DB
             /\ a.cursor = w.cursor
             /\ a.records = w.records
             /\ a.changes = w.changes
             /\ a.operations = d.operations \cup {[op |-> op, result |-> Result(d, op)]}
<1> DEFINE w == Write(d, op.key, NextRecord(op, d.records[op.key]))
           e == [op |-> op, result |-> Result(d, op)]
<1>1. op.key \in Keys /\ d.records[op.key] \in Record
  BY DEF Operation, DB
<1>2. w \in DB
  BY <1>1, NextRecordType, WriteType
<1>3. e \in Entry
  BY ResultType, SMTT(30) DEF Entry
<1>4. Applied(d, op) = [w EXCEPT !.operations = d.operations \cup {e}]
  BY DEF Applied
<1>5. d.operations \cup {e} \in SUBSET Entry
  BY <1>3 DEF DB
<1> HIDE DEF w, e
<1> QED BY <1>2, <1>4, <1>5 DEF DB, w, e

-----------------------------------------------------------------------------

(* Writing the next revision of a record keeps the change log in agreement *)
(* with the records; it does not matter who writes it.                     *)
LEMMA WriteKeepsLog ==
  ASSUME NEW d \in DB, NEW k \in Keys, NEW r \in Record,
         LogMatchesRecords(d), r.revision = d.records[k].revision + 1
  PROVE  LogMatchesRecords(Write(d, k, r))
<1> DEFINE w == Write(d, k, r)
           n == Len(d.changes)
           c == [cursor |-> d.cursor + 1, key |-> k, record |-> r]
<1>1. /\ w \in DB /\ w.cursor = d.cursor + 1
      /\ w.records = [d.records EXCEPT ![k] = r]
      /\ Len(w.changes) = n + 1
      /\ \A i \in 1 .. n : w.changes[i] = d.changes[i]
      /\ w.changes[n + 1] = c
  BY WriteType
<1>2. d.records \in [Keys -> Record] /\ n \in Nat /\ d.changes \in Seq(Change)
  BY DEF DB
<1>3. \A i \in 1 .. n : d.changes[i] \in Change
  BY <1>2
<1>4. c.cursor = d.cursor + 1 /\ c.key = k /\ c.record = r
  OBVIOUS
<1>5. d.cursor = n /\ \A i \in 1 .. n : d.changes[i].cursor = i
  BY DEF LogMatchesRecords, CursorsContiguous
<1>6. r.revision \in Nat /\ d.records[k].revision \in Nat
  BY <1>2 DEF Record
<1> HIDE DEF w, n, c
<1>7. CursorsContiguous(w)
  BY <1>1, <1>2, <1>4, <1>5 DEF CursorsContiguous
<1>8. NewestChangeIsRecord(w)
  <2> SUFFICES ASSUME NEW q \in Keys
               PROVE  \/ w.records[q].revision = 0
                         /\ \A i \in 1 .. Len(w.changes) : w.changes[i].key # q
                      \/ \E i \in 1 .. Len(w.changes) :
                           /\ w.changes[i].key = q
                           /\ w.changes[i].record = w.records[q]
                           /\ \A j \in 1 .. Len(w.changes) : j > i => w.changes[j].key # q
    BY DEF NewestChangeIsRecord
  <2>1. CASE q = k
    BY <2>1, <1>1, <1>2, <1>4
  <2>2. CASE q # k
    <3>1. w.records[q] = d.records[q] /\ w.changes[n + 1].key # q
      BY <2>2, <1>1, <1>2, <1>4
    <3>2. \/ d.records[q].revision = 0 /\ \A i \in 1 .. n : d.changes[i].key # q
          \/ \E i \in 1 .. n : /\ d.changes[i].key = q
                               /\ d.changes[i].record = d.records[q]
                              /\ \A j \in 1 .. n : j > i => d.changes[j].key # q
      BY DEF LogMatchesRecords, NewestChangeIsRecord, n
    <3> QED BY <3>1, <3>2, <1>1, <1>2
  <2> QED BY <2>1, <2>2
<1>9. RevisionsIncrease(w)
  <2>1. \A i, j \in 1 .. n :
          /\ d.changes[i].record.revision <= d.records[d.changes[i].key].revision
          /\ i < j /\ d.changes[i].key = d.changes[j].key
               => d.changes[i].record.revision < d.changes[j].record.revision
    BY DEF LogMatchesRecords, RevisionsIncrease, n
  <2>2. \A i \in 1 .. n : /\ d.changes[i].record.revision \in Nat
                          /\ d.changes[i].key \in Keys
                          /\ d.records[d.changes[i].key].revision \in Nat
    BY <1>2, <1>3 DEF Change, Record
  <2>3. \A i \in 1 .. Len(w.changes) :
          w.changes[i].record.revision <= w.records[w.changes[i].key].revision
    <3> SUFFICES ASSUME NEW i \in 1 .. Len(w.changes)
                 PROVE  w.changes[i].record.revision <= w.records[w.changes[i].key].revision
      OBVIOUS
    <3>1. CASE i = n + 1
      BY <3>1, <1>1, <1>2, <1>4, <1>6
    <3>2. CASE i # n + 1 /\ d.changes[i].key = k
      <4>1. i \in 1 .. n /\ w.changes[i] = d.changes[i]
        BY <3>2, <1>1, <1>2
      <4>2. w.records[k] = r
        BY <1>1, <1>2
      <4> QED BY <4>1, <4>2, <3>2, <2>1, <2>2, <1>6, SMTT(30)
    <3>3. CASE i # n + 1 /\ d.changes[i].key # k
      <4>1. i \in 1 .. n /\ w.changes[i] = d.changes[i]
        BY <3>3, <1>1, <1>2
      <4>2. w.records[d.changes[i].key] = d.records[d.changes[i].key]
        BY <4>1, <3>3, <1>1, <1>2, <2>2
      <4> QED BY <4>1, <4>2, <2>1
    <3> QED BY <3>1, <3>2, <3>3
  <2>4. \A i, j \in 1 .. Len(w.changes) :
          i < j /\ w.changes[i].key = w.changes[j].key
            => w.changes[i].record.revision < w.changes[j].record.revision
    <3> SUFFICES ASSUME NEW i \in 1 .. Len(w.changes), NEW j \in 1 .. Len(w.changes),
                        i < j, w.changes[i].key = w.changes[j].key
                 PROVE  w.changes[i].record.revision < w.changes[j].record.revision
      OBVIOUS
    <3>1. i \in 1 .. n /\ w.changes[i] = d.changes[i]
      BY <1>1, <1>2
    <3>2. CASE j \in 1 .. n
      BY <3>1, <3>2, <1>1, <2>1
    <3>3. CASE j = n + 1
      <4>1. d.changes[i].key = k /\ w.changes[j].record = r
        BY <3>1, <3>3, <1>1, <1>4
      <4> QED BY <4>1, <3>1, <2>1, <2>2, <1>6, SMTT(30)
    <3> QED BY <3>2, <3>3, <1>1, <1>2, SMTT(30)
  <2> QED BY <2>3, <2>4 DEF RevisionsIncrease
<1> QED BY <1>7, <1>8, <1>9 DEF LogMatchesRecords, w

(* The facts about a new, unrefused operation that the next lemmas share:  *)
(* n counts the changes before it, r is the record it meets, q the one it  *)
(* leaves, and e its entry.                                                *)
LEMMA NewOperationFacts ==
  ASSUME NEW d \in DB, NEW op \in Operation, ~Replayed(d, op), ~Refused(d, op)
  PROVE  LET a == Applied(d, op)
             n == Len(d.changes)
             r == d.records[op.key]
             q == NextRecord(op, r)
             e == [op |-> op, result |-> Result(d, op)]
         IN  /\ a \in DB /\ a.records = [d.records EXCEPT ![op.key] = q]
             /\ a.operations = d.operations \cup {e}
             /\ n \in Nat /\ Len(a.changes) = n + 1
             /\ \A i \in 1 .. n : a.changes[i] = d.changes[i]
             /\ a.changes[n + 1].key = op.key /\ a.changes[n + 1].record = q
             /\ op.key \in Keys /\ r \in Record /\ q \in Record
             /\ q.revision = r.revision + 1
             /\ e \in Entry /\ e.op = op /\ e.result.revision = r.revision + 1
             /\ e.result.conflict = Conflicts(op, r)
             /\ \A f \in d.operations : f.op.id # op.id
             /\ op.base <= r.revision /\ Len(Kept(op, r)) < MaxCandidates
<1> DEFINE n == Len(d.changes)
           r == d.records[op.key]
           q == NextRecord(op, r)
           w == Write(d, op.key, q)
<1>1. op.key \in Keys /\ r \in Record
  BY DEF Operation, DB
<1>2. q \in Record /\ q.revision = r.revision + 1
      /\ Kept(op, r) \in Seq(Candidate)
  BY <1>1, NextRecordType
<1>3. /\ w \in DB /\ w.records = [d.records EXCEPT ![op.key] = q]
      /\ Len(w.changes) = n + 1
      /\ \A i \in 1 .. n : w.changes[i] = d.changes[i]
      /\ w.changes[n + 1] = [cursor |-> d.cursor + 1, key |-> op.key, record |-> q]
  BY <1>1, <1>2, WriteType
<1>4. /\ Applied(d, op) \in DB
      /\ Applied(d, op).records = w.records
      /\ Applied(d, op).changes = w.changes
      /\ Applied(d, op).operations = d.operations \cup {[op |-> op, result |-> Result(d, op)]}
  BY AppliedNew
<1>5. Result(d, op) = [id |-> op.id, revision |-> r.revision + 1, conflict |-> Conflicts(op, r)]
  BY DEF Result
<1>6. [op |-> op, result |-> Result(d, op)] \in Entry
  BY ResultType DEF Entry
<1>7. \A f \in d.operations : f.op.id # op.id
  BY DEF Refused, Recorded, Replayed
<1>8. ~(op.base > r.revision) /\ ~(Len(Kept(op, r)) >= MaxCandidates)
  BY <1>7 DEF Refused, Recorded
<1>9. op.base \in Nat /\ r.revision \in Nat /\ Len(Kept(op, r)) \in Nat /\ n \in Nat
  BY <1>1, <1>2 DEF Operation, Record, DB
<1>10. op.base <= r.revision /\ Len(Kept(op, r)) < MaxCandidates
  BY <1>8, <1>9, StoreAssumption
<1>11. Applied(d, op).changes[n + 1].key = op.key /\ Applied(d, op).changes[n + 1].record = q
  BY <1>3, <1>4
<1>12. Len(Applied(d, op).changes) = n + 1 /\ \A i \in 1 .. n : Applied(d, op).changes[i] = d.changes[i]
  BY <1>3, <1>4
<1>13. Applied(d, op).records = [d.records EXCEPT ![op.key] = q]
  BY <1>3, <1>4
<1> HIDE DEF n, r, q, w
<1> QED BY <1>1, <1>2, <1>4, <1>5, <1>6, <1>7, <1>9, <1>10, <1>11, <1>12, <1>13 DEF n, r, q

(* A new operation makes one change and takes nobody else's id. *)
LEMMA AppliedKeepsOneEffect ==
  ASSUME NEW d \in DB, NEW op \in Operation, ~Replayed(d, op), ~Refused(d, op),
         OneEffect(d), ChangesFromOperations(d)
  PROVE  OneEffect(Applied(d, op)) /\ ChangesFromOperations(Applied(d, op))
<1> DEFINE a == Applied(d, op)
           n == Len(d.changes)
           r == d.records[op.key]
           q == NextRecord(op, r)
           e == [op |-> op, result |-> Result(d, op)]
           tailId(c) == c.record.candidates[Len(c.record.candidates)].op
<1>1. /\ a \in DB /\ a.records = [d.records EXCEPT ![op.key] = q]
      /\ a.operations = d.operations \cup {e}
      /\ n \in Nat /\ Len(a.changes) = n + 1
      /\ \A i \in 1 .. n : a.changes[i] = d.changes[i]
      /\ a.changes[n + 1].key = op.key /\ a.changes[n + 1].record = q
      /\ op.key \in Keys /\ r \in Record /\ q \in Record
      /\ q.revision = r.revision + 1
      /\ e \in Entry /\ e.op = op /\ e.result.revision = r.revision + 1
      /\ e.result.conflict = Conflicts(op, r)
      /\ \A f \in d.operations : f.op.id # op.id
      /\ op.base <= r.revision /\ Len(Kept(op, r)) < MaxCandidates
  BY NewOperationFacts, Zenon
<1>2. /\ q.candidates # <<>>
      /\ q.candidates[Len(q.candidates)].op = op.id
  <2>1. Kept(op, r) \in Seq(Candidate) /\ Len(q.candidates) = Len(Kept(op, r)) + 1
        /\ q.candidates[Len(Kept(op, r)) + 1].op = op.id
    BY <1>1, NextRecordType
  <2> HIDE DEF q
  <2> QED BY <2>1
<1>3. tailId(a.changes[n + 1]) = op.id
  BY <1>1, <1>2
<1>4. \A i \in 1 .. n : /\ d.changes[i].record.candidates # <<>>
                        /\ \E f \in d.operations : f.op.id = tailId(d.changes[i])
  BY DEF ChangesFromOperations
<1>5. \A i \in 1 .. n : tailId(a.changes[i]) # op.id
                       /\ tailId(a.changes[i]) = tailId(d.changes[i])
  BY <1>1, <1>4
<1>6. \A f \in d.operations : \E i \in 1 .. n :
        /\ d.changes[i].key = f.op.key
        /\ d.changes[i].record.revision = f.result.revision
        /\ tailId(d.changes[i]) = f.op.id
        /\ \A j \in 1 .. n : j # i => tailId(d.changes[j]) # f.op.id
  BY DEF OneEffect
<1>7. \A f, g \in d.operations : f.op.id = g.op.id => f = g
  BY DEF OneEffect
<1> HIDE DEF a, n, r, q, e
<1>8. \A f, g \in a.operations : f.op.id = g.op.id => f = g
  BY <1>1, <1>7
<1>9. \A f \in a.operations : \E i \in 1 .. n + 1 :
        /\ a.changes[i].key = f.op.key
        /\ a.changes[i].record.revision = f.result.revision
        /\ tailId(a.changes[i]) = f.op.id
        /\ \A j \in 1 .. n + 1 : j # i => tailId(a.changes[j]) # f.op.id
  <2> HIDE DEF tailId
  <2> SUFFICES ASSUME NEW f \in a.operations
               PROVE  \E i \in 1 .. n + 1 :
                        /\ a.changes[i].key = f.op.key
                        /\ a.changes[i].record.revision = f.result.revision
                        /\ tailId(a.changes[i]) = f.op.id
                        /\ \A j \in 1 .. n + 1 : j # i => tailId(a.changes[j]) # f.op.id
    OBVIOUS
  <2>1. CASE f = e
    <3>1. \A j \in 1 .. n + 1 : j # n + 1 => tailId(a.changes[j]) # f.op.id
      BY <2>1, <1>1, <1>5
    <3>2. n + 1 \in 1 .. n + 1 /\ q.revision = f.result.revision /\ f.op = op
      BY <2>1, <1>1
    <3> QED BY <3>1, <3>2, <1>1, <1>3
  <2>2. CASE f \in d.operations
    <3>1. PICK i \in 1 .. n : /\ d.changes[i].key = f.op.key
                              /\ d.changes[i].record.revision = f.result.revision
                              /\ tailId(d.changes[i]) = f.op.id
                              /\ \A j \in 1 .. n : j # i => tailId(d.changes[j]) # f.op.id
      BY <2>2, <1>6
    <3>2. i \in 1 .. n + 1 /\ a.changes[i] = d.changes[i]
      BY <1>1
    <3>3. \A j \in 1 .. n + 1 : j # i => tailId(a.changes[j]) # f.op.id
      BY <3>1, <2>2, <1>1, <1>3, <1>5
    <3> QED BY <3>1, <3>2, <3>3
  <2> QED BY <2>1, <2>2, <1>1
<1>10. OneEffect(a)
  BY <1>1, <1>8, <1>9 DEF OneEffect
<1>11. ChangesFromOperations(a)
  <2>1. \A i \in 1 .. n + 1 :
          /\ a.changes[i].record.candidates # <<>>
          /\ \E f \in a.operations : f.op.id = tailId(a.changes[i])
    <3> SUFFICES ASSUME NEW i \in 1 .. n + 1
                 PROVE  /\ a.changes[i].record.candidates # <<>>
                        /\ \E f \in a.operations : f.op.id = tailId(a.changes[i])
      OBVIOUS
    <3>1. CASE i = n + 1
      BY <3>1, <1>1, <1>2, <1>3
    <3>2. CASE i \in 1 .. n
      BY <3>2, <1>1, <1>4, <1>5
    <3> QED BY <3>1, <3>2, <1>1
  <2> QED BY <2>1, <1>1 DEF ChangesFromOperations
<1> QED BY <1>10, <1>11 DEF a

(* A new operation makes nobody's edit disappear that it did not have in   *)
(* its base, and leaves its own as a candidate.                            *)
LEMMA AppliedLosesNothing ==
  ASSUME NEW d \in DB, NEW op \in Operation, ~Replayed(d, op), ~Refused(d, op),
         NothingLost(d), AnswersWithinRecords(d)
  PROVE  /\ NothingLost(Applied(d, op))
         /\ AnswersWithinRecords(Applied(d, op))
<1> DEFINE a == Applied(d, op)
           n == Len(d.changes)
           r == d.records[op.key]
           q == NextRecord(op, r)
           e == [op |-> op, result |-> Result(d, op)]
           kept == Kept(op, r)
<1>1. /\ a \in DB /\ a.records = [d.records EXCEPT ![op.key] = q]
      /\ a.operations = d.operations \cup {e}
      /\ n \in Nat /\ Len(a.changes) = n + 1
      /\ \A i \in 1 .. n : a.changes[i] = d.changes[i]
      /\ a.changes[n + 1].key = op.key /\ a.changes[n + 1].record = q
      /\ op.key \in Keys /\ r \in Record /\ q \in Record
      /\ q.revision = r.revision + 1
      /\ e \in Entry /\ e.op = op /\ e.result.revision = r.revision + 1
      /\ e.result.conflict = Conflicts(op, r)
      /\ \A f \in d.operations : f.op.id # op.id
      /\ op.base <= r.revision /\ Len(Kept(op, r)) < MaxCandidates
  BY NewOperationFacts, Zenon
<1>2. /\ kept \in Seq(Candidate) /\ Len(kept) \in Nat
      /\ Len(q.candidates) = Len(kept) + 1
      /\ \A i \in 1 .. Len(kept) : q.candidates[i] = kept[i]
      /\ q.candidates[Len(kept) + 1].op = op.id
  BY <1>1, NextRecordType
<1>3. /\ d.records \in [Keys -> Record] /\ d.operations \subseteq Entry
      /\ r.revision \in Nat
  BY <1>1 DEF DB, Record
<1>4. a.records[op.key] = q /\ \A k \in Keys : k # op.key => a.records[k] = d.records[k]
  BY <1>1, <1>3
<1>5. \A f \in d.operations : /\ f.op.key \in Keys
                              /\ f.result.revision \in Nat
                             /\ f.result.revision <= d.records[f.op.key].revision
                             /\ d.records[f.op.key].revision \in Nat
  BY <1>3 DEF Entry, Operation, OperationResult, AnswersWithinRecords, Record
<1>6. kept = IF Conflicts(op, r) THEN r.candidates ELSE <<>>
  BY DEF Kept
<1>7. ~Conflicts(op, r) => op.base = r.revision
  BY DEF Conflicts
<1> HIDE DEF a, q, e, kept
<1>8. NothingLost(a)
  <2> SUFFICES ASSUME NEW f \in a.operations
               PROVE  Present(a, f) \/ Resolved(a, f)
    BY DEF NothingLost
  <2>1. CASE f = e
    BY <2>1, <1>1, <1>2, <1>4 DEF Present
  <2>2. CASE f \in d.operations /\ Resolved(d, f)
    BY <2>2, <1>1 DEF Resolved
  <2>3. CASE f \in d.operations /\ Present(d, f) /\ f.op.key # op.key
    BY <2>3, <1>4, <1>5 DEF Present
  <2>4. CASE f \in d.operations /\ Present(d, f) /\ f.op.key = op.key /\ Conflicts(op, r)
    <3>1. PICK i \in 1 .. Len(r.candidates) : r.candidates[i].op = f.op.id
      BY <2>4 DEF Present
    <3>2. i \in 1 .. Len(q.candidates) /\ q.candidates[i] = r.candidates[i]
      BY <3>1, <2>4, <1>2, <1>6
    <3> QED BY <3>1, <3>2, <2>4, <1>4 DEF Present
  <2>5. CASE f \in d.operations /\ f.op.key = op.key /\ ~Conflicts(op, r)
    <3>1. e.op.key = f.op.key /\ ~e.result.conflict /\ e.op.base >= f.result.revision
      BY <2>5, <1>1, <1>3, <1>5, <1>7
    <3> QED BY <3>1, <1>1 DEF Resolved
  <2> QED BY <2>1, <2>2, <2>3, <2>4, <2>5, <1>1 DEF NothingLost
<1>9. AnswersWithinRecords(a)
  <2> SUFFICES ASSUME NEW f \in a.operations
               PROVE  f.result.revision <= a.records[f.op.key].revision
    BY DEF AnswersWithinRecords
  <2>1. CASE f = e
    BY <2>1, <1>1, <1>3, <1>4
  <2>2. CASE f \in d.operations /\ f.op.key = op.key
    BY <2>2, <1>1, <1>3, <1>4, <1>5
  <2>3. CASE f \in d.operations /\ f.op.key # op.key
    BY <2>3, <1>4, <1>5
  <2> QED BY <2>1, <2>2, <2>3, <1>1
<1> QED BY <1>8, <1>9 DEF a

(* An accepted operation finds room for its candidate. *)
LEMMA AppliedKeepsCapacity ==
  ASSUME NEW d \in DB, NEW op \in Operation, ~Replayed(d, op), ~Refused(d, op),
         Capacity(d)
  PROVE  Capacity(Applied(d, op))
<1> DEFINE a == Applied(d, op)
           n == Len(d.changes)
           r == d.records[op.key]
           q == NextRecord(op, r)
           e == [op |-> op, result |-> Result(d, op)]
           kept == Kept(op, r)
<1>1. /\ a \in DB /\ a.records = [d.records EXCEPT ![op.key] = q]
      /\ a.operations = d.operations \cup {e}
      /\ n \in Nat /\ Len(a.changes) = n + 1
      /\ \A i \in 1 .. n : a.changes[i] = d.changes[i]
      /\ a.changes[n + 1].key = op.key /\ a.changes[n + 1].record = q
      /\ op.key \in Keys /\ r \in Record /\ q \in Record
      /\ q.revision = r.revision + 1
      /\ e \in Entry /\ e.op = op /\ e.result.revision = r.revision + 1
      /\ e.result.conflict = Conflicts(op, r)
      /\ \A f \in d.operations : f.op.id # op.id
      /\ op.base <= r.revision /\ Len(Kept(op, r)) < MaxCandidates
  BY NewOperationFacts, Zenon
<1>2. /\ kept \in Seq(Candidate) /\ Len(kept) \in Nat
      /\ Len(q.candidates) = Len(kept) + 1
      /\ \A i \in 1 .. Len(kept) : q.candidates[i] = kept[i]
      /\ q.candidates[Len(kept) + 1].op = op.id
  BY <1>1, NextRecordType
<1>3. d.records \in [Keys -> Record]
  BY DEF DB
<1>4. a.records[op.key] = q /\ \A k \in Keys : k # op.key => a.records[k] = d.records[k]
  BY <1>1, <1>3
<1> HIDE DEF a, q, e, kept
<1>5. Capacity(a)
  <2> SUFFICES ASSUME NEW k \in Keys
               PROVE  Len(a.records[k].candidates) <= MaxCandidates
    BY DEF Capacity
  <2>1. CASE k = op.key
    <3>1. Len(kept) < MaxCandidates /\ MaxCandidates \in Nat
      BY <1>1, StoreAssumption DEF kept
    <3> QED BY <3>1, <2>1, <1>2, <1>4
  <2>2. CASE k # op.key
    BY <2>2, <1>4 DEF Capacity
  <2> QED BY <2>1, <2>2
<1> QED BY <1>5 DEF a

-----------------------------------------------------------------------------
(* Pages                                                                   *)

(* A set of numbers without a least missing element is all of them. *)
LEMMA Induction ==
  ASSUME NEW T, 0 \in T, \A n \in Nat : n \in T => n + 1 \in T
  PROVE  \A n \in Nat : n \in T
<1> DEFINE R == OpToRel(<, Nat)
           B == Nat \ T
<1>1. IsWellFoundedOn(R, Nat)
  BY NatLessThanWellFounded
<1>2. \A m, n \in Nat : m < n => <<m, n>> \in R
  BY DEF OpToRel
<1> SUFFICES ASSUME B # {} PROVE FALSE
  OBVIOUS
<1> HIDE DEF R
<1>3. PICK x \in B : \A y \in B : ~(<<y, x>> \in R)
  <2>1. B \subseteq Nat
    OBVIOUS
  <2> HIDE DEF B
  <2> QED BY <1>1, <2>1, WFMin
<1>4. x \in Nat /\ x # 0
  BY <1>3
<1>5. x - 1 \in Nat /\ x - 1 < x
  BY <1>4
<1>6. x - 1 \in T
  BY <1>2, <1>3, <1>4, <1>5
<1>7. (x - 1) + 1 \in T
  BY <1>5, <1>6
<1> QED BY <1>3, <1>4, <1>7

(* Selecting the places from n + 1 on yields the rest of the sequence. *)
LEMMA SelectedRest ==
  ASSUME NEW S, NEW s \in Seq(S), NEW I, NEW n \in 0 .. Len(s),
         \A i \in 1 .. Len(s) : i \in I <=> i > n
  PROVE  Selected(s, I) = SubSeq(s, n + 1, Len(s))
<1> DEFINE Equation(h) == h = [i \in 0 .. Len(s) |->
                                 IF i = 0 THEN <<>>
                                 ELSE IF i \in I THEN Append(h[i - 1], s[i]) ELSE h[i - 1]]
           g == CHOOSE h : Equation(h)
           f == [i \in 0 .. Len(s) |-> IF i <= n THEN <<>> ELSE SubSeq(s, n + 1, i)]
<1>0. Len(s) \in Nat /\ n \in Nat
  OBVIOUS
<1>1. \A i \in 0 .. Len(s) :
        f[i] = IF i = 0 THEN <<>>
               ELSE IF i \in I THEN Append(f[i - 1], s[i]) ELSE f[i - 1]
  <2> TAKE i \in 0 .. Len(s)
  <2>1. CASE i <= n
    <3>1. i = 0 \/ (i - 1 \in 0 .. Len(s) /\ i - 1 <= n /\ i \notin I)
      BY <2>1, <1>0
    <3> QED BY <2>1, <3>1
  <2>2. CASE i = n + 1
    <3>1. i \in 1 .. Len(s) /\ i - 1 \in 0 .. Len(s) /\ i - 1 <= n /\ i \in I /\ i # 0
          /\ ~(i <= n)
      BY <2>2, <1>0
    <3>2. f[i] = SubSeq(s, i, i) /\ f[i - 1] = <<>>
      BY <2>2, <3>1
    <3>3. SubSeq(s, i, i) = <<s[i]>>
      <4>1. i \in Int /\ \A j \in i .. i : s[j] \in S
        BY <3>1
      <4>2. /\ SubSeq(s, i, i) \in Seq(S)
            /\ Len(SubSeq(s, i, i)) = IF i <= i THEN i - i + 1 ELSE 0
            /\ \A j \in 1 .. i - i + 1 : SubSeq(s, i, i)[j] = s[i + j - 1]
        BY <4>1, SubSeqProperties
      <4> DEFINE t == SubSeq(s, i, i)
      <4> HIDE DEF t
      <4>3. t \in Seq(S) /\ Len(t) = 1 /\ t[1] = s[i]
        BY <3>1, <4>2 DEF t
      <4>4. t = <<s[i]>>
        BY <4>3
      <4> QED BY <4>4 DEF t
    <3>4. Append(<<>>, s[i]) = <<s[i]>>
      OBVIOUS
    <3> HIDE DEF f
    <3> QED BY <3>1, <3>2, <3>3, <3>4
  <2>3. CASE i > n + 1
    <3>1. i \in 1 .. Len(s) /\ i - 1 \in 0 .. Len(s) /\ i \in I /\ i # 0
          /\ ~(i <= n) /\ ~(i - 1 <= n) /\ n + 1 \in 1 .. Len(s) /\ i \in n + 1 .. Len(s)
      BY <2>3, <1>0
    <3>2. f[i] = SubSeq(s, n + 1, i) /\ f[i - 1] = SubSeq(s, n + 1, i - 1)
      BY <3>1
    <3> DEFINE a == SubSeq(s, n + 1, i - 1)
    <3>3. SubSeq(s, n + 1, i) = a \o <<s[i]>>
      BY <3>1, SubSeqRecursiveSecond
    <3>4. a \in Seq(S) /\ s[i] \in S
      BY <3>1, <1>0
    <3> HIDE DEF a, f
    <3>5. a \o <<s[i]>> = Append(a, s[i])
      BY <3>4
    <3> QED BY <3>1, <3>2, <3>3, <3>5 DEF a
  <2> QED BY <1>0, <2>1, <2>2, <2>3
<1>2. Equation(f)
  <2>1. f = [i \in 0 .. Len(s) |-> f[i]]
    OBVIOUS
  <2> HIDE DEF f
  <2> QED BY <1>1, <2>1
<1>3. Equation(g)
  <2> HIDE DEF Equation
  <2> QED BY <1>2
<1>4. Selected(s, I) = g[Len(s)]
  BY DEF Selected
<1>5. \A i \in 0 .. Len(s) :
        g[i] = IF i = 0 THEN <<>>
               ELSE IF i \in I THEN Append(g[i - 1], s[i]) ELSE g[i - 1]
  <2> HIDE DEF g
  <2> QED BY <1>3
<1> HIDE DEF g, f, Equation
<1> DEFINE T == {i \in Nat : i <= Len(s) => g[i] = f[i]}
<1>6. 0 \in T
  BY <1>0, <1>1, <1>5
<1>7. ASSUME NEW i \in Nat, i \in T PROVE i + 1 \in T
  <2>1. CASE i + 1 <= Len(s)
    <3>1. i + 1 \in 0 .. Len(s) /\ (i + 1) - 1 = i /\ i <= Len(s) /\ i + 1 # 0
      BY <2>1, <1>0
    <3>2. g[i] = f[i]
      BY <1>7, <3>1
    <3> QED BY <1>1, <1>5, <3>1, <3>2
  <2> QED BY <2>1, <1>0
<1>8. \A i \in Nat : i \in T
  <2> HIDE DEF T
  <2> QED BY <1>6, <1>7, Induction
<1>9. g[Len(s)] = f[Len(s)]
  BY <1>0, <1>8
<1>10. f[Len(s)] = SubSeq(s, n + 1, Len(s))
  <2>1. CASE Len(s) <= n
    <3>1. Len(s) < n + 1 /\ n + 1 \in Int /\ Len(s) \in Int
      BY <2>1, <1>0
    <3>2. SubSeq(s, n + 1, Len(s)) = <<>>
      BY <3>1, SubSeqEmpty
    <3> QED BY <2>1, <3>2, <1>0 DEF f
  <2>2. CASE ~(Len(s) <= n)
    BY <2>2, <1>0 DEF f
  <2> QED BY <2>1, <2>2
<1> QED BY <1>4, <1>9, <1>10

(* A page is the part of the log after the given cursor, cut at the limit  *)
(* (p is its length), and its cursor is that of its last change.           *)
LEMMA PageIs ==
  ASSUME NEW d \in DB, CursorsContiguous(d), NEW since \in 0 .. d.cursor
  PROVE  LET page == Page(d, since)
         IN  /\ page \in Seq(Change)
             /\ PageCursor(d, since) = since + Len(page)
             /\ since + Len(page) <= Len(d.changes)
             /\ \A i \in 1 .. Len(page) : page[i] = d.changes[since + i]
<1> DEFINE n == Len(d.changes)
           newer == SubSeq(d.changes, since + 1, n)
           page == Page(d, since)
           p == IF n - since < PageSize THEN n - since ELSE PageSize
<1>1. /\ d.changes \in Seq(Change) /\ n \in Nat /\ since \in 0 .. n
      /\ \A i \in 1 .. n : d.changes[i].cursor = i
      /\ PageSize \in Nat
  BY StoreAssumption DEF DB, CursorsContiguous
<1>2. Selected(d.changes, Newer(d, since)) = newer
  <2>1. \A i \in 1 .. n : i \in Newer(d, since) <=> i > since
    BY <1>1 DEF Newer
  <2> QED BY <1>1, <2>1, SelectedRest
<1>3. newer \in Seq(Change) /\ Len(newer) = n - since
      /\ \A i \in 1 .. n - since : newer[i] = d.changes[since + i]
  <2>1. \A i \in since + 1 .. n : d.changes[i] \in Change
    BY <1>1
  <2>2. since + 1 \in Int /\ n \in Int
    BY <1>1
  <2>3. /\ newer \in Seq(Change)
        /\ Len(newer) = IF since + 1 <= n THEN n - (since + 1) + 1 ELSE 0
        /\ \A i \in 1 .. n - (since + 1) + 1 : newer[i] = d.changes[since + 1 + i - 1]
    BY <2>1, <2>2, SubSeqProperties
  <2> HIDE DEF newer
  <2>4. \A i \in 1 .. n - since :
          i \in 1 .. n - (since + 1) + 1 /\ since + 1 + i - 1 = since + i
    BY <1>1
  <2>5. \A i \in 1 .. n - since : newer[i] = d.changes[since + i]
    BY <2>3, <2>4
  <2>6. Len(newer) = n - since
    BY <1>1, <2>3
  <2> QED BY <2>3, <2>5, <2>6
<1>4. page = SubSeq(newer, 1, p)
  BY <1>2, <1>3 DEF Page
<1> HIDE DEF newer
<1>5. p \in Nat /\ p <= n - since
  BY <1>1
<1> HIDE DEF p
<1>6. page \in Seq(Change) /\ Len(page) = p /\ \A i \in 1 .. p : page[i] = newer[i]
  BY <1>1, <1>3, <1>4, <1>5
<1>7. \A i \in 1 .. p : page[i] = d.changes[since + i]
  <2>1. \A i \in 1 .. p : i \in 1 .. n - since
    BY <1>1, <1>5
  <2> QED BY <1>3, <1>6, <2>1
<1>8. PageCursor(d, since) = since + p
  <2>1. PageCursor(d, since) = IF page = <<>> THEN since ELSE page[Len(page)].cursor
    BY DEF PageCursor
  <2> HIDE DEF page
  <2>2. CASE p = 0
    BY <2>1, <2>2, <1>1, <1>6
  <2>3. CASE p # 0
    <3>1. p \in 1 .. p /\ since + p \in 1 .. n /\ page # <<>>
      BY <2>3, <1>1, <1>5, <1>6
    <3> QED BY <2>1, <3>1, <1>1, <1>6, <1>7
  <2> QED BY <2>2, <2>3
<1> QED BY <1>1, <1>5, <1>6, <1>7, <1>8
=============================================================================
