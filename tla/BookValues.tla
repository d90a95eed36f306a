----------------------------- MODULE BookValues -----------------------------
(***************************************************************************)
(* The values stored in synchronised records, reduced to the fields the    *)
(* server itself reads or rewrites.  A book value carries library          *)
(* membership, its folders and a format; everything else a client puts in  *)
(* a value (title, author, reading position, annotation text) is one       *)
(* opaque body.  A field a client left out of its JSON object is Absent.   *)
(***************************************************************************)
EXTENDS Integers, Sequences, SequencesExt

CONSTANTS Bodies,       \* opaque rest of a value
          Folders,      \* non-empty folder names
          Formats,      \* book formats
          Absent,       \* the field is not in the object
          NoFolder,     \* the empty folder name
          MaxFolders    \* 32: folders per book

ASSUME FolderAssumption ==
  /\ NoFolder \notin Folders
  /\ Absent \notin Folders \cup {NoFolder} \cup Formats \cup BOOLEAN \cup Seq(Folders)
  /\ MaxFolders \in Nat \ {0}

(* Folder lists the server accepts: non-empty names, none twice. *)
FolderLists ==
  {fs \in Seq(Folders) : /\ Len(fs) <= MaxFolders
                         /\ \A i, j \in 1 .. Len(fs) : fs[i] = fs[j] => i = j}

Values == [body : Bodies,
           inLibrary : BOOLEAN \cup {Absent},
           folder : Folders \cup {NoFolder, Absent},
           folders : FolderLists \cup {Absent},
           format : Formats \cup {Absent}]

(* The first folder of a list is the primary one. *)
Primary(fs) == IF fs = <<>> THEN NoFolder ELSE Head(fs)

(* What the operation validator demands of the two folder fields of a book *)
(* value: when both are present the single field names the first entry.    *)
ValidValue(v) ==
  \/ v.folders = Absent
  \/ v.folder \in {Absent, Primary(v.folders)}

(* No value at all: what canonicalBookFolders sees when it is handed nil. *)
Blank(body) == [body |-> body, inLibrary |-> Absent, folder |-> Absent,
                folders |-> Absent, format |-> Absent]

(* Folders of a stored value, whichever of the two fields it has. *)
metadataFolders(v) ==
  CASE v.folders # Absent -> v.folders
    [] v.folders = Absent /\ v.folder \in Folders -> <<v.folder>>
    [] OTHER -> <<>>

(* Lists hold a folder at most once. *)
Without(fs, f) ==
  IF \E i \in 1 .. Len(fs) : fs[i] = f
  THEN RemoveAt(fs, CHOOSE i \in 1 .. Len(fs) : fs[i] = f) ELSE fs

(* A primary-folder edit by a client that knows only the single field: the *)
(* old primary gives way to the new one, the other memberships stay.       *)
MovedTo(folder, fs) ==
  LET others == IF fs = <<>> THEN <<>> ELSE Without(Tail(fs), folder)
  IN  IF folder = NoFolder THEN others ELSE <<folder>> \o others

(* Mutant: a value without a list has no folders but its own field's. *)
NextFoldersAlone(incoming, previous) == metadataFolders(incoming)

(* Folders of the new value given the value it replaces. *)
NextFolders(incoming, previous) ==
  LET kept == metadataFolders(previous)
  IN  IF incoming.folders # Absent THEN incoming.folders
      ELSE IF incoming.folder \in {Absent, Primary(kept)} THEN kept
      ELSE MovedTo(incoming.folder, kept)

canonicalBookFolders(incoming, previous) ==
  LET fs == NextFolders(incoming, previous)
  IN  [incoming EXCEPT !.folders = fs,
                       !.folder = Primary(fs),
                       !.format = IF incoming.format = Absent
                                  THEN previous.format ELSE incoming.format]
=============================================================================
