---------------------------- MODULE MCRecordSync ----------------------------
(***************************************************************************)
(* Small instances of RecordSync.  One book and one annotation, three      *)
(* operation ids: every interleaving of up to three accepted operations,   *)
(* stale, current and future base revisions, reused ids and full records.  *)
(***************************************************************************)
EXTENDS RecordSync

CONSTANTS Book, Note, MaxBase, FolderA, FolderB, FolderC

Plain == Blank(CHOOSE b \in Bodies : TRUE)

OperationsOn(key, values, deletions) ==
  [id : OpIds, key : {key}, base : 0 .. MaxBase, deleted : {FALSE}, value : values]
  \cup [id : OpIds, key : {key}, base : 0 .. MaxBase, deleted : deletions,
        value : {Plain}]

(* A client that sends folder lists, one that knows only the primary       *)
(* folder, and edits and deletions of a note.                              *)
MCOperations ==
  OperationsOn(Book, {[Plain EXCEPT !.folders = <<FolderA, FolderB, FolderC>>],
                      [Plain EXCEPT !.folder = FolderB]}, {})
  \cup OperationsOn(Note, {Plain}, {TRUE})
=============================================================================
