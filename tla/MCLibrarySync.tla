--------------------------- MODULE MCLibrarySync ---------------------------
(***************************************************************************)
(* One member.  The book states no author and a title that is also its     *)
(* file name, the case in which a scan refreshes its own seed.             *)
(***************************************************************************)
EXTENDS LibrarySync

CONSTANTS FolderA, Given, legacyId, deviceId

MCParsed == [title |-> FileTitle, author |-> NoText]
MCBodies == [title : {FileTitle, Untitled, Given}, author : {NoText}]

Titled(t) == Blank([title |-> t, author |-> NoText])

MCEdits == {[id |-> deviceId, deleted |-> FALSE, value |-> Titled(Given)],
            [id |-> deviceId, deleted |-> FALSE,
             value |-> [Titled(Untitled) EXCEPT !.inLibrary = TRUE]]}
(* A new title, and the file's title with the book put into a folder. *)
MCAdminValues == {Titled(Given)}
OrganizingValues == {[Titled(FileTitle) EXCEPT !.folders = <<FolderA>>]}
MCLegacySeeds == {[op |-> legacyId, deleted |-> FALSE,
                   value |-> canonicalBookFolders(Titled(Untitled), Titled(Untitled))]}

(* Which of the handlers runs which request makes no difference. *)
Symmetry == Permutations(Requests)
=============================================================================
