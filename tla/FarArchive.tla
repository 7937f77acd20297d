----------------------------- MODULE FarArchive -----------------------------
(***************************************************************************)
(* An archive of FileHandler/far/far.c: the doubly linked list of entries  *)
(* far_add_entry builds, far_enumerate_entries which fills it from the     *)
(* index of a file, and the loop of farextract.c over it.  A caller of the *)
(* library may add entries wherever it likes instead (Edit).               *)
(***************************************************************************)
EXTENDS Integers, SequencesExt

CONSTANTS MaxNodes,  \* bound on the nodes the heap has room for
          Positions  \* the positions Edit passes to far_add_entry

ASSUME HeapAssumption == MaxNodes \in Nat /\ Positions \subseteq Int

Nodes == 1..MaxNodes
NULL == 0

VARIABLES
    pc,         \* "created", "edit", "enumerate", "extract", "save", "done", "failed"
    PrevEntry, NextEntry,            \* the links of the nodes
    FirstEntry, LastEntry, Files,    \* the archive
    allocated,  \* nodes that are allocated
    order,      \* history: the nodes as the calls say they are to be ordered
    filescount, \* the number of files the header gives
    added,      \* EntriesAdded
    EntryNode,  \* the node the extraction is at
    buffers,    \* nodes whose DecompressedData is allocated
    visited     \* history: the nodes extracted or skipped

links == <<PrevEntry, NextEntry, FirstEntry, LastEntry, Files, order>>
extraction == <<EntryNode, buffers, visited>>
vars == <<pc, links, allocated, filescount, added, extraction>>

-----------------------------------------------------------------------------
(* far_add_entry *)

\* The node k links on from node n, or the last there is before.
Follow(link, n, k) ==
    LET at[i \in 0..k] == IF i = 0 THEN n
                          ELSE IF link[at[i - 1]] = NULL THEN at[i - 1] ELSE link[at[i - 1]]
    IN at[k]

Smaller(i, j) == IF i < j THEN i ELSE j

\* Bug: node does not learn of the new one.
SpliceOneSided(link, n, node) == [link EXCEPT ![n] = link[node]]

\* n comes between node and the one it is linked to.
Splice(link, n, node) == [link EXCEPT ![n] = link[node], ![node] = n]

\* The first entry.
Alone(n) == /\ FirstEntry' = n /\ LastEntry' = n
            /\ order' = <<n>>
            /\ UNCHANGED <<PrevEntry, NextEntry>>

\* Position counts from the first entry: "Shift this node and all nodes after
\* it above us".
Before(n, Position) ==
    LET node == Follow(NextEntry, FirstEntry, Position)
    IN /\ FirstEntry' = IF PrevEntry[node] = NULL THEN n ELSE FirstEntry
       /\ PrevEntry' = Splice(PrevEntry, n, node)
       /\ NextEntry' = [NextEntry EXCEPT ![n] = node]
       /\ order' = InsertAt(order, 1 + Smaller(Position, Len(order) - 1), n)
       /\ UNCHANGED LastEntry

\* It counts from the last: "Shift this node and all nodes before it below us".
After(n, Position) ==
    LET node == Follow(PrevEntry, LastEntry, -1 - Position)
    IN /\ LastEntry' = IF NextEntry[node] = NULL THEN n ELSE LastEntry
       /\ PrevEntry' = [PrevEntry EXCEPT ![n] = node]
       /\ NextEntry' = Splice(NextEntry, n, node)
       /\ order' = InsertAt(order, Len(order) + 1 - Smaller(-1 - Position, Len(order) - 1), n)
       /\ UNCHANGED FirstEntry

AddEntry(n, Position) == /\ n \notin allocated
                         /\ \/ FirstEntry = NULL /\ Alone(n)
                            \/ FirstEntry # NULL /\ Position >= 0 /\ Before(n, Position)
                            \/ FirstEntry # NULL /\ Position < 0 /\ After(n, Position)
                         /\ Files' = Files + 1

-----------------------------------------------------------------------------
Init == /\ pc = "created"
        /\ PrevEntry = [n \in Nodes |-> NULL] /\ NextEntry = [n \in Nodes |-> NULL]
        /\ FirstEntry = NULL /\ LastEntry = NULL /\ Files = 0
        /\ allocated = {} /\ order = <<>>
        /\ filescount = 0 /\ added = 0
        /\ EntryNode = NULL /\ buffers = {} /\ visited = <<>>

Edit(n, Position) == /\ pc \in {"created", "edit"}
                     /\ AddEntry(n, Position)
                     /\ allocated' = allocated \cup {n}
                     /\ pc' = "edit"
                     /\ UNCHANGED <<filescount, added, extraction>>

\* Bug: the count of the header is counted up from.
ReadHeaderKeepsFiles(count) == /\ pc = "created"
                               /\ filescount' = count /\ Files' = count
                               /\ pc' = "enumerate"
                               /\ UNCHANGED <<PrevEntry, NextEntry, FirstEntry, LastEntry, order,
                                              allocated, added, extraction>>

\* far_read_header of an archive of count files, and the first statements of
\* far_enumerate_entries.
ReadHeader(count) == /\ pc = "created"
                     /\ filescount' = count /\ Files' = 0
                     /\ pc' = "enumerate"
                     /\ UNCHANGED <<PrevEntry, NextEntry, FirstEntry, LastEntry, order,
                                    allocated, added, extraction>>

\* A turn of its loop: a node is added at the end, and its entry read into it.
Enumerate(n) == /\ pc = "enumerate" /\ added < filescount
                /\ AddEntry(n, -1)
                /\ allocated' = allocated \cup {n}
                /\ added' = added + 1
                /\ UNCHANGED <<pc, filescount, extraction>>

\* Bug: the rest of the index is read all the same.
EntryUnreadableGoesOn(n) == /\ pc = "enumerate" /\ added < filescount
                            /\ AddEntry(n, -1)
                            /\ added' = added + 1
                            /\ UNCHANGED <<pc, allocated, filescount, extraction>>

\* The entry cannot be read: the node is freed, though not unlinked.
EntryUnreadable(n) == /\ pc = "enumerate" /\ added < filescount
                      /\ AddEntry(n, -1)
                      /\ pc' = "failed"
                      /\ UNCHANGED <<allocated, filescount, added, extraction>>

\* There is no memory for the node.
NoNode == /\ pc = "enumerate" /\ added < filescount
          /\ pc' = "failed"
          /\ UNCHANGED <<links, allocated, filescount, added, extraction>>

\* Bug: the extraction starts at the wrong end.
EnumeratedFromLast == /\ pc = "enumerate" /\ added = filescount
                      /\ IF added = Files THEN pc' = "extract" /\ EntryNode' = LastEntry
                                          ELSE pc' = "failed" /\ UNCHANGED EntryNode
                      /\ UNCHANGED <<links, allocated, filescount, added, buffers, visited>>

Enumerated == /\ pc = "enumerate" /\ added = filescount
              /\ IF added = Files THEN pc' = "extract" /\ EntryNode' = FirstEntry
                                  ELSE pc' = "failed" /\ UNCHANGED EntryNode
              /\ UNCHANGED <<links, allocated, filescount, added, buffers, visited>>

-----------------------------------------------------------------------------
(* farextract *)

NextNode == /\ pc' = "extract"
            /\ EntryNode' = NextEntry[EntryNode]
            /\ visited' = Append(visited, EntryNode)

\* far_read_entry_data succeeds, into a buffer of its own if the entry is
\* compressed.
ReadEntryData == /\ pc = "extract" /\ EntryNode # NULL
                 /\ \/ buffers' = buffers \cup {EntryNode}
                    \/ UNCHANGED buffers
                 /\ pc' = "save"
                 /\ UNCHANGED <<links, allocated, filescount, added, EntryNode, visited>>

\* It fails, and the buffer is freed: "entry data is corrupt".
SkipCorrupt == /\ pc = "extract" /\ EntryNode # NULL
               /\ NextNode
               /\ UNCHANGED <<links, allocated, filescount, added, buffers>>

\* The directories of the file cannot be made.
NoPath == /\ pc = "save"
          /\ pc' = "failed"
          /\ UNCHANGED <<links, allocated, filescount, added, extraction>>

\* DecompressedData is freed if it is a buffer of its own.
FreeData == buffers' = buffers \ {EntryNode}

\* Bug: the file is skipped without what was decompressed for it being freed.
FileExistsKeeps == /\ pc = "save"
                   /\ NextNode
                   /\ UNCHANGED <<links, allocated, filescount, added, buffers>>

\* The file exists and is not to be overwritten: "file exists".
FileExists == /\ pc = "save"
              /\ FreeData
              /\ NextNode
              /\ UNCHANGED <<links, allocated, filescount, added>>

\* It cannot be opened to be written: "could not open".
CannotOpen == /\ pc = "save"
              /\ FreeData
              /\ NextNode
              /\ UNCHANGED <<links, allocated, filescount, added>>

\* It is written.
Write == /\ pc = "save"
         /\ FreeData
         /\ NextNode
         /\ UNCHANGED <<links, allocated, filescount, added>>

Finish == /\ pc = "extract" /\ EntryNode = NULL
          /\ pc' = "done"
          /\ UNCHANGED <<links, allocated, filescount, added, extraction>>

Save == FileExists \/ CannotOpen \/ Write

Extract == ReadEntryData \/ SkipCorrupt \/ NoPath \/ Save \/ Finish

Next == \/ \E n \in Nodes : \/ \E p \in Positions : Edit(n, p)
                            \/ Enumerate(n) \/ EntryUnreadable(n)
        \/ \E count \in 0..MaxNodes : ReadHeader(count)
        \/ NoNode \/ Enumerated \/ Extract

Spec == Init /\ [][Next]_vars

-----------------------------------------------------------------------------
(* Properties. *)

TypeOK ==
    /\ pc \in {"created", "edit", "enumerate", "extract", "save", "done", "failed"}
    /\ PrevEntry \in [Nodes -> Nodes \cup {NULL}] /\ NextEntry \in [Nodes -> Nodes \cup {NULL}]
    /\ FirstEntry \in Nodes \cup {NULL} /\ LastEntry \in Nodes \cup {NULL}
    /\ Files \in 0..MaxNodes /\ allocated \subseteq Nodes /\ order \in Seq(Nodes)
    /\ filescount \in 0..MaxNodes /\ added \in 0..MaxNodes
    /\ EntryNode \in Nodes \cup {NULL} /\ buffers \subseteq Nodes /\ visited \in Seq(Nodes)

\* The links lead through the entries in their order from either end: adding
\* one shifts the others, as the comments in far_add_entry say, and loses none.
InOrder ==
    LET count == Len(order)
        at(i) == IF i \in 1..count THEN order[i] ELSE NULL
    IN /\ FirstEntry = at(1) /\ LastEntry = at(count)
       /\ \A i \in 1..count : PrevEntry[order[i]] = at(i - 1) /\ NextEntry[order[i]] = at(i + 1)

\* As long as no call has failed, the archive counts its entries and leads to no
\* node that was freed.
NoneFreed == pc # "failed" => /\ Files = Len(order)
                              /\ ToSet(order) = allocated

\* "Finished extracting %u of %u files": each file of the header has been
\* extracted or skipped, once, in the order of the index.
EachOnce == pc = "done" => visited = order /\ Len(visited) = filescount

\* What an entry was decompressed into is gone when the next entry's turn comes,
\* whether the entry was written or skipped, for either reason.
NoLeftover == buffers \subseteq (IF pc \in {"save", "failed"} THEN {EntryNode} ELSE {})
=============================================================================
