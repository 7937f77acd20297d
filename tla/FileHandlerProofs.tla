-------------------------- MODULE FileHandlerProofs --------------------------
(***************************************************************************)
(* Proofs about the lists of archive entries, with entries added at either *)
(* end, and farextract, and about the loaders of images, sounds and texts, *)
(* for every header the constants allow.                                   *)
(***************************************************************************)
EXTENDS FarArchive, FileLoader, FiniteSetTheorems, NaturalsInduction, WellFoundedInduction, TLAPS

\* The only positions for which far_add_entry keeps the order.
EndsOnly == Positions \subseteq {-1, 0}

\* The order is one of distinct nodes, the archive counts them and has a first
\* entry as soon as there is one.
Chained == /\ order \in Seq(Nodes)
           /\ \A i, j \in DOMAIN order : order[i] = order[j] => i = j
           /\ Files = Len(order)
           /\ FirstEntry \in Nodes \cup {NULL}
           /\ FirstEntry = NULL <=> order = <<>>

\* The links of the entries; a node outside the list may still hold some.
Linked == /\ PrevEntry \in [Nodes -> Nodes \cup {NULL}]
          /\ NextEntry \in [Nodes -> Nodes \cup {NULL}]
          /\ order = <<>> => \A n \in Nodes : PrevEntry[n] = NULL /\ NextEntry[n] = NULL
          /\ InOrder

\* Which nodes are allocated, and how many entries have been enumerated.
Counted == /\ pc \in {"created", "edit", "enumerate", "extract", "save", "done", "failed"}
           /\ allocated \subseteq Nodes
           /\ pc = "created" => order = <<>> /\ added = 0
           /\ pc # "failed" => ToSet(order) = allocated /\ Files = Cardinality(allocated)
           /\ Files <= MaxNodes
           /\ filescount \in 0..MaxNodes /\ added \in 0..filescount
           /\ pc \in {"extract", "save", "done"} => filescount = Files

\* The extraction has come as far in the order as it has visited entries.
Walked == /\ EntryNode \in Nodes \cup {NULL}
          /\ visited \in Seq(Nodes) /\ Len(visited) <= Len(order)
          /\ \A i \in DOMAIN visited : visited[i] = order[i]
          /\ pc \in {"created", "edit", "enumerate"} => visited = <<>>
          /\ pc \in {"extract", "save"} =>
                EntryNode = IF Len(visited) < Len(order) THEN order[Len(visited) + 1] ELSE NULL
          /\ pc = "save" => EntryNode # NULL
          /\ pc = "done" => Len(visited) = Len(order)

\* A list an Edit has put together is only in order if it kept to the ends.
IInv == /\ Chained /\ Counted /\ Walked
        /\ buffers \subseteq Nodes /\ NoLeftover
        /\ pc # "edit" \/ EndsOnly => Linked

-----------------------------------------------------------------------------
(* The operators of the list. *)

LEMMA InsertAtElements ==
    ASSUME NEW S, NEW s \in Seq(S), NEW i \in 1..(Len(s) + 1), NEW e \in S
    PROVE  /\ InsertAt(s, i, e) \in Seq(S)
           /\ Len(InsertAt(s, i, e)) = Len(s) + 1
           /\ \A j \in 1..(i - 1) : InsertAt(s, i, e)[j] = s[j]
           /\ InsertAt(s, i, e)[i] = e
           /\ \A j \in (i + 1)..(Len(s) + 1) : InsertAt(s, i, e)[j] = s[j - 1]
<1> DEFINE before == SubSeq(s, 1, i - 1)
           after == SubSeq(s, i, Len(s))
<1>1. before \in Seq(S) /\ Len(before) = i - 1 /\ \A j \in 1..(i - 1) : before[j] = s[j]
  OBVIOUS
<1>2. after \in Seq(S) /\ Len(after) = Len(s) - i + 1 /\ \A j \in 1..(Len(s) - i + 1) : after[j] = s[i + j - 1]
  OBVIOUS
<1>3. <<e>> \in Seq(S) /\ Len(<<e>>) = 1 /\ <<e>>[1] = e
  OBVIOUS
<1>4. InsertAt(s, i, e) = (before \o <<e>>) \o after
  BY DEF InsertAt
<1> HIDE DEF before, after
<1>5. (before \o <<e>>) \in Seq(S) /\ Len(before \o <<e>>) = i /\ (before \o <<e>>)[i] = e
  BY <1>1, <1>3
<1>6. \A j \in 1..(i - 1) : (before \o <<e>>)[j] = s[j]
  BY <1>1, <1>3
<1>7. \A j \in 1..i : ((before \o <<e>>) \o after)[j] = (before \o <<e>>)[j]
  BY <1>2, <1>5
<1>8. \A j \in (i + 1)..(Len(s) + 1) : ((before \o <<e>>) \o after)[j] = after[j - i]
  BY <1>2, <1>5
<1>9. \A j \in (i + 1)..(Len(s) + 1) : j - i \in 1..(Len(s) - i + 1) /\ i + (j - i) - 1 = j - 1
  OBVIOUS
<1>10. \A j \in (i + 1)..(Len(s) + 1) : after[j - i] = s[j - 1]
  BY <1>2, <1>9
<1> QED BY <1>2, <1>4, <1>5, <1>6, <1>7, <1>8, <1>10

\* Following no link stays where one is.
LEMMA FollowNone == ASSUME NEW link, NEW n PROVE Follow(link, n, 0) = n
<1> DEFINE reached[i \in 0..0] == IF i = 0 THEN n
                                  ELSE IF link[reached[i - 1]] = NULL THEN reached[i - 1]
                                       ELSE link[reached[i - 1]]
<1>1. 0..0 = {0}
  OBVIOUS
<1>2. reached = [i \in 0..0 |-> IF i = 0 THEN n
                                  ELSE IF link[reached[i - 1]] = NULL THEN reached[i - 1]
                                       ELSE link[reached[i - 1]]]
  OBVIOUS
<1>3. reached[0] = n
  BY <1>1, <1>2
<1> QED BY <1>3 DEF Follow

LEMMA HeapCardinality == IsFiniteSet(Nodes) /\ Cardinality(Nodes) = MaxNodes
BY FS_Interval, HeapAssumption DEF Nodes

LEMMA Inserted ==
    ASSUME Chained, NEW i \in 1..(Len(order) + 1), NEW n \in Nodes, n \notin ToSet(order),
           order' = InsertAt(order, i, n)
    PROVE  /\ order' \in Seq(Nodes) /\ Len(order') = Len(order) + 1 /\ order' # <<>>
           /\ \A j, k \in 1..(Len(order) + 1) : order'[j] = order'[k] => j = k
           /\ ToSet(order') = ToSet(order) \cup {n}
           /\ \A j \in 1..(Len(order) + 1) : order'[j] = IF j < i THEN order[j]
                                                     ELSE IF j = i THEN n ELSE order[j - 1]
<1>1. order \in Seq(Nodes)
  BY DEF Chained
<1>2. \A j, k \in 1..Len(order) : order[j] = order[k] => j = k
  BY <1>1 DEF Chained
<1>3. order' \in Seq(Nodes) /\ Len(order') = Len(order) + 1
  <2>1. InsertAt(order, i, n) \in Seq(Nodes)
    BY <1>1, InsertAtElements
  <2>2. Len(InsertAt(order, i, n)) = Len(order) + 1
    BY <1>1, InsertAtElements
  <2> QED BY <2>1, <2>2
<1>4. order'[i] = n
  BY <1>1, InsertAtElements
<1>5. \A j \in 1..(i - 1) : order'[j] = order[j]
  BY <1>1, InsertAtElements
<1>6. \A j \in (i + 1)..(Len(order) + 1) : order'[j] = order[j - 1]
  BY <1>1, InsertAtElements, SMTT(30)
<1>7. \A j \in 1..Len(order) : order[j] # n
  BY <1>1 DEF ToSet
<1>8. \A j \in 1..(Len(order) + 1) : order'[j] = IF j < i THEN order[j]
                                              ELSE IF j = i THEN n ELSE order[j - 1]
  BY <1>1, <1>4, <1>5, <1>6
<1>9. \A j, k \in 1..(Len(order) + 1) : order'[j] = order'[k] => j = k
  BY <1>1, <1>2, <1>7, <1>8
<1>10. \A x : x \in ToSet(order) <=> \E j \in 1..Len(order) : x = order[j]
  BY <1>1 DEF ToSet
<1>11. \A x : x \in ToSet(order') <=> \E j \in 1..(Len(order) + 1) : x = order'[j]
  BY <1>3 DEF ToSet
<1>12. ASSUME NEW x \in ToSet(order') PROVE x \in ToSet(order) \cup {n}
  <2>1. PICK j \in 1..(Len(order) + 1) : x = order'[j]
    BY <1>11
  <2>2. \/ x = n
        \/ j \in 1..Len(order) /\ x = order[j]
        \/ j - 1 \in 1..Len(order) /\ x = order[j - 1]
    BY <1>1, <1>8, <2>1
  <2> QED BY <1>10, <2>2
<1>13. ASSUME NEW j \in 1..Len(order) PROVE order[j] \in ToSet(order')
  <2>1. CASE j < i
    BY <1>1, <1>8, <1>11, <2>1
  <2>2. CASE j >= i
    <3>1. j + 1 \in 1..(Len(order) + 1) /\ order'[j + 1] = order[j]
      BY <1>1, <1>8, <2>2
    <3> QED BY <1>11, <3>1
  <2> QED BY <1>1, <2>1, <2>2
<1>14. n \in ToSet(order')
  BY <1>1, <1>4, <1>11
<1>15. ToSet(order') = ToSet(order) \cup {n}
  BY <1>10, <1>12, <1>13, <1>14
<1>16. order' # <<>>
  BY <1>1, <1>3
<1> QED BY <1>3, <1>8, <1>9, <1>15, <1>16

-----------------------------------------------------------------------------
(* far_add_entry. *)

LEMMA AddEntryChained ==
    ASSUME Chained, NEW n \in Nodes, NEW Position \in Int, n \notin ToSet(order),
           AddEntry(n, Position)
    PROVE  Chained' /\ ToSet(order') = ToSet(order) \cup {n} /\ Files' = Files + 1
<1> USE DEF Chained
<1>0. NULL \notin Nodes
  BY HeapAssumption DEF Nodes, NULL
<1>1. CASE FirstEntry = NULL /\ Alone(n)
  <2>1. order = <<>> /\ order' = <<n>> /\ FirstEntry' = n /\ Files' = Files + 1
    BY <1>1 DEF Alone, AddEntry
  <2>2. <<n>> \in Seq(Nodes) /\ Len(<<n>>) = 1 /\ DOMAIN <<n>> = {1} /\ <<n>>[1] = n /\ <<n>> # <<>>
    OBVIOUS
  <2>3. ToSet(order) = {} /\ ToSet(order') = {n}
    BY <2>1, <2>2 DEF ToSet
  <2> QED BY <1>0, <2>1, <2>2, <2>3
<1>2. CASE FirstEntry # NULL /\ Position >= 0 /\ Before(n, Position)
  <2> DEFINE i == 1 + Smaller(Position, Len(order) - 1)
  <2>1. Len(order) >= 1
    BY <1>2
  <2>2. i \in 1..(Len(order) + 1)
    BY <1>2, <2>1 DEF Smaller
  <2>3. order' = InsertAt(order, i, n)
    BY <1>2 DEF Before
  <2> HIDE DEF i
  <2>4. FirstEntry' \in Nodes /\ Files' = Files + 1
    BY <1>2 DEF Before, AddEntry
  <2>5. ToSet(order') = ToSet(order) \cup {n}
    BY <2>2, <2>3, Inserted
  <2>6. order' \in Seq(Nodes) /\ Len(order') = Len(order) + 1 /\ order' # <<>>
    BY <2>2, <2>3, Inserted
  <2>7. \A j, k \in 1..(Len(order) + 1) : order'[j] = order'[k] => j = k
    BY <2>2, <2>3, Inserted
  <2>8. \A j, k \in DOMAIN order' : order'[j] = order'[k] => j = k
    BY <2>6, <2>7
  <2>9. Files' = Len(order')
    BY <2>4, <2>6
  <2> QED BY <1>0, <2>4, <2>5, <2>6, <2>8, <2>9
<1>3. CASE FirstEntry # NULL /\ Position < 0 /\ After(n, Position)
  <2> DEFINE i == Len(order) + 1 - Smaller(-1 - Position, Len(order) - 1)
  <2>1. Len(order) >= 1
    BY <1>3
  <2>2. i \in 1..(Len(order) + 1)
    <3>1. -1 - Position \in Nat
      BY <1>3
    <3>2. Smaller(-1 - Position, Len(order) - 1) \in 0..(Len(order) - 1)
      BY <2>1, <3>1 DEF Smaller
    <3> QED BY <2>1, <3>2
  <2>3. order' = InsertAt(order, i, n)
    BY <1>3 DEF After
  <2> HIDE DEF i
  <2>4. FirstEntry' \in Nodes /\ Files' = Files + 1
    BY <1>3 DEF After, AddEntry
  <2>5. ToSet(order') = ToSet(order) \cup {n}
    BY <2>2, <2>3, Inserted
  <2>6. order' \in Seq(Nodes) /\ Len(order') = Len(order) + 1 /\ order' # <<>>
    BY <2>2, <2>3, Inserted
  <2>7. \A j, k \in 1..(Len(order) + 1) : order'[j] = order'[k] => j = k
    BY <2>2, <2>3, Inserted
  <2>8. \A j, k \in DOMAIN order' : order'[j] = order'[k] => j = k
    BY <2>6, <2>7
  <2>9. Files' = Len(order')
    BY <2>4, <2>6
  <2> QED BY <1>0, <2>4, <2>5, <2>6, <2>8, <2>9
<1> QED BY <1>1, <1>2, <1>3 DEF AddEntry

LEMMA AddEntryLinked ==
    ASSUME Chained, Linked, NEW n \in Nodes, NEW Position \in {-1, 0}, n \notin ToSet(order),
           AddEntry(n, Position)
    PROVE  Linked'
<1>0. n # NULL /\ order \in Seq(Nodes)
  BY HeapAssumption DEF Nodes, NULL, Chained
<1>1. CASE FirstEntry = NULL /\ Alone(n)
  <2>1. /\ order = <<>> /\ order' = <<n>> /\ FirstEntry' = n /\ LastEntry' = n
        /\ PrevEntry' = PrevEntry /\ NextEntry' = NextEntry
    BY <1>1 DEF Alone, Chained
  <2>2. Len(<<n>>) = 1 /\ <<n>>[1] = n /\ <<n>> # <<>>
    OBVIOUS
  <2>3. PrevEntry[n] = NULL /\ NextEntry[n] = NULL
    BY <2>1 DEF Linked
  <2>4. InOrder'
    BY <2>1, <2>2, <2>3 DEF InOrder
  <2> QED BY <2>1, <2>2, <2>4 DEF Linked
<1>2. CASE FirstEntry # NULL /\ Position = 0 /\ Before(n, Position)
  <2>1. Len(order) >= 1
    BY <1>0, <1>2 DEF Chained
  <2>2. order' = InsertAt(order, 1, n)
    BY <1>2, <2>1 DEF Before, Smaller
  <2>3. /\ Len(order') = Len(order) + 1 /\ order' # <<>> /\ order' \in Seq(Nodes)
        /\ \A j \in 1..(Len(order) + 1) : order'[j] = IF j = 1 THEN n ELSE order[j - 1]
    BY <2>1, <2>2, Inserted
  <2>4. Follow(NextEntry, FirstEntry, Position) = FirstEntry
    BY <1>2, FollowNone
  <2>5. /\ FirstEntry = order[1] /\ LastEntry = order[Len(order)] /\ PrevEntry[order[1]] = NULL
        /\ \A j \in 1..Len(order) : /\ order[j] \in Nodes
                                    /\ PrevEntry[order[j]] = IF j = 1 THEN NULL ELSE order[j - 1]
                                    /\ NextEntry[order[j]] = IF j = Len(order) THEN NULL ELSE order[j + 1]
    BY <1>0, <2>1 DEF Linked, InOrder
  <2>6. \A j \in 1..Len(order) : order[j] # n
    BY <1>0 DEF ToSet
  <2>7. /\ FirstEntry' = n /\ LastEntry' = LastEntry
        /\ PrevEntry' = [[PrevEntry EXCEPT ![n] = NULL] EXCEPT ![FirstEntry] = n]
        /\ NextEntry' = [NextEntry EXCEPT ![n] = FirstEntry]
    BY <1>2, <2>4, <2>5 DEF Before, Splice
  <2>8. PrevEntry \in [Nodes -> Nodes \cup {NULL}] /\ NextEntry \in [Nodes -> Nodes \cup {NULL}]
    BY DEF Linked
  <2>9. FirstEntry \in Nodes /\ FirstEntry # n
    BY <2>1, <2>5, <2>6
  <2>10. PrevEntry' \in [Nodes -> Nodes \cup {NULL}] /\ NextEntry' \in [Nodes -> Nodes \cup {NULL}]
    BY <2>7, <2>8, <2>9
  <2>11. /\ PrevEntry'[n] = NULL /\ NextEntry'[n] = order[1]
         /\ PrevEntry'[order[1]] = n
         /\ \A j \in 1..Len(order) : NextEntry'[order[j]] = NextEntry[order[j]]
         /\ \A j \in 2..Len(order) : PrevEntry'[order[j]] = PrevEntry[order[j]]
    <3>1. \A j \in 2..Len(order) : order[j] # order[1]
      BY <1>0, <2>1 DEF Chained
    <3> QED BY <1>0, <2>1, <2>5, <2>6, <2>7, <2>8, <2>9, <3>1
  <2>12. InOrder'
    <3> DEFINE place(i) == IF i \in 1..Len(order') THEN order'[i] ELSE NULL
    <3>1. FirstEntry' = place(1) /\ LastEntry' = place(Len(order'))
      BY <1>0, <2>1, <2>3, <2>5, <2>7
    <3>2. ASSUME NEW j \in 1..Len(order')
          PROVE  PrevEntry'[order'[j]] = place(j - 1) /\ NextEntry'[order'[j]] = place(j + 1)
      <4>1. CASE j = 1
        BY <1>0, <2>1, <2>3, <2>11, <4>1
      <4>2. CASE j = 2
        BY <1>0, <2>1, <2>3, <2>5, <2>11, <4>2, SMTT(60)
      <4>3. CASE j > 2
        <5>1. j - 1 \in 2..Len(order) /\ order'[j] = order[j - 1]
          BY <1>0, <2>3, <4>3
        <5>2. PrevEntry'[order'[j]] = order[j - 2]
          BY <1>0, <2>5, <2>11, <5>1
        <5>3. NextEntry'[order'[j]] = IF j - 1 = Len(order) THEN NULL ELSE order[j]
          BY <1>0, <2>5, <2>11, <5>1
        <5> QED BY <1>0, <2>3, <4>3, <5>2, <5>3
      <4> QED BY <1>0, <2>3, <4>1, <4>2, <4>3
    <3> QED BY <3>1, <3>2 DEF InOrder
  <2> QED BY <2>3, <2>10, <2>12 DEF Linked
<1>3. CASE FirstEntry # NULL /\ Position = -1 /\ After(n, Position)
  <2>1. Len(order) >= 1
    BY <1>0, <1>3 DEF Chained
  <2>2. order' = InsertAt(order, Len(order) + 1, n)
    <3>a. -1 - Position = 0
      BY <1>3
    <3>b. Smaller(0, Len(order) - 1) = 0
      <4>1. Len(order) \in Nat
        BY <1>0
      <4>2. \A k \in Nat : Smaller(0, k) = 0
        BY DEF Smaller
      <4> QED BY <2>1, <4>1, <4>2
    <3>1. Smaller(-1 - Position, Len(order) - 1) = 0
      BY <3>a, <3>b
    <3>2. Len(order) + 1 - 0 = Len(order) + 1
      BY <1>0
    <3> QED BY <1>3, <3>1, <3>2 DEF After
  <2>3. /\ Len(order') = Len(order) + 1 /\ order' # <<>> /\ order' \in Seq(Nodes)
        /\ order'[Len(order) + 1] = n
        /\ \A j \in 1..Len(order) : order'[j] = order[j]
    BY <1>0, <2>1, <2>2, Inserted
  <2>4. Follow(PrevEntry, LastEntry, -1 - Position) = LastEntry
    <3>1. -1 - Position = 0
      BY <1>3
    <3> QED BY <3>1, FollowNone
  <2>5. /\ FirstEntry = order[1] /\ LastEntry = order[Len(order)] /\ NextEntry[order[Len(order)]] = NULL
        /\ \A j \in 1..Len(order) : /\ order[j] \in Nodes
                                    /\ PrevEntry[order[j]] = IF j = 1 THEN NULL ELSE order[j - 1]
                                    /\ NextEntry[order[j]] = IF j = Len(order) THEN NULL ELSE order[j + 1]
    BY <1>0, <2>1 DEF Linked, InOrder
  <2>6. \A j \in 1..Len(order) : order[j] # n
    BY <1>0 DEF ToSet
  <2>7. /\ FirstEntry' = FirstEntry /\ LastEntry' = n
        /\ PrevEntry' = [PrevEntry EXCEPT ![n] = LastEntry]
        /\ NextEntry' = [[NextEntry EXCEPT ![n] = NULL] EXCEPT ![LastEntry] = n]
    BY <1>3, <2>4, <2>5 DEF After, Splice
  <2>8. PrevEntry \in [Nodes -> Nodes \cup {NULL}] /\ NextEntry \in [Nodes -> Nodes \cup {NULL}]
    BY DEF Linked
  <2>9. LastEntry \in Nodes /\ LastEntry # n
    BY <1>0, <2>1, <2>5, <2>6
  <2>10. PrevEntry' \in [Nodes -> Nodes \cup {NULL}] /\ NextEntry' \in [Nodes -> Nodes \cup {NULL}]
    BY <2>7, <2>8, <2>9
  <2>11. /\ NextEntry'[n] = NULL /\ PrevEntry'[n] = order[Len(order)]
         /\ NextEntry'[order[Len(order)]] = n
         /\ \A j \in 1..Len(order) : PrevEntry'[order[j]] = PrevEntry[order[j]]
         /\ \A j \in 1..(Len(order) - 1) : NextEntry'[order[j]] = NextEntry[order[j]]
    <3>1. \A j \in 1..(Len(order) - 1) : order[j] # order[Len(order)]
      BY <1>0, <2>1 DEF Chained
    <3> QED BY <1>0, <2>1, <2>5, <2>6, <2>7, <2>8, <2>9, <3>1
  <2>12. InOrder'
    <3> DEFINE place(i) == IF i \in 1..Len(order') THEN order'[i] ELSE NULL
    <3>1. FirstEntry' = place(1) /\ LastEntry' = place(Len(order'))
      BY <1>0, <2>1, <2>3, <2>5, <2>7
    <3>2. ASSUME NEW j \in 1..Len(order')
          PROVE  PrevEntry'[order'[j]] = place(j - 1) /\ NextEntry'[order'[j]] = place(j + 1)
      <4>1. CASE j = Len(order) + 1
        BY <1>0, <2>1, <2>3, <2>11, <4>1
      <4>2. CASE j = Len(order)
        BY <1>0, <2>1, <2>3, <2>5, <2>11, <4>2, SMTT(60)
      <4>3. CASE j < Len(order)
        <5>1. j \in 1..(Len(order) - 1) /\ order'[j] = order[j] /\ order'[j + 1] = order[j + 1]
          BY <1>0, <2>3, <4>3
        <5>2. PrevEntry'[order'[j]] = IF j = 1 THEN NULL ELSE order[j - 1]
          BY <1>0, <2>5, <2>11, <5>1
        <5>3. NextEntry'[order'[j]] = order[j + 1]
          BY <1>0, <2>5, <2>11, <5>1
        <5> QED BY <1>0, <2>3, <4>3, <5>1, <5>2, <5>3
      <4> QED BY <1>0, <2>3, <4>1, <4>2, <4>3
    <3> QED BY <3>1, <3>2 DEF InOrder
  <2> QED BY <2>3, <2>10, <2>12 DEF Linked
<1> QED BY <1>1, <1>2, <1>3 DEF AddEntry

-----------------------------------------------------------------------------
(* The invariant, step by step. *)

LEMMA InitIInv == Init => IInv
<1> SUFFICES ASSUME Init PROVE IInv
  OBVIOUS
<1> USE DEF Init
<1>1. Len(order) = 0 /\ order \in Seq(Nodes) /\ DOMAIN order = {} /\ ToSet(order) = {}
  BY DEF ToSet
<1>2. Chained
  BY <1>1 DEF Chained
<1>3. Counted
  BY <1>1, FS_EmptySet, HeapAssumption DEF Counted
<1>4. Len(visited) = 0 /\ visited \in Seq(Nodes) /\ DOMAIN visited = {}
  OBVIOUS
<1>5. Walked
  BY <1>1, <1>4 DEF Walked
<1>6. InOrder
  BY <1>1 DEF InOrder
<1>7. Linked
  BY <1>6 DEF Linked
<1> QED BY <1>2, <1>3, <1>5, <1>7 DEF IInv, NoLeftover

LEMMA ListKept == ASSUME IInv, UNCHANGED links PROVE Chained' /\ (Linked => Linked')
BY DEF IInv, links, Chained, Linked, InOrder

LEMMA EditIInv ==
    ASSUME IInv, NEW n \in Nodes, NEW Position \in Positions, Edit(n, Position) PROVE IInv'
<1> USE DEF IInv, Edit, extraction
<1>1. Position \in Int
  BY HeapAssumption
<1>2. ToSet(order) = allocated /\ n \notin ToSet(order)
  BY DEF Counted, AddEntry
<1>3. Chained' /\ ToSet(order') = allocated \cup {n} /\ Files' = Files + 1
  BY <1>1, <1>2, AddEntryChained
<1>4. Counted'
  <2>1. IsFiniteSet(allocated) /\ Cardinality(allocated') = Cardinality(allocated) + 1
    BY <1>2, HeapCardinality, FS_Subset, FS_AddElement DEF Counted
  <2>2. Cardinality(allocated') <= MaxNodes
    BY HeapCardinality, FS_Subset DEF Counted
  <2> QED BY <1>3, <2>1, <2>2 DEF Counted
<1>5. Walked'
  <2>1. visited = <<>> /\ EntryNode' = EntryNode /\ visited' = <<>> /\ pc' = "edit"
    BY DEF Walked
  <2>2. Len(order') \in Nat
    BY <1>3 DEF Chained
  <2> QED BY <2>1, <2>2 DEF Walked
<1>6. NoLeftover' /\ buffers' \subseteq Nodes
  BY DEF NoLeftover
<1>7. EndsOnly => Linked'
  <2> SUFFICES ASSUME EndsOnly PROVE Linked'
    OBVIOUS
  <2>1. Position \in {-1, 0} /\ Linked
    BY DEF EndsOnly
  <2> QED BY <1>2, <2>1, AddEntryLinked
<1> QED BY <1>3, <1>4, <1>5, <1>6, <1>7 DEF EndsOnly

LEMMA ReadHeaderIInv == ASSUME IInv, NEW count \in 0..MaxNodes, ReadHeader(count) PROVE IInv'
<1> USE DEF IInv, ReadHeader, extraction
<1>1. order = <<>> /\ order' = <<>> /\ Files = 0 /\ Files' = 0
  BY DEF Counted, Chained
<1>2. Chained'
  BY <1>1 DEF Chained
<1>3. Counted'
  <2>1. ToSet(order') = allocated' /\ Files' = Cardinality(allocated') /\ Files' <= MaxNodes
    <3>1. ToSet(order) = allocated /\ Files = Cardinality(allocated) /\ Files <= MaxNodes
      BY DEF Counted
    <3>2. order' = order /\ allocated' = allocated
      OBVIOUS
    <3>3. ToSet(order') = ToSet(order)
      BY <3>2
    <3> QED BY <1>1, <3>1, <3>2, <3>3
  <2> QED BY <1>1, <2>1 DEF Counted
<1>4. Walked'
  BY DEF Walked
<1>5. Linked'
  BY DEF Linked, InOrder
<1> QED BY <1>2, <1>3, <1>4, <1>5 DEF NoLeftover

\* The nodes the enumeration adds, whether their entries can be read or not.
LEMMA EnumerateList ==
    ASSUME IInv, pc = "enumerate", NEW n \in Nodes, AddEntry(n, -1)
    PROVE  /\ Chained' /\ Linked' /\ Len(order') = Len(order) + 1 /\ Len(order') \in Nat
           /\ ToSet(order') = allocated \cup {n} /\ Files' = Files + 1 /\ Files' <= MaxNodes
           /\ Cardinality(allocated \cup {n}) = Files'
<1>1. ToSet(order) = allocated /\ n \notin ToSet(order)
  BY DEF IInv, Counted, AddEntry
<1>2. Chained' /\ ToSet(order') = allocated \cup {n} /\ Files' = Files + 1
  BY <1>1, AddEntryChained DEF IInv
<1>3. Linked'
  BY <1>1, AddEntryLinked DEF IInv
<1>4. Len(order') = Len(order) + 1 /\ Len(order') \in Nat
  BY <1>2 DEF Chained, IInv
<1>5. IsFiniteSet(allocated) /\ Cardinality(allocated \cup {n}) = Cardinality(allocated) + 1
  BY <1>1, HeapCardinality, FS_Subset, FS_AddElement DEF IInv, Counted
<1>6. Cardinality(allocated \cup {n}) <= MaxNodes
  BY HeapCardinality, FS_Subset DEF IInv, Counted
<1> QED BY <1>2, <1>3, <1>4, <1>5, <1>6 DEF IInv, Counted

LEMMA EnumerateIInv == ASSUME IInv, NEW n \in Nodes, Enumerate(n) PROVE IInv'
<1> USE DEF IInv, Enumerate, extraction
<1>1. Chained' /\ Linked' /\ ToSet(order') = allocated' /\ Files' = Cardinality(allocated')
  BY EnumerateList
<1>2. Counted'
  BY <1>1, EnumerateList DEF Counted
<1>3. Walked'
  BY EnumerateList DEF Walked
<1> QED BY <1>1, <1>2, <1>3 DEF NoLeftover

LEMMA EntryUnreadableIInv == ASSUME IInv, NEW n \in Nodes, EntryUnreadable(n) PROVE IInv'
<1> USE DEF IInv, EntryUnreadable, extraction
<1>1. Chained' /\ Linked'
  BY EnumerateList
<1>2. Counted'
  BY EnumerateList DEF Counted
<1>3. Walked'
  BY EnumerateList DEF Walked
<1> QED BY <1>1, <1>2, <1>3 DEF NoLeftover

LEMMA NoNodeIInv == ASSUME IInv, NoNode PROVE IInv'
<1> USE DEF IInv, NoNode, links, extraction
<1>1. Chained' /\ Linked'
  BY ListKept
<1>2. Counted' /\ Walked'
  BY DEF Counted, Walked
<1> QED BY <1>1, <1>2 DEF NoLeftover

LEMMA EnumeratedIInv == ASSUME IInv, Enumerated PROVE IInv'
<1> USE DEF IInv, Enumerated, links
<1>1. Chained' /\ Linked'
  BY ListKept
<1>2. Counted'
  BY DEF Counted
<1>3. Walked'
  <2>1. visited = <<>> /\ visited' = <<>> /\ order' = order
    BY DEF Walked
  <2>2. FirstEntry = IF 0 < Len(order) THEN order[1] ELSE NULL
    BY DEF Linked, InOrder, Chained
  <2>3. FirstEntry \in Nodes \cup {NULL}
    BY DEF Chained
  <2> QED BY <2>1, <2>2, <2>3 DEF Walked
<1>4. NoLeftover'
  BY DEF NoLeftover
<1> QED BY <1>1, <1>2, <1>3, <1>4

LEMMA ReadEntryDataIInv == ASSUME IInv, ReadEntryData PROVE IInv'
<1> USE DEF IInv, ReadEntryData, links
<1>1. Chained' /\ Linked'
  BY ListKept
<1>2. Counted' /\ Walked'
  BY DEF Counted, Walked
<1>3. EntryNode \in Nodes
  BY DEF Walked
<1> QED BY <1>1, <1>2, <1>3 DEF NoLeftover

\* Going on to the entry the node is linked to.
LEMMA NextNodeWalked ==
    ASSUME IInv, pc \in {"extract", "save"}, EntryNode # NULL, NextNode, UNCHANGED links
    PROVE  Walked'
<1> USE DEF NextNode, links
<1> DEFINE k == Len(visited)
<1>1. order \in Seq(Nodes) /\ visited \in Seq(Nodes) /\ k \in Nat /\ k < Len(order) /\ EntryNode = order[k + 1]
  BY DEF IInv, Chained, Walked
<1>2. NextEntry[order[k + 1]] = IF k + 2 \in 1..Len(order) THEN order[k + 2] ELSE NULL
  <2>1. \A i \in 1..Len(order) : NextEntry[order[i]] = IF i + 1 \in 1..Len(order) THEN order[i + 1] ELSE NULL
    BY DEF IInv, Linked, InOrder
  <2>2. k + 1 \in 1..Len(order) /\ (k + 1) + 1 = k + 2
    BY <1>1
  <2> HIDE DEF k
  <2> QED BY <2>1, <2>2
<1>3. order[k + 1] \in Nodes /\ EntryNode \in Nodes /\ EntryNode' \in Nodes \cup {NULL}
  BY <1>1 DEF IInv, Linked
<1>4. visited' \in Seq(Nodes) /\ Len(visited') = k + 1 /\ visited'[k + 1] = order[k + 1]
  BY <1>1, <1>3
<1>5. \A i \in 1..k : visited'[i] = visited[i]
  BY <1>1, <1>3
<1>6. \A i \in 1..(k + 1) : visited'[i] = order[i]
  BY <1>1, <1>4, <1>5 DEF IInv, Walked
<1>7. EntryNode' = IF Len(visited') < Len(order) THEN order[Len(visited') + 1] ELSE NULL
  BY <1>1, <1>2, <1>4
<1> HIDE DEF k
<1>8. DOMAIN visited' = 1..(k + 1)
  BY <1>4
<1> QED BY <1>1, <1>3, <1>4, <1>6, <1>7, <1>8 DEF Walked

LEMMA SkipCorruptIInv == ASSUME IInv, SkipCorrupt PROVE IInv'
<1> USE DEF IInv, SkipCorrupt, links, NextNode
<1>1. Chained' /\ Linked'
  BY ListKept
<1>2. Counted'
  BY DEF Counted
<1>3. Walked'
  BY NextNodeWalked
<1> QED BY <1>1, <1>2, <1>3 DEF NoLeftover

LEMMA NoPathIInv == ASSUME IInv, NoPath PROVE IInv'
<1> USE DEF IInv, NoPath, links, extraction
<1>1. Chained' /\ Linked'
  BY ListKept
<1>2. Counted' /\ Walked'
  BY DEF Counted, Walked
<1> QED BY <1>1, <1>2 DEF NoLeftover

LEMMA SaveIInv == ASSUME IInv, Save PROVE IInv'
<1> USE DEF IInv, Save, FileExists, CannotOpen, Write, FreeData, links, NextNode
<1>1. Chained' /\ Linked'
  BY ListKept
<1>2. Counted'
  BY DEF Counted
<1>3. Walked'
  BY NextNodeWalked DEF Walked
<1> QED BY <1>1, <1>2, <1>3 DEF NoLeftover

LEMMA FinishIInv == ASSUME IInv, Finish PROVE IInv'
<1> USE DEF IInv, Finish, links, extraction
<1>1. Chained' /\ Linked'
  BY ListKept
<1>2. Counted'
  BY DEF Counted
<1>3. Walked'
  <2>1. \A i \in 1..Len(order) : order[i] # NULL
    BY HeapAssumption DEF Chained, Nodes, NULL
  <2>2. Len(visited) = Len(order)
    BY <2>1 DEF Walked, Chained
  <2> QED BY <2>2 DEF Walked
<1> QED BY <1>1, <1>2, <1>3 DEF NoLeftover

LEMMA NextIInv == IInv /\ [Next]_vars => IInv'
<1> SUFFICES ASSUME IInv, [Next]_vars PROVE IInv'
  OBVIOUS
<1>1. ASSUME NEW n \in Nodes, NEW p \in Positions, Edit(n, p) PROVE IInv'
  BY <1>1, EditIInv
<1>2. ASSUME NEW n \in Nodes, Enumerate(n) PROVE IInv'
  BY <1>2, EnumerateIInv
<1>3. ASSUME NEW n \in Nodes, EntryUnreadable(n) PROVE IInv'
  BY <1>3, EntryUnreadableIInv
<1>4. ASSUME NEW count \in 0..MaxNodes, ReadHeader(count) PROVE IInv'
  BY <1>4, ReadHeaderIInv
<1>5. CASE NoNode \/ Enumerated
  BY <1>5, NoNodeIInv, EnumeratedIInv
<1>6. CASE Extract
  BY <1>6, ReadEntryDataIInv, SkipCorruptIInv, NoPathIInv, SaveIInv, FinishIInv DEF Extract
<1>7. CASE UNCHANGED vars
  <2> USE <1>7 DEF vars, links, extraction
  <2>1. Chained' /\ (Linked => Linked')
    BY ListKept
  <2>2. Counted' /\ Walked'
    BY DEF IInv, Counted, Walked
  <2> QED BY <2>1, <2>2 DEF IInv, NoLeftover
<1> QED BY <1>1, <1>2, <1>3, <1>4, <1>5, <1>6, <1>7 DEF Next

LEMMA Invariance == Spec => []IInv
<1>1. Init => IInv
  BY InitIInv
<1>2. IInv /\ [Next]_vars => IInv'
  BY NextIInv
<1> QED BY <1>1, <1>2, PTL DEF Spec

-----------------------------------------------------------------------------
(* The theorems. *)

\* As long as far_add_entry is only asked for the ends of the list, its links
\* lead through all entries in their order, both ways, whatever the calls were.
THEOREM EndsKeepOrder == ASSUME EndsOnly PROVE Spec => []InOrder
<1>1. IInv => InOrder
  BY DEF IInv, Linked
<1> QED BY <1>1, Invariance, PTL

\* As long as no call failed, the archive counts the nodes it leads to and has
\* freed none of them, for any positions.
THEOREM NodesCounted == Spec => []NoneFreed
<1>1. IInv => NoneFreed
  BY DEF IInv, Chained, Counted, NoneFreed
<1> QED BY <1>1, Invariance, PTL

\* farextract extracts or skips each file of the index once, in its order.
THEOREM ExtractedOnce == Spec => []EachOnce
<1>1. IInv => EachOnce
  <2> SUFFICES ASSUME IInv, pc = "done" PROVE visited = order /\ Len(visited) = filescount
    BY DEF EachOnce
  <2>1. /\ order \in Seq(Nodes) /\ visited \in Seq(Nodes) /\ Len(visited) = Len(order)
        /\ \A i \in DOMAIN visited : visited[i] = order[i]
    BY DEF IInv, Chained, Walked
  <2>2. visited = order
    BY <2>1
  <2> QED BY <2>1, <2>2 DEF IInv, Counted, Chained
<1> QED BY <1>1, Invariance, PTL

\* What an entry was decompressed into never outlives its turn.
THEOREM NothingLeftOver == Spec => []NoLeftover
<1>1. IInv => NoLeftover
  BY DEF IInv
<1> QED BY <1>1, Invariance, PTL

\* Every variable keeps its type, with nodes added at the ends.
THEOREM TypeCorrect == ASSUME EndsOnly PROVE Spec => []TypeOK
<1>1. IInv => TypeOK
  <2> SUFFICES ASSUME IInv PROVE TypeOK
    OBVIOUS
  <2>1. Files \in 0..MaxNodes /\ added \in 0..MaxNodes /\ filescount \in 0..MaxNodes
    BY HeapAssumption DEF IInv, Chained, Counted
  <2>2. LastEntry \in Nodes \cup {NULL}
    BY DEF IInv, Chained, Linked, InOrder
  <2> QED BY <2>1, <2>2 DEF IInv, Chained, Counted, Walked, Linked, TypeOK
<1> QED BY <1>1, Invariance, PTL

-----------------------------------------------------------------------------
(* The loaders and decoders of FileLoader. *)

Own     == {"bmp", "wav", "xa", "utk"}
Foreign == {"jpg", "png", "mp3"}

\* What is allocated once a reader runs, and what a library call has added.
Opened == IF Tool(call) THEN {"InData"} ELSE {"InData", "Struct"}
Taken(f, n) == UNION {Calls[f][k].takes : k \in 1 .. n}

\* Where the program can be, what it holds there and which format it knows.
Stage ==
    /\ call \in {"ReadImageFile", "ReadSoundFile", "xadecode", "utkdecode", "cst_read"}
    /\ fmt \in {"none"} \cup FmtOf[call]
    /\ call = "cst_read" => phase \in {"cst", "failed", "returned", "undefined"}
    /\ phase = "cst" => call = "cst_read"
    /\ phase = "file" => fmt = "none" /\ held = {}
    /\ phase = "dispatch" => fmt = "none" /\ held = {"InData"} /\ ~Tool(call)
    /\ phase = "header" => fmt \in Own \cup {"tgacur"} /\ held = Opened
    /\ phase = "library" => /\ fmt \in Foreign /\ at \in 0 .. Len(Calls[fmt]) - 1
                            /\ held = Opened \cup Taken(fmt, at)
    /\ phase = "decode" => fmt \in Own /\ held = Opened \cup {"OutData"}
    /\ phase = "corrupt" => fmt = "bmp" /\ held = Opened \cup {"OutData"}
    /\ phase = "decoded" => fmt \in Own \cup Foreign /\ held = Opened \cup {"OutData"} /\ Filled
    /\ phase \in {"file", "dispatch", "header"} => at = 0 /\ in = 0 /\ out = 0 /\ bits = 0
    /\ phase = "cst" /\ fmt = "none" => in = 0

WAVDecoding == hdr \in wavheader /\ wav_read_header(hdr) /\ step = "copy"

\* k blocks of 28 frames are decoded, and at pairs of the next block.
XADecoding ==
    /\ hdr \in xaheader /\ xa_read_header(hdr)
    /\ step \in {"control", "frames"} /\ at \in 0 .. 13 /\ (step = "control" => at = 0)
    /\ left \in 1 .. hdr.frames
    /\ \E k \in 0 .. hdr.frames :
          /\ left = hdr.frames - (28 * k + 2 * at)
          /\ in = hdr.channels * (15 * k + at + (IF step = "control" THEN 0 ELSE 1))
          /\ out = hdr.channels * (56 * k + 4 * at)

\* h - left rows are decoded; RLE is only followed to its end mark.
BMPDecoding ==
    /\ hdr \in bmpheader /\ bmp_read_header(hdr)
    /\ step = (IF hdr.rle THEN "rle" ELSE "rows")
    /\ step = "rows" => left \in 1 .. hdr.h /\ at = hdr.h - left /\ out = at * hdr.w * 3

Windows == [i : Int, table : 0 .. 1, interval : 1 .. 2,
            voiced : BOOLEAN, halved : BOOLEAN, odd : BOOLEAN]

\* The stream is inside of the file, and a window that is being filled has
\* room for a whole step of it.
UTKDecoding ==
    /\ hdr \in utkheader
    /\ step = "init" => in = 0 /\ out = 0 /\ bits = 0 /\ left = hdr.frames
    /\ step # "init" =>
         /\ step \in {"frame", "subframe", "excite", "ones", "block"}
         /\ in \in Int /\ in <= hdr.room /\ bits \in Nat
         /\ left \in 1 .. hdr.frames /\ out = 2 * (hdr.frames - left)
         /\ win \in Windows
    /\ step \in {"excite", "ones"} =>
         win.i \in 0 .. 107 /\ win.i % win.interval = 0

Decoding ==
    /\ phase = "decode" /\ fmt = "wav" => WAVDecoding
    /\ phase = "decode" /\ fmt = "xa"  => XADecoding
    /\ phase = "decode" /\ fmt = "bmp" => BMPDecoding
    /\ phase = "decode" /\ fmt = "utk" => UTKDecoding

\* A text without a NUL still has a pair of carets for each string to come.
CaretsAfter(s, p) == {i \in DOMAIN s : i > p /\ s[i] = "^"}
Strings ==
    phase = "cst" /\ fmt = "cst" =>
          /\ hdr.text \in CSTFiles /\ in \in 0 .. Len(hdr.text) /\ left \in Nat \ {0}
          /\ TextWithNUL \/ Cardinality(CaretsAfter(hdr.text, in)) >= 2 * left

LoadIInv == Settled /\ Inside /\ Stage /\ Decoding /\ Strings

-----------------------------------------------------------------------------
(* Facts about sizes and positions in a stream. *)
LEMMA TimesMonotone ==
    ASSUME NEW a \in Nat, NEW b \in Nat, NEW c \in Nat, a <= b
    PROVE  a * c <= b * c /\ c * a <= c * b /\ a * c \in Nat /\ c * b \in Nat
OBVIOUS

\* A row of an uncompressed bitmap ends inside of what the header asks for.
LEMMA RowsFit ==
    ASSUME NEW w \in Nat \ {0}, NEW h \in Nat \ {0}, NEW at_ \in 0 .. h - 1,
           NEW pad \in Nat, NEW pitch \in Nat
    PROVE  /\ (at_ + 1) * w * 3 <= w * h * 3
           /\ at_ * (pitch + pad) + pitch <= pitch * h + (h - 1) * pad
<1>1. (at_ + 1) * w <= h * w
  BY TimesMonotone
<1>2. at_ * (pitch + pad) <= (h - 1) * (pitch + pad)
  BY TimesMonotone
<1>3. (h - 1) * (pitch + pad) + pitch = pitch * h + (h - 1) * pad
  OBVIOUS
<1> QED BY <1>1, <1>2, <1>3

\* A read of n bits takes no byte the file does not have.
LEMMA ReadBitsInside ==
    ASSUME NEW room \in Nat, NEW r \in [in : Int, bits : Nat], r.in <= room, NEW n \in 0 .. 8
    PROVE  /\ ReadBits(room, r, n) \in [in : Int, bits : Nat]
           /\ ReadBits(room, r, n).in <= room
<1>1. r.in # room => r.in + 1 <= room
  OBVIOUS
<1>2. AtLeast0(r.bits - n) \in Nat
  BY DEF AtLeast0
<1>3. CASE r.bits - n < 8 /\ r.in # room
  <2>1. ReadBits(room, r, n) = [in |-> r.in + 1, bits |-> r.bits - n + 8]
    BY <1>3 DEF ReadBits
  <2> QED BY <1>1, <1>3, <2>1
<1>4. CASE ~(r.bits - n < 8 /\ r.in # room)
  <2>1. ReadBits(room, r, n) = [in |-> r.in, bits |-> AtLeast0(r.bits - n)]
    BY <1>4 DEF ReadBits
  <2> QED BY <1>2, <2>1
<1> QED BY <1>3, <1>4

LEMMA SkipInside ==
    ASSUME NEW room \in Nat, NEW r \in [in : Int, bits : Nat], NEW n \in Nat
    PROVE  /\ Skip(room, r, n) \in [in : Int, bits : Nat]
           /\ Skip(room, r, n).in <= room
BY DEF Skip, Least, AtLeast0

LEMMA ValuesNat ==
    ASSUME NEW r \in [in : Int, bits : Nat], NEW n \in 0 .. 6
    PROVE  Values(r, n) \subseteq Nat
<1>1. Least(n, r.bits) + 1 \in 1 .. 7
  BY DEF Least
<1>2. PowersOf2[Least(n, r.bits) + 1] \in Nat
  BY <1>1 DEF PowersOf2
<1> QED BY <1>2 DEF Values

LEMMA CodeSkipsNat == \A t \in 0 .. 1 : \A code \in UTKCodebook[t] :
                         code \in 0 .. 28 /\ UTKCodeSkips[code + 1] \in 0 .. 8
<1>1. UTKCodebook[0] \subseteq 0 .. 28 /\ UTKCodebook[1] \subseteq 0 .. 28
  BY DEF UTKCodebook
<1>2. \A c \in 0 .. 28 : UTKCodeSkips[c + 1] \in 0 .. 8
  BY DEF UTKCodeSkips
<1> QED BY <1>1, <1>2

\* What the calls of a library have taken when the next one is made.
LEMMA TakenStep ==
    ASSUME NEW f
    PROVE  /\ Taken(f, 0) = {}
           /\ \A n \in Nat \ {0} : Taken(f, n) = Taken(f, n - 1) \cup Calls[f][n].takes
<1>1. 1 .. 0 = {} /\ \A n \in Nat \ {0} : 1 .. n = (1 .. n - 1) \cup {n}
  OBVIOUS
<1> QED BY <1>1 DEF Taken

LEMMA TakenJPG ==
    /\ Len(Calls["jpg"]) = 5
    /\ \A n \in 0 .. 4 : Taken("jpg", n) \subseteq Calls["jpg"][n + 1].frees
    /\ Taken("jpg", 5) \ Close("jpg") = {"OutData"}
<1>1. /\ Calls["jpg"][1] = Call({"jpeg"}, {})
      /\ Calls["jpg"][2] = Call({}, {"jpeg"}) /\ Calls["jpg"][3] = Call({}, {"jpeg"})
      /\ Calls["jpg"][4] = Call({"OutData"}, {"jpeg"})
      /\ Calls["jpg"][5] = Call({}, {"OutData", "jpeg"}) /\ Len(Calls["jpg"]) = 5
  BY DEF Calls
<1>2. Taken("jpg", 0) = {}
  BY TakenStep
<1>3. Taken("jpg", 1) = {"jpeg"}
  BY <1>1, <1>2, TakenStep DEF Call
<1>4. Taken("jpg", 2) = {"jpeg"}
  BY <1>1, <1>3, TakenStep DEF Call
<1>5. Taken("jpg", 3) = {"jpeg"}
  BY <1>1, <1>4, TakenStep DEF Call
<1>6. Taken("jpg", 4) = {"jpeg", "OutData"}
  BY <1>1, <1>5, TakenStep DEF Call
<1>7. Taken("jpg", 5) = {"jpeg", "OutData"}
  BY <1>1, <1>6, TakenStep DEF Call
<1> QED BY <1>1, <1>2, <1>3, <1>4, <1>5, <1>6, <1>7 DEF Call, Close

LEMMA TakenPNG ==
    /\ Len(Calls["png"]) = 4
    /\ \A n \in 0 .. 3 : Taken("png", n) \subseteq Calls["png"][n + 1].frees
    /\ Taken("png", 4) \ Close("png") = {"OutData"}
<1>1. /\ Calls["png"][1] = Call({"png_ptr"}, {})
      /\ Calls["png"][2] = Call({"info_ptr"}, {"png_ptr"})
      /\ Calls["png"][3] = Call({}, {"png_ptr", "info_ptr"})
      /\ Calls["png"][4] = Call({"OutData"}, {"png_ptr", "info_ptr"}) /\ Len(Calls["png"]) = 4
  BY DEF Calls
<1>2. Taken("png", 0) = {}
  BY TakenStep
<1>3. Taken("png", 1) = {"png_ptr"}
  BY <1>1, <1>2, TakenStep DEF Call
<1>4. Taken("png", 2) = {"png_ptr", "info_ptr"}
  BY <1>1, <1>3, TakenStep DEF Call
<1>5. Taken("png", 3) = {"png_ptr", "info_ptr"}
  BY <1>1, <1>4, TakenStep DEF Call
<1>6. Taken("png", 4) = {"png_ptr", "info_ptr", "OutData"}
  BY <1>1, <1>5, TakenStep DEF Call
<1> QED BY <1>1, <1>2, <1>3, <1>4, <1>5, <1>6 DEF Call, Close

LEMMA TakenMP3 ==
    /\ Len(Calls["mp3"]) = 5
    /\ \A n \in 0 .. 4 : Taken("mp3", n) \subseteq Calls["mp3"][n + 1].frees
    /\ Taken("mp3", 5) \ Close("mp3") = {"OutData"}
<1>1. /\ Calls["mp3"][1] = Call({"mpg123"}, {"mpg123"})
      /\ Calls["mp3"][2] = Call({"mh"}, {"mpg123"}) /\ Calls["mp3"][3] = Call({}, MP3Close)
      /\ Calls["mp3"][4] = Call({"OutData"}, MP3Close)
      /\ Calls["mp3"][5] = Call({}, MP3Close \union {"OutData"}) /\ Len(Calls["mp3"]) = 5
  BY DEF Calls
<1>2. Taken("mp3", 0) = {}
  BY TakenStep
<1>3. Taken("mp3", 1) = {"mpg123"}
  BY <1>1, <1>2, TakenStep DEF Call
<1>4. Taken("mp3", 2) = {"mpg123", "mh"}
  BY <1>1, <1>3, TakenStep DEF Call
<1>5. Taken("mp3", 3) = {"mpg123", "mh"}
  BY <1>1, <1>4, TakenStep DEF Call
<1>6. Taken("mp3", 4) = {"mpg123", "mh", "OutData"}
  BY <1>1, <1>5, TakenStep DEF Call
<1>7. Taken("mp3", 5) = {"mpg123", "mh", "OutData"}
  BY <1>1, <1>6, TakenStep DEF Call
<1> QED BY <1>1, <1>2, <1>3, <1>4, <1>5, <1>6, <1>7 DEF Call, Close, MP3Close

LEMMA TakenIs ==
    ASSUME NEW f \in Foreign
    PROVE  /\ Len(Calls[f]) \in Nat \ {0}
           /\ \A n \in 0 .. Len(Calls[f]) - 1 : Taken(f, n) \subseteq Calls[f][n + 1].frees
           /\ Taken(f, Len(Calls[f])) \ Close(f) = {"OutData"}
<1>1. CASE f = "jpg"
  BY <1>1, TakenJPG
<1>2. CASE f = "png"
  BY <1>2, TakenPNG
<1>3. CASE f = "mp3"
  BY <1>3, TakenMP3
<1> QED BY <1>1, <1>2, <1>3 DEF Foreign

-----------------------------------------------------------------------------
(* Texts: strchr stops at the next caret, which leaves one less. *)
Symbols == {"^", "c", "0"}

LEMMA Smallest == ASSUME NEW T, T \subseteq Nat, T # {} PROVE \E n \in T : \A m \in T : n <= m
<1>1. PICK n \in T : \A m \in T : <<m, n>> \notin OpToRel(<, Nat)
  BY NatLessThanWellFounded, WFMin
<1>2. \A m \in T : ~(m < n)
  BY <1>1 DEF OpToRel
<1> QED BY <1>2

LEMMA CaretsFinite ==
    ASSUME NEW s \in Seq(Symbols), NEW p
    PROVE  IsFiniteSet(CaretsAfter(s, p)) /\ Cardinality(CaretsAfter(s, p)) \in Nat
<1>1. IsFiniteSet(DOMAIN s)
  BY FS_Interval
<1>2. CaretsAfter(s, p) \in SUBSET DOMAIN s
  BY DEF CaretsAfter
<1> QED BY <1>1, <1>2, FS_Subset, FS_CardinalityType

LEMMA StrchrInside ==
    ASSUME NEW s \in Seq(Symbols), NEW p \in 0 .. Len(s)
    PROVE  strchr(s, p) \in 0 .. Len(s)
<1> DEFINE ends == {i \in p + 1 .. Len(s) : s[i] \in {"^", "0"}}
           first == CHOOSE i \in ends : \A j \in ends : i <= j
<1>1. ends \subseteq Nat /\ ends \subseteq 0 .. Len(s)
  OBVIOUS
<1>2. ends # {} => first \in ends
  <2> HIDE DEF ends
  <2> QED BY <1>1, Smallest
<1>3. strchr(s, p) = 0 \/ (ends # {} /\ strchr(s, p) = first)
  BY DEF strchr
<1>4. 0 \in 0 .. Len(s)
  OBVIOUS
<1> HIDE DEF ends, first
<1> QED BY <1>1, <1>2, <1>3, <1>4

LEMMA StrchrFinds ==
    ASSUME NEW s \in Seq(Symbols), \A i \in DOMAIN s : s[i] # "0",
           NEW p \in 0 .. Len(s), Cardinality(CaretsAfter(s, p)) > 0
    PROVE  /\ strchr(s, p) \in p + 1 .. Len(s)
           /\ Cardinality(CaretsAfter(s, strchr(s, p))) = Cardinality(CaretsAfter(s, p)) - 1
<1> DEFINE ends == {i \in p + 1 .. Len(s) : s[i] \in {"^", "0"}}
           first == CHOOSE i \in ends : \A j \in ends : i <= j
<1>1. ends = CaretsAfter(s, p)
  BY DEF CaretsAfter
<1>2. ends # {} /\ ends \subseteq Nat
  <2>1. CaretsAfter(s, p) # {}
    BY FS_EmptySet
  <2> QED BY <1>1, <2>1
<1>3. \E i \in ends : \A j \in ends : i <= j
  <2> HIDE DEF ends
  <2> QED BY <1>2, Smallest
<1>4. first \in ends /\ \A j \in ends : first <= j
  <2> HIDE DEF ends
  <2> QED BY <1>3
<1>5. s[first] = "^" /\ first > 0
  BY <1>1, <1>4 DEF CaretsAfter
<1>6. strchr(s, p) = first
  BY <1>2, <1>5 DEF strchr
<1>7. CaretsAfter(s, first) = CaretsAfter(s, p) \ {first}
  <2> HIDE DEF first
  <2>1. first \in p + 1 .. Len(s) /\ \A j \in CaretsAfter(s, p) : first <= j
    BY <1>1, <1>4
  <2> QED BY <2>1 DEF CaretsAfter
<1>8. Cardinality(CaretsAfter(s, p) \ {first}) = Cardinality(CaretsAfter(s, p)) - 1
  BY <1>1, <1>4, CaretsFinite, FS_RemoveElement
<1>9. first \in p + 1 .. Len(s)
  <2> HIDE DEF first
  <2> QED BY <1>4
<1> QED BY <1>6, <1>7, <1>8, <1>9

\* Two carets more are the end of the next string.
LEMMA TwoStrchr ==
    ASSUME NEW s \in Seq(Symbols), \A i \in DOMAIN s : s[i] # "0",
           NEW p \in 0 .. Len(s), NEW n \in Nat \ {0}, Cardinality(CaretsAfter(s, p)) >= 2 * n
    PROVE  /\ strchr(s, p) \in p + 1 .. Len(s)
           /\ strchr(s, strchr(s, p)) \in p + 2 .. Len(s)
           /\ Cardinality(CaretsAfter(s, strchr(s, strchr(s, p)))) >= 2 * (n - 1)
<1> DEFINE a == strchr(s, p)
           b == strchr(s, a)
<1>1. Cardinality(CaretsAfter(s, p)) \in Nat
  BY CaretsFinite
<1>2. a \in p + 1 .. Len(s) /\ Cardinality(CaretsAfter(s, a)) = Cardinality(CaretsAfter(s, p)) - 1
  BY <1>1, StrchrFinds
<1>3. a \in 0 .. Len(s) /\ Cardinality(CaretsAfter(s, a)) > 0
  <2> HIDE DEF a
  <2> QED BY <1>1, <1>2
<1>4. b \in a + 1 .. Len(s) /\ Cardinality(CaretsAfter(s, b)) = Cardinality(CaretsAfter(s, a)) - 1
  <2> HIDE DEF a
  <2> QED BY <1>3, StrchrFinds
<1>5. b \in p + 2 .. Len(s) /\ Cardinality(CaretsAfter(s, b)) >= 2 * (n - 1)
  <2> HIDE DEF a, b
  <2> QED BY <1>1, <1>2, <1>4
<1> QED BY <1>2, <1>5

LEMMA CaretsWhole ==
    ASSUME NEW s \in Seq(Symbols)
    PROVE  /\ cst_count_strings(s) \in Nat
           /\ Cardinality(CaretsAfter(s, 0)) >= 2 * cst_count_strings(s)
<1>1. CaretsAfter(s, 0) = {i \in DOMAIN s : s[i] = "^"}
  BY DEF CaretsAfter
<1>2. PICK n \in Nat : n = Cardinality(CaretsAfter(s, 0))
  BY CaretsFinite
<1>3. cst_count_strings(s) = n \div 2
  BY <1>1, <1>2 DEF cst_count_strings, Carets
<1> QED BY <1>2, <1>3

-----------------------------------------------------------------------------
(* Up to the header. *)
LEMMA XATypes == ASSUME NEW h \in xaheader PROVE h.frames \in Nat /\ h.channels \in 1 .. 8 /\ h.room \in Nat
<1>1. h.frames \in XAFrames /\ h.channels \in XAChannels /\ h.room \in XARooms
  BY DEF xaheader
<1>2. XAFrames \subseteq Nat /\ XAChannels \subseteq 1 .. 8 /\ XARooms \subseteq Nat
  BY FormatsAssumption
<1> QED BY <1>1, <1>2

LEMMA UTKTypes == ASSUME NEW h \in utkheader PROVE h.frames \in Nat /\ h.room \in Nat
<1>1. h.frames \in UTKFrames /\ h.room \in UTKRooms
  BY DEF utkheader
<1>2. UTKFrames \subseteq Nat /\ UTKRooms \subseteq Nat
  BY FormatsAssumption
<1> QED BY <1>1, <1>2

LEMMA WAVTypes == ASSUME NEW h \in wavheader PROVE h.size \in Nat /\ h.room \in Nat
<1>1. h.size \in WAVRooms /\ h.room \in WAVRooms
  BY DEF wavheader
<1>2. WAVRooms \subseteq Nat
  BY FormatsAssumption
<1> QED BY <1>1, <1>2

LEMMA BMPTypes ==
    ASSUME NEW h \in bmpheader
    PROVE  /\ h.w \in Nat \ {0} /\ h.h \in Nat \ {0} /\ h.bit \in {8, 24} /\ h.rle \in BOOLEAN
           /\ h.comp \in Nat /\ h.room \in Nat /\ h.comp <= h.room
<1>1. PICK s \in BOOLEAN, w \in Widths, hh \in Heights, b \in {8, 24}, r \in BOOLEAN,
           o \in {54, 1078}, c \in BMPRooms, n \in 0 .. 1 :
              h = [sane |-> s, w |-> w, h |-> hh, bit |-> b, rle |-> r, off |-> o, comp |-> c, room |-> c + n]
  BY DEF bmpheader
<1>2. Widths \subseteq Nat \ {0} /\ Heights \subseteq Nat \ {0} /\ BMPRooms \subseteq Nat
  <2>1. Widths \subseteq 1 .. 4096 /\ Heights \subseteq 1 .. 4096 /\ BMPRooms \subseteq Nat
    BY FormatsAssumption
  <2> QED BY <2>1, SMTT(30)
<1>3. c \in Nat /\ h.comp = c /\ h.room = c + n
  BY <1>1, <1>2
<1>4. h.w \in Nat \ {0} /\ h.h \in Nat \ {0} /\ h.bit \in {8, 24} /\ h.rle \in BOOLEAN
  BY <1>1, <1>2
<1> QED BY <1>3, <1>4

LEMMA LoadInitIInv == LoadInit => LoadIInv
<1> SUFFICES ASSUME LoadInit PROVE LoadIInv
  OBVIOUS
<1>1. Stage
  BY DEF LoadInit, Stage, Opened
<1> QED BY <1>1 DEF LoadInit, LoadIInv, Settled, Inside, Decoding, Strings, Tool

\* A load that stops says why and keeps at most the struct.
LEMMA StopIInv ==
    ASSUME LoadIInv, NEW e \in {"OPEN", "BLANK", "MEMORY", "READ", "INVALIDDATA", "UNRECOGNIZED", "EXIT_FAILURE"},
           NEW kept, Stop(e, kept), kept \subseteq IF Tool(call) THEN {} ELSE {"Struct"},
           fmt' = fmt, call' = call
    PROVE  LoadIInv'
<1>1. phase' = "failed" /\ Error' # "none" /\ held' = kept
  BY DEF Stop
<1>2. Stage'
  BY <1>1 DEF LoadIInv, Stage
<1> QED BY <1>1, <1>2 DEF LoadIInv, Settled, Inside, Decoding, Strings, Tool

LEMMA ReadFileIInv == ASSUME LoadIInv, ReadFile PROVE LoadIInv'
<1>1. CASE \E e \in {"OPEN", "BLANK", "MEMORY", "READ"} : Stop(e, {})
  BY <1>1, StopIInv DEF ReadFile
<1>2. CASE phase' = "dispatch" /\ held' = {"InData"} /\ UNCHANGED Error
  <2>1. Stage'
    BY <1>2 DEF ReadFile, decoder, LoadIInv, Stage, Tool
  <2> QED BY <1>2, <2>1 DEF LoadIInv, Settled, Inside, Decoding, Strings
<1> QED BY <1>1, <1>2 DEF ReadFile

LEMMA DispatchIInv == ASSUME LoadIInv, Dispatch PROVE LoadIInv'
<1>1. CASE \E e \in {"INVALIDDATA", "MEMORY"} : Stop(e, {}) /\ UNCHANGED fmt
  BY <1>1, StopIInv DEF Dispatch
<1>2. CASE Stop("UNRECOGNIZED", {"Struct"}) /\ UNCHANGED fmt
  BY <1>2, StopIInv DEF Dispatch, LoadIInv, Stage
<1>3. CASE /\ fmt' \in FmtOf[call] /\ held' = held \union {"Struct"}
           /\ phase' = IF fmt' \in {"jpg", "png", "mp3"} THEN "library" ELSE "header"
           /\ UNCHANGED Error
  <2>1. /\ phase = "dispatch" /\ call' = call /\ at' = at /\ in' = in /\ out' = out /\ bits' = bits
        /\ held = {"InData"} /\ ~Tool(call) /\ at = 0 /\ in = 0 /\ out = 0 /\ bits = 0
        /\ call \in {"ReadImageFile", "ReadSoundFile"}
    BY DEF Dispatch, decoder, LoadIInv, Stage, Tool
  <2>2. held' = Opened' /\ fmt' \in Own \cup Foreign \cup {"tgacur"}
    BY <1>3, <2>1 DEF Opened, Tool, FmtOf, Own, Foreign
  <2>3. CASE phase' = "header" /\ fmt' \notin {"jpg", "png", "mp3"}
    <3>1. Stage'
      BY <1>3, <2>1, <2>2, <2>3 DEF Stage, Foreign
    <3> QED BY <2>3, <3>1 DEF LoadIInv, Settled, Inside, Decoding, Strings
  <2>4. CASE phase' = "library" /\ fmt' \in Foreign
    <3>1. at' \in 0 .. Len(Calls[fmt']) - 1 /\ Taken(fmt', at') = {}
      BY <2>1, <2>4, TakenIs, TakenStep
    <3>2. Stage'
      BY <1>3, <2>1, <2>2, <2>4, <3>1 DEF Stage
    <3> QED BY <2>4, <3>2 DEF LoadIInv, Settled, Inside, Decoding, Strings
  <2> QED BY <1>3, <2>3, <2>4 DEF Foreign
<1> QED BY <1>1, <1>2, <1>3 DEF Dispatch

LEMMA ReadTGACURIInv == ASSUME LoadIInv, ReadTGACUR PROVE LoadIInv'
<1>1. held = {"InData", "Struct"} /\ ~Tool(call)
  BY DEF ReadTGACUR, LoadIInv, Stage, Opened, FmtOf, Tool
<1> QED BY <1>1, StopIInv DEF ReadTGACUR, Refuse

\* The tools: their reader is of one format.
LEMMA ToolReadIInv ==
    ASSUME LoadIInv, NEW f \in {"xa", "utk"}, f \in FmtOf[call], Tool(call), ToolRead(f)
    PROVE  LoadIInv'
<1>0. phase = "file" /\ fmt = "none" /\ call' = call
  BY DEF ToolRead, LoadIInv, Stage
<1>1. CASE Shutdown_M /\ UNCHANGED fmt
  BY <1>0, <1>1, StopIInv DEF Shutdown_M
<1>2. CASE /\ phase' = "returned" /\ Error' = "EXIT_SUCCESS" /\ held' = {"InData"} /\ UNCHANGED fmt
  <2>1. Stage'
    BY <1>0, <1>2 DEF LoadIInv, Stage
  <2> QED BY <1>0, <1>2, <2>1 DEF LoadIInv, Settled, Inside, Decoding, Strings, Tool
<1>3. CASE phase' = "header" /\ held' = {"InData"} /\ fmt' = f /\ UNCHANGED Error
  <2>1. held' = Opened'
    BY <1>0, <1>3 DEF Opened
  <2>2. Stage'
    BY <1>0, <1>3, <2>1 DEF ToolRead, decoder, LoadIInv, Stage, Own, Tool
  <2> QED BY <1>3, <2>2 DEF LoadIInv, Settled, Inside, Decoding, Strings
<1> QED BY <1>1, <1>2, <1>3 DEF ToolRead

\* A header that is accepted starts the decoder; one that is not ends the load.
LEMMA StartIInv ==
    ASSUME LoadIInv, phase = "header", fmt \in Own, NEW h, NEW accepted, NEW loop, NEW n,
           Start(h, accepted, loop, n),
           accepted /\ phase' = "decode" /\ hdr' = h /\ step' = loop /\ left' = n => Decoding'
    PROVE  LoadIInv'
<1>0. call' = call /\ fmt' = fmt /\ held = Opened /\ Opened' = Opened
  BY DEF Start, LoadIInv, Stage, Opened
<1>1. CASE GiveUp
  <2>1. CASE Tool(call)
    BY <1>0, <1>1, <2>1, StopIInv DEF GiveUp
  <2>2. CASE ~Tool(call)
    BY <1>0, <1>1, <2>2, StopIInv DEF GiveUp, Refuse, Opened
  <2> QED BY <2>1, <2>2
<1>2. CASE /\ accepted /\ phase' = "decode" /\ held' = held \union {"OutData"}
           /\ hdr' = h /\ step' = loop /\ left' = n /\ UNCHANGED Error
  <2>1. Stage'
    BY <1>0, <1>2 DEF LoadIInv, Stage
  <2>2. Decoding'
    BY <1>2
  <2> QED BY <1>2, <2>1, <2>2 DEF LoadIInv, Settled, Inside, Strings
<1> QED BY <1>1, <1>2 DEF Start

LEMMA ReadWAVIInv == ASSUME LoadIInv, ReadWAV PROVE LoadIInv'
<1>1. PICK h \in wavheader : Start(h, wav_read_header(h), "copy", h.size)
  BY DEF ReadWAV
<1>2. fmt' = "wav" /\ phase = "header" /\ fmt \in Own
  BY <1>1 DEF ReadWAV, Start, Own
<1>3. wav_read_header(h) /\ phase' = "decode" /\ hdr' = h /\ step' = "copy" => Decoding'
  BY <1>2 DEF Decoding, WAVDecoding
<1> QED BY <1>1, <1>2, <1>3, StartIInv

LEMMA ReadBMPIInv == ASSUME LoadIInv, ReadBMP PROVE LoadIInv'
<1>1. PICK h \in bmpheader : Start(h, bmp_read_header(h), IF h.rle THEN "rle" ELSE "rows", h.h)
  BY DEF ReadBMP
<1>2. /\ fmt' = "bmp" /\ phase = "header" /\ fmt \in Own /\ at' = 0 /\ out' = 0
  BY <1>1 DEF ReadBMP, Start, Own, stream, LoadIInv, Stage
<1>3. h.h \in Nat \ {0} /\ h.w \in Nat \ {0}
  BY BMPTypes
<1>4. h.h \in 1 .. h.h /\ 0 * h.w * 3 = 0 /\ h.h - h.h = 0
  <2> DEFINE n == h.h
             w == h.w
  <2>1. n \in Nat \ {0} /\ w \in Nat \ {0}
    BY <1>3
  <2> HIDE DEF n, w
  <2>2. n \in 1 .. n /\ 0 * w * 3 = 0 /\ n - n = 0
    BY <2>1
  <2> QED BY <2>2 DEF n, w
<1>5. bmp_read_header(h) /\ phase' = "decode" /\ hdr' = h /\ step' = (IF h.rle THEN "rle" ELSE "rows") /\ left' = h.h => Decoding'
  BY <1>2, <1>4 DEF Decoding, BMPDecoding
<1> QED BY <1>1, <1>2, <1>5, StartIInv

LEMMA ReadUTKIInv == ASSUME LoadIInv, ReadUTK PROVE LoadIInv'
<1>1. PICK h \in utkheader : Start(h, h.sane, "init", h.frames)
  BY DEF ReadUTK
<1>2. /\ fmt' = "utk" /\ phase = "header" /\ fmt \in Own /\ in' = 0 /\ out' = 0 /\ bits' = 0
  BY <1>1 DEF ReadUTK, Start, Own, stream, LoadIInv, Stage
<1>3. h.sane /\ phase' = "decode" /\ hdr' = h /\ step' = "init" /\ left' = h.frames => Decoding'
  BY <1>2 DEF Decoding, UTKDecoding
<1> QED BY <1>1, <1>2, <1>3, StartIInv

LEMMA ReadXAIInv == ASSUME LoadIInv, ReadXA PROVE LoadIInv'
<1>1. PICK h \in xaheader :
          IF h.sane /\ h.frames = 0
          THEN phase' = "undefined" /\ hdr' = h
               /\ UNCHANGED <<call, fmt, step, at, left, win, stream, held, Error>>
          ELSE Start(h, xa_read_header(h), "control", h.frames)
  BY DEF ReadXA
<1>2. /\ phase = "header" /\ fmt = "xa" /\ fmt \in Own /\ at = 0 /\ in = 0 /\ out = 0
  BY DEF ReadXA, Own, LoadIInv, Stage
<1>3. h.frames \in Nat /\ h.channels \in 1 .. 8
  BY XATypes
<1>4. CASE h.sane /\ h.frames = 0
  <2>1. NoFrames' /\ phase' = "undefined" /\ fmt' = fmt /\ call' = call
    BY <1>1, <1>2, <1>4 DEF NoFrames
  <2>2. Stage'
    BY <1>2, <2>1 DEF LoadIInv, Stage
  <2> QED BY <2>1, <2>2 DEF LoadIInv, Settled, Inside, Decoding, Strings
<1>5. CASE ~(h.sane /\ h.frames = 0)
  <2>1. Start(h, xa_read_header(h), "control", h.frames)
    BY <1>1, <1>5
  <2>2. fmt' = "xa" /\ at' = 0 /\ in' = 0 /\ out' = 0
    BY <1>2, <2>1 DEF Start, stream
  <2>3. ASSUME xa_read_header(h), phase' = "decode", hdr' = h, step' = "control", left' = h.frames
        PROVE  Decoding'
    <3>1. h.frames \in 1 .. h.frames
      BY <1>3, <1>5, <2>3 DEF xa_read_header
    <3>2. /\ left' = h.frames - (28 * 0 + 2 * at')
          /\ in' = h.channels * (15 * 0 + at' + 0)
          /\ out' = h.channels * (56 * 0 + 4 * at')
      BY <1>3, <2>2, <2>3
    <3>3. XADecoding'
      BY <2>2, <2>3, <3>1, <3>2 DEF XADecoding
    <3> QED BY <2>2, <3>3 DEF Decoding
  <2> QED BY <1>2, <2>1, <2>3, StartIInv
<1> QED BY <1>4, <1>5

-----------------------------------------------------------------------------
(* The decoders. *)
LEMMA KeepSizes == ASSUME Keep PROVE OutSize' = OutSize /\ Opened' = Opened
BY DEF Keep, OutSize, DecompressedSize, Opened

\* A step of a decoder goes on, fills the block, refuses or leaves its bounds.
LEMMA DecoderIInv ==
    ASSUME LoadIInv, phase = "decode", Keep, phase' \in {"decode", "decoded", "corrupt", "undefined"},
           phase' = "decode" => Decoding', phase' = "decoded" => out' = OutSize,
           phase' = "corrupt" => fmt = "bmp", phase' = "undefined" => NoData \/ ShortRows \/ LongRun
    PROVE  LoadIInv'
<1>1. fmt' = fmt /\ call' = call /\ hdr' = hdr /\ held' = held /\ Error' = Error
  BY DEF Keep
<1>2. Stage'
  BY <1>1, KeepSizes DEF LoadIInv, Stage, Filled
<1>3. Inside'
  BY <1>1 DEF Inside, NoData, ShortRows, LongRun
<1>4. Decoding'
  BY DEF Decoding
<1>5. Strings' /\ Settled'
  BY <1>1 DEF Strings, Settled
<1> QED BY <1>2, <1>3, <1>4, <1>5 DEF LoadIInv

LEMMA TouchInside ==
    ASSUME NEW i, NEW o, NEW next, Touch(i, o, next), i <= hdr.room, o <= OutSize
    PROVE  in' = i /\ out' = o /\ phase' = next
BY DEF Touch

LEMMA DecoderOf ==
    ASSUME LoadIInv, phase = "decode"
    PROVE  /\ step = "copy" => fmt = "wav"
           /\ step \in {"control", "frames"} => fmt = "xa"
           /\ step \in {"rows", "rle"} => fmt = "bmp"
           /\ step \in {"init", "frame", "subframe", "excite", "ones", "block"} => fmt = "utk"
           /\ fmt = "wav" => WAVDecoding
           /\ fmt = "xa" => XADecoding
           /\ fmt = "bmp" => BMPDecoding
           /\ fmt = "utk" => UTKDecoding
BY DEF LoadIInv, Stage, Decoding, Own, WAVDecoding, XADecoding, BMPDecoding, UTKDecoding

LEMMA CopyWAVIInv == ASSUME LoadIInv, CopyWAV PROVE LoadIInv'
<1>1. phase = "decode" /\ fmt = "wav" /\ hdr \in wavheader /\ wav_read_header(hdr)
  BY DecoderOf DEF CopyWAV, WAVDecoding
<1>2. hdr.size = hdr.room /\ hdr.room \in Nat /\ OutSize = hdr.size
  BY <1>1, WAVTypes DEF wav_read_header, OutSize
<1>3. phase' = "decoded" /\ out' = OutSize /\ Keep
  BY <1>2, TouchInside DEF CopyWAV
<1> QED BY <1>1, <1>3, DecoderIInv

\* What is read and written of k blocks and n pairs is what the header was
\* checked to have room for.
LEMMA XABound ==
    ASSUME NEW c \in 1 .. 8, NEW frames \in Nat, NEW k \in Nat, NEW n \in 0 .. 13, 28 * k + 2 * n < frames
    PROVE  /\ c * (15 * k + n + 2) <= xa_compressed_size(frames, c)
           /\ 28 * k + 2 * n + 2 <= frames => c * (56 * k + 4 * n + 4) <= frames * c * 2
<1>1. 15 * k + n + 2 <= (frames + 1) \div 2 + (frames + 27) \div 28
  <2>1. k + 1 <= (frames + 27) \div 28
    OBVIOUS
  <2>2. 14 * k + n + 1 <= (frames + 1) \div 2
    OBVIOUS
  <2> QED BY <2>1, <2>2
<1>2. (frames + 1) \div 2 + (frames + 27) \div 28 \in Nat
  OBVIOUS
<1>3. c * (15 * k + n + 2) <= c * ((frames + 1) \div 2 + (frames + 27) \div 28)
  BY <1>1, <1>2, TimesMonotone
<1>4. ASSUME 28 * k + 2 * n + 2 <= frames
      PROVE  c * (56 * k + 4 * n + 4) <= frames * c * 2
  <2>1. 56 * k + 4 * n + 4 <= 2 * frames
    BY <1>4
  <2>2. c * (56 * k + 4 * n + 4) <= c * (2 * frames)
    BY <2>1, TimesMonotone
  <2>3. c * (2 * frames) = frames * c * 2
    OBVIOUS
  <2> QED BY <2>2, <2>3
<1> QED BY <1>3, <1>4 DEF xa_compressed_size

LEMMA XAControlIInv == ASSUME LoadIInv, XAControl PROVE LoadIInv'
<1> DEFINE c == hdr.channels
           N == hdr.frames
<1>1. /\ phase = "decode" /\ fmt = "xa" /\ hdr \in xaheader /\ xa_read_header(hdr)
      /\ at = 0 /\ left \in 1 .. N
  BY DecoderOf DEF XAControl, XADecoding
<1>2. c \in 1 .. 8 /\ N \in Nat /\ hdr.room >= xa_compressed_size(N, c) /\ hdr.room \in Nat
  BY <1>1, XATypes DEF xa_read_header
<1>3. PICK k \in 0 .. N : left = N - 28 * k /\ in = c * (15 * k) /\ out = c * (56 * k)
  <2>1. PICK k \in 0 .. N : left = N - (28 * k + 2 * at) /\ in = c * (15 * k + at + 0) /\ out = c * (56 * k + 4 * at)
    BY <1>1, DecoderOf DEF XAControl, XADecoding
  <2> QED BY <1>1, <1>2, <2>1
<1>4. 28 * k + 2 * 0 < N
  BY <1>1, <1>2, <1>3
<1>5. in + c = c * (15 * k + 1) /\ in + c <= hdr.room
  <2>1. c * (15 * k + 0 + 2) <= xa_compressed_size(N, c)
    BY <1>2, <1>4, XABound
  <2>2. PICK size \in Nat : size = c * (15 * k + 0 + 2) /\ size = c * (15 * k + 1) + c
    <3> HIDE DEF c
    <3> QED BY <1>2
  <2>3. in + c = c * (15 * k + 1) /\ in + c \in Nat /\ in + c <= size
    <3> HIDE DEF c
    <3> QED BY <1>2, <1>3, <2>2
  <2>4. xa_compressed_size(N, c) \in Nat
    <3> HIDE DEF c, N
    <3> QED BY <1>2 DEF xa_compressed_size
  <2>5. size <= hdr.room
    <3> HIDE DEF c, N
    <3> QED BY <1>2, <2>1, <2>2, <2>4
  <2> QED BY <1>2, <2>2, <2>3, <2>5
<1>6. out <= OutSize
  BY <1>1, <1>2, <1>3, <1>4, XABound DEF OutSize
<1>7. phase' = "decode" /\ in' = in + c /\ out' = out /\ Keep /\ step' = "frames" /\ at' = 0 /\ left' = left
  BY <1>5, <1>6, TouchInside DEF XAControl
<1>8. XADecoding'
  BY <1>1, <1>3, <1>5, <1>7 DEF XADecoding, Keep
<1> QED BY <1>1, <1>7, <1>8, DecoderIInv DEF Decoding, Keep

LEMMA XAFramePairIInv == ASSUME LoadIInv, XAFramePair PROVE LoadIInv'
<1> DEFINE c == hdr.channels
           N == hdr.frames
           n == Least(left, 2)
<1>1. /\ phase = "decode" /\ fmt = "xa" /\ hdr \in xaheader /\ xa_read_header(hdr)
      /\ at \in 0 .. 13 /\ left \in 1 .. N
  BY DecoderOf DEF XAFramePair, XADecoding
<1>2. c \in 1 .. 8 /\ N \in Nat /\ hdr.room >= xa_compressed_size(N, c) /\ hdr.room \in Nat
  BY <1>1, XATypes DEF xa_read_header
<1>3. PICK k \in 0 .. N : /\ left = N - (28 * k + 2 * at) /\ in = c * (15 * k + at + 1)
                          /\ out = c * (56 * k + 4 * at)
  BY <1>1, DecoderOf DEF XAFramePair, XADecoding
<1>4. /\ in + c <= hdr.room /\ in + c = c * (15 * k + at + 2)
      /\ out + n * 2 * c <= N * c * 2
      /\ left <= 2 => n = left /\ out + n * 2 * c = N * c * 2
      /\ left > 2  => n = 2 /\ out + n * 2 * c = c * (56 * k + 4 * at + 4)
  <2> HIDE DEF c, N, n
  <2>1. in + c = c * (15 * k + at + 2) /\ in + c \in Nat
    BY <1>1, <1>2, <1>3
  <2>2. 28 * k + 2 * at < N
    BY <1>1, <1>2, <1>3
  <2>3. in + c <= hdr.room
    <3>1. c * (15 * k + at + 2) <= xa_compressed_size(N, c)
      <4>1. k \in Nat /\ at \in 0 .. 13 /\ N \in Nat /\ c \in 1 .. 8
        BY <1>1, <1>2
      <4> QED BY <2>2, <4>1, XABound, Zenon
    <3>2. xa_compressed_size(N, c) \in Nat
      BY <1>2 DEF xa_compressed_size
    <3> QED BY <1>2, <2>1, <3>1, <3>2
  <2>4. CASE left <= 2
    <3>1. n = left
      BY <1>1, <1>2, <2>4 DEF n, Least
    <3>2. out + left * 2 * c = c * (2 * N)
      BY <1>1, <1>2, <1>3
    <3>3. c * (2 * N) = N * c * 2 /\ N * c * 2 \in Nat
      BY <1>2
    <3> QED BY <1>1, <1>2, <2>1, <2>3, <2>4, <3>1, <3>2, <3>3
  <2>5. CASE left > 2
    <3>1. n = 2
      BY <1>1, <1>2, <2>5 DEF n, Least
    <3>2. out + 2 * 2 * c = c * (56 * k + 4 * at + 4)
      BY <1>1, <1>2, <1>3
    <3>3. c * (56 * k + 4 * at + 4) <= N * c * 2
      <4>1. 28 * k + 2 * at + 2 <= N
        BY <1>1, <1>2, <1>3, <2>5
      <4> QED BY <1>1, <1>2, <2>2, <4>1, XABound
    <3> QED BY <1>1, <1>2, <2>1, <2>3, <2>5, <3>1, <3>2, <3>3
  <2> QED BY <1>1, <1>2, <2>4, <2>5
<1>5. OutSize = N * c * 2
  BY <1>1 DEF OutSize
<1>6. /\ in' = in + c /\ out' = out + n * 2 * c
      /\ phase' = (IF left <= 2 THEN "decoded" ELSE "decode")
      /\ left' = left - n /\ at' = (at + 1) % 14
      /\ step' = (IF at = 13 THEN "control" ELSE "frames") /\ Keep
  BY <1>4, <1>5, TouchInside DEF XAFramePair
<1>7. CASE left <= 2
  <2>1. phase' = "decoded" /\ out' = OutSize
    BY <1>4, <1>5, <1>6, <1>7
  <2> QED BY <1>1, <1>6, <2>1, DecoderIInv
<1>8. CASE left > 2
  <2>0. phase' = "decode" /\ left' = left - 2 /\ in' = c * (15 * k + at + 2) /\ out' = c * (56 * k + 4 * at + 4)
    BY <1>1, <1>4, <1>6, <1>8
  <2>1. left' \in 1 .. N /\ 28 * k + 2 * at + 2 < N /\ k + 1 \in 0 .. N /\ c \in 1 .. 8
    <3> HIDE DEF c, N
    <3> QED BY <1>1, <1>2, <1>3, <1>8, <2>0
  <2>2. CASE at = 13
    <3>1. at' = 0 /\ step' = "control"
      BY <1>6, <2>2
    <3>2. left' = N - (28 * (k + 1) + 2 * 0) /\ in' = c * (15 * (k + 1) + 0 + 0) /\ out' = c * (56 * (k + 1) + 4 * 0)
      <4> HIDE DEF c, N
      <4> QED BY <1>2, <1>3, <2>0, <2>1, <2>2
    <3>3. XADecoding'
      BY <1>1, <1>6, <2>1, <3>1, <3>2 DEF XADecoding, Keep
    <3> QED BY <1>1, <1>6, <2>0, <3>3, DecoderIInv DEF Decoding, Keep
  <2>3. CASE at # 13
    <3>1. at' = at + 1 /\ at' \in 0 .. 13 /\ step' = "frames"
      BY <1>1, <1>6, <2>3
    <3>2. /\ left' = N - (28 * k + 2 * at') /\ in' = c * (15 * k + at' + 1)
          /\ out' = c * (56 * k + 4 * at')
      <4> HIDE DEF c, N
      <4> QED BY <1>1, <1>2, <1>3, <2>0, <2>1, <3>1
    <3>3. XADecoding'
      BY <1>1, <1>6, <2>1, <3>1, <3>2 DEF XADecoding, Keep
    <3> QED BY <1>1, <1>6, <2>0, <3>3, DecoderIInv DEF Decoding, Keep
  <2> QED BY <2>2, <2>3
<1> QED BY <1>1, <1>7, <1>8

\* The padding of the rows but the last is no more than the header asks for,
\* unless the pixels are of three bytes and a row has three too many.
LEMMA PaddingFits ==
    ASSUME NEW w \in Nat \ {0}, NEW h \in Nat \ {0}, NEW b \in {1, 3}, b = 1 \/ w % 4 # 3 \/ h = 1
    PROVE  (h - 1) * PadTo4(w * b) <= IF w % 4 = 0 THEN 0 ELSE (h - 1) * (4 - (w % 4))
<1>0. PICK r \in 0 .. 3 : r = w % 4
  OBVIOUS
<1>1. PadTo4(w * b) \in 0 .. 3 /\ h - 1 \in Nat
  BY DEF PadTo4
<1>2. CASE h = 1
  BY <1>0, <1>1, <1>2
<1>3. CASE h # 1
  <2>1. CASE w % 4 = 0
    <3>1. w % 4 = 0 /\ (w * 3) % 4 = 0 /\ w * 1 = w
      BY <2>1
    <3>2. PadTo4(w) = 0 /\ PadTo4(w * 3) = 0
      BY <3>1 DEF PadTo4
    <3>3. PadTo4(w * b) = 0
      BY <3>1, <3>2
    <3> QED BY <1>1, <2>1, <3>3
  <2>2. CASE w % 4 # 0
    <3>1. PadTo4(w * b) <= 4 - r
      BY <1>0, <1>3, <2>2 DEF PadTo4
    <3>2. (h - 1) * PadTo4(w * b) <= (h - 1) * (4 - r)
      BY <1>1, <3>1, TimesMonotone
    <3> QED BY <1>0, <2>2, <3>2
  <2> QED BY <2>1, <2>2
<1> QED BY <1>2, <1>3

LEMMA BMPRowIInv == ASSUME LoadIInv, BMPRow PROVE LoadIInv'
<1> DEFINE w == hdr.w
           h == hdr.h
           b == IF hdr.bit = 24 THEN 3 ELSE 1
           pitch == IF hdr.bit = 24 THEN w * 3 ELSE w
           pad == PadTo4(pitch)
           i == at * (pitch + pad) + pitch
           o == (at + 1) * w * 3
<1>1. /\ phase = "decode" /\ fmt = "bmp" /\ hdr \in bmpheader /\ bmp_read_header(hdr) /\ ~hdr.rle
      /\ left \in 1 .. h /\ at = h - left /\ step = "rows"
  BY DecoderOf DEF BMPRow, BMPDecoding
<1>2. w \in Nat \ {0} /\ h \in Nat \ {0} /\ hdr.comp \in Nat /\ hdr.room \in Nat /\ hdr.comp <= hdr.room
  BY <1>1, BMPTypes
<1>3. b \in {1, 3} /\ pitch = w * b /\ (hdr.bit # 24 => b = 1) /\ (hdr.bit = 24 => b = 3)
  <2> HIDE DEF w
  <2> QED BY <1>2
<1>4. OutSize = w * h * 3 /\ w * h * 3 \in Nat
  <2>1. OutSize = w * h * 3
    BY <1>1 DEF OutSize, DecompressedSize
  <2>2. w * h * 3 \in Nat
    <3> HIDE DEF w, h
    <3>1. PICK n \in Nat : n = w * h
      BY <1>2
    <3> QED BY <3>1
  <2> QED BY <2>1, <2>2
<1>5. /\ Touch(i, o, IF left = 1 THEN "decoded" ELSE "decode") /\ at' = at + 1 /\ left' = left - 1
      /\ step' = step /\ Keep
  BY DEF BMPRow
<1>6. at \in 0 .. h - 1 /\ pitch \in Nat /\ pad \in Nat
  <2>1. at \in 0 .. h - 1
    <3> HIDE DEF h
    <3> QED BY <1>1, <1>2
  <2>2. pitch \in Nat
    <3> HIDE DEF w
    <3> QED BY <1>2
  <2> HIDE DEF pitch
  <2> QED BY <2>1, <2>2 DEF PadTo4
<1>7. o <= w * h * 3 /\ i <= pitch * h + (h - 1) * pad
  <2> HIDE DEF w, h, pitch, pad
  <2>1. (at + 1) * w * 3 <= w * h * 3
    BY <1>2, <1>6, RowsFit
  <2>2. at * (pitch + pad) + pitch <= pitch * h + (h - 1) * pad
    <3>1. 1 \in Nat \ {0}
      OBVIOUS
    <3> QED BY <1>2, <1>6, <3>1, RowsFit
  <2> QED BY <2>1, <2>2 DEF o, i
<1>8. hdr.comp >= w * h * b + (IF w % 4 = 0 THEN 0 ELSE (h - 1) * (4 - (w % 4)))
  <2>1. hdr.comp >= DecompressedSize(hdr) \div (IF hdr.bit = 24 THEN 1 ELSE 3) + bmp_padding(hdr)
    BY <1>1 DEF bmp_read_header
  <2>2. (w * h * 3) \div (IF hdr.bit = 24 THEN 1 ELSE 3) = w * h * b
    <3>1. PICK n \in Nat : n = w * h
      <4> HIDE DEF w, h
      <4> QED BY <1>2
    <3>2. (n * 3) \div 1 = n * 3 /\ (n * 3) \div 3 = n /\ n * 1 = n
      OBVIOUS
    <3> QED BY <3>1, <3>2
  <2> QED BY <2>1, <2>2 DEF DecompressedSize, bmp_padding
<1>9. ASSUME b = 1 \/ w % 4 # 3 \/ h = 1
      PROVE  i <= hdr.room
  <2>1. (h - 1) * pad <= IF w % 4 = 0 THEN 0 ELSE (h - 1) * (4 - (w % 4))
    <3> HIDE DEF w, h, b, pitch
    <3>1. (h - 1) * PadTo4(w * b) <= IF w % 4 = 0 THEN 0 ELSE (h - 1) * (4 - (w % 4))
      <4>1. w \in Nat \ {0} /\ h \in Nat \ {0} /\ b \in {1, 3}
        BY <1>2, <1>3
      <4> QED BY <1>9, <4>1, PaddingFits, Zenon
    <3> QED BY <1>3, <3>1 DEF pad
  <2>2. pitch * h = w * h * b
    <3> HIDE DEF w, h, b, pitch
    <3> QED BY <1>2, <1>3
  <2>3. PICK m \in Nat, n \in Nat, q \in Nat, x \in Nat :
           m = w * h * b /\ n = (h - 1) * pad /\ q = (IF w % 4 = 0 THEN 0 ELSE (h - 1) * (4 - (w % 4))) /\ x = i
    <3>1. w * h * b \in Nat /\ h - 1 \in Nat /\ (h - 1) * pad \in Nat /\ (h - 1) * (4 - (w % 4)) \in Nat
      <4> HIDE DEF w, h, b, pad
      <4>1. PICK r \in 0 .. 3 : r = w % 4
        BY <1>2
      <4>2. h - 1 \in Nat /\ 4 - r \in Nat
        BY <1>2
      <4> QED BY <1>2, <1>3, <1>6, <4>1, <4>2
    <3>2. i \in Nat
      <4> HIDE DEF pitch, pad
      <4> QED BY <1>6
    <3> HIDE DEF w, h, b, pad, i
    <3> QED BY <3>1, <3>2
  <2> HIDE DEF w, h, b, pitch, pad, i
  <2> QED BY <1>2, <1>7, <1>8, <2>1, <2>2, <2>3
<1>10. ~(b = 1 \/ w % 4 # 3 \/ h = 1) => ShortRows
  <2> HIDE DEF h
  <2>1. h # 1 => h > 1
    BY <1>2
  <2> QED BY <1>1, <1>3, <2>1 DEF ShortRows, h
<1>11. CASE phase' = "undefined"
  <2>1. ShortRows
    BY <1>4, <1>5, <1>7, <1>9, <1>10, <1>11 DEF Touch
  <2> QED BY <1>1, <1>5, <1>11, <2>1, DecoderIInv
<1>12. CASE phase' # "undefined"
  <2>1. out' = o /\ phase' = (IF left = 1 THEN "decoded" ELSE "decode")
    BY <1>5, <1>12 DEF Touch
  <2>2. CASE left = 1
    <3>1. o = w * h * 3
      <4> HIDE DEF w, h
      <4>1. at + 1 = h
        BY <1>1, <1>2, <2>2
      <4>2. (at + 1) * w * 3 = w * h * 3
        BY <1>2, <4>1
      <4> QED BY <4>2 DEF o
    <3> QED BY <1>1, <1>4, <1>5, <2>1, <2>2, <3>1, DecoderIInv
  <2>3. CASE left # 1
    <3>1. left' \in 1 .. h /\ at' = h - left' /\ out' = at' * w * 3
      <4> HIDE DEF w, h
      <4> QED BY <1>1, <1>2, <1>5, <2>1, <2>3 DEF o
    <3>2. BMPDecoding'
      BY <1>1, <1>5, <3>1 DEF BMPDecoding, Keep
    <3> QED BY <1>1, <1>5, <2>1, <2>3, <3>2, DecoderIInv DEF Decoding, Keep
  <2> QED BY <2>2, <2>3
<1> QED BY <1>11, <1>12

\* The run length decoder only ends at the mark that is its last command.
LEMMA BMPRleIInv == ASSUME LoadIInv, BMPRle PROVE LoadIInv'
<1>1. /\ phase = "decode" /\ step = "rle" /\ fmt = "bmp" /\ hdr \in bmpheader /\ bmp_read_header(hdr)
      /\ hdr.rle
  BY DecoderOf DEF BMPRle, BMPRunOut, BMPEndOfLine, BMPEndOfBitmap, BMPAbsolute, BMPRun, BMPDecoding
<1>2. LongRun /\ Keep /\ step' = step
  BY <1>1 DEF LongRun, BMPRle
<1>3. /\ phase' \in {"decode", "decoded", "corrupt", "undefined"}
      /\ phase' = "decoded" => out' = OutSize
  BY <1>1 DEF BMPRle, BMPRunOut, BMPEndOfLine, BMPEndOfBitmap, BMPAbsolute, BMPRun, RLEEnd, Touch
<1>4. BMPDecoding'
  BY <1>1, <1>2 DEF BMPDecoding, Keep
<1> QED BY <1>1, <1>2, <1>3, <1>4, DecoderIInv DEF Decoding, Keep

(* UTalk. *)
LEMMA UTKState ==
    ASSUME LoadIInv, phase = "decode", step \in {"frame", "subframe", "excite", "ones", "block"}
    PROVE  /\ fmt = "utk" /\ hdr \in utkheader /\ hdr.room \in Nat /\ hdr.frames \in Nat
           /\ in \in Int /\ in <= hdr.room /\ bits \in Nat
           /\ Pos \in [in : Int, bits : Nat] /\ Pos.in <= hdr.room
           /\ left \in 1 .. hdr.frames /\ out = 2 * (hdr.frames - left)
           /\ win \in Windows
           /\ step \in {"excite", "ones"} => win.i \in 0 .. 107 /\ win.i % win.interval = 0
<1>1. fmt = "utk" /\ UTKDecoding
  BY DecoderOf
<1> QED BY <1>1, UTKTypes DEF UTKDecoding, Pos

\* A step that reads on and leaves what was decoded as it is.
LEMMA UTKIInv ==
    ASSUME LoadIInv, phase = "decode", step \in {"frame", "subframe", "excite", "ones", "block"},
           UTKKeep, phase' = "decode",
           in' \in Int, in' <= hdr.room, bits' \in Nat, win' \in Windows,
           step' \in {"subframe", "excite", "ones", "block"},
           step' \in {"excite", "ones"} => win'.i \in 0 .. 107 /\ win'.i % win'.interval = 0
    PROVE  LoadIInv'
<1>1. UTKDecoding'
  BY UTKState DEF UTKDecoding, UTKKeep, Keep
<1> QED BY <1>1, UTKState, DecoderIInv DEF Decoding, UTKKeep, Keep

LEMMA InitUTKParametersIInv == ASSUME LoadIInv, InitUTKParameters PROVE LoadIInv'
<1>1. /\ phase = "decode" /\ step = "init" /\ fmt = "utk" /\ hdr \in utkheader
      /\ out = 0 /\ left = hdr.frames /\ UTKKeep /\ Keep /\ left' = left /\ out' = out
  BY DecoderOf DEF InitUTKParameters, UTKDecoding, UTKKeep
<1>2. hdr.room \in Nat /\ hdr.frames \in Nat
  BY <1>1, UTKTypes
<1>3. CASE hdr.room = 0
  <2>1. phase' = "undefined" /\ NoData
    BY <1>1, <1>3 DEF InitUTKParameters, NoData
  <2> QED BY <1>1, <2>1, DecoderIInv
<1>4. CASE hdr.room # 0
  <2> DEFINE r == Skip(hdr.room, [in |-> 1, bits |-> 8], 15)
  <2>1. /\ in' = r.in /\ bits' = r.bits
        /\ \E h \in BOOLEAN : win' = [NoWin EXCEPT !.halved = h, !.interval = IF h THEN 2 ELSE 1]
        /\ IF left = 0 THEN phase' = "decoded" /\ UNCHANGED step ELSE step' = "frame" /\ UNCHANGED phase
    BY <1>4 DEF InitUTKParameters, MoveTo
  <2>2. r \in [in : Int, bits : Nat] /\ r.in <= hdr.room
    <3>1. [in |-> 1, bits |-> 8] \in [in : Int, bits : Nat]
      OBVIOUS
    <3> QED BY <1>2, <3>1, SkipInside
  <2>3. win' \in Windows
    <3>1. PICK h \in BOOLEAN : win' = [NoWin EXCEPT !.halved = h, !.interval = IF h THEN 2 ELSE 1]
      BY <2>1
    <3>2. win' = [i |-> 0, table |-> 0, interval |-> IF h THEN 2 ELSE 1, voiced |-> FALSE, halved |-> h, odd |-> FALSE]
      BY <3>1 DEF NoWin
    <3> QED BY <3>2 DEF Windows
  <2>4. CASE left = 0
    <3>1. phase' = "decoded" /\ out' = OutSize
      BY <1>1, <1>2, <2>1, <2>4 DEF OutSize
    <3> QED BY <1>1, <3>1, DecoderIInv
  <2>5. CASE left # 0
    <3>1. phase' = "decode" /\ step' = "frame" /\ in' \in Int /\ in' <= hdr.room /\ bits' \in Nat
      BY <1>1, <2>1, <2>2, <2>5
    <3>2. left' \in 1 .. hdr.frames /\ out' = 2 * (hdr.frames - left')
      BY <1>1, <1>2, <2>5
    <3>3. UTKDecoding'
      BY <1>1, <2>3, <3>1, <3>2 DEF UTKDecoding, Keep
    <3> QED BY <1>1, <3>1, <3>3, DecoderIInv DEF Decoding, Keep
  <2> QED BY <2>4, <2>5
<1> QED BY <1>3, <1>4

LEMMA DecodeFrameIInv == ASSUME LoadIInv, DecodeFrame PROVE LoadIInv'
<1>1. /\ phase = "decode" /\ step = "frame" /\ step' = "subframe" /\ UTKKeep /\ phase' = "decode"
      /\ in' = Skip(hdr.room, Pos, 64).in /\ bits' = Skip(hdr.room, Pos, 64).bits
  BY DEF DecodeFrame, MoveTo
<1>2. PICK v \in BOOLEAN : win' = [win EXCEPT !.voiced = v]
  BY DEF DecodeFrame
<1>3. in' \in Int /\ in' <= hdr.room /\ bits' \in Nat
  BY <1>1, UTKState, SkipInside
<1>4. win' \in Windows
  BY <1>1, <1>2, UTKState DEF Windows
<1> QED BY <1>1, <1>3, <1>4, UTKIInv

\* What an assignment to a window leaves alone.
LEMMA WindowTable ==
    ASSUME NEW w \in Windows, NEW n \in Int, NEW t \in 0 .. 1
    PROVE  /\ [w EXCEPT !.i = n, !.table = t] \in Windows
           /\ [w EXCEPT !.i = n, !.table = t].i = n
           /\ [w EXCEPT !.i = n, !.table = t].interval = w.interval
<1> DEFINE u == [w EXCEPT !.i = n]
           v == [u EXCEPT !.table = t]
<1>1. u \in Windows /\ u.i = n /\ u.interval = w.interval
  BY DEF Windows
<1>2. v \in Windows /\ v.i = n /\ v.interval = u.interval
  <2> HIDE DEF u
  <2> QED BY <1>1 DEF Windows
<1>3. v = [w EXCEPT !.i = n, !.table = t]
  OBVIOUS
<1> QED BY <1>1, <1>2, <1>3

LEMMA WindowOdd ==
    ASSUME NEW w \in Windows, NEW n \in Int, NEW o \in BOOLEAN
    PROVE  /\ [w EXCEPT !.i = n, !.odd = o] \in Windows
           /\ [w EXCEPT !.i = n, !.odd = o].i = n
           /\ [w EXCEPT !.i = n, !.odd = o].interval = w.interval
<1> DEFINE u == [w EXCEPT !.i = n]
           v == [u EXCEPT !.odd = o]
<1>1. u \in Windows /\ u.i = n /\ u.interval = w.interval
  BY DEF Windows
<1>2. v \in Windows /\ v.i = n /\ v.interval = u.interval
  <2> HIDE DEF u
  <2> QED BY <1>1 DEF Windows
<1>3. v = [w EXCEPT !.i = n, !.odd = o]
  OBVIOUS
<1> QED BY <1>1, <1>2, <1>3

LEMMA SubframeIInv == ASSUME LoadIInv, Subframe PROVE LoadIInv'
<1>1. phase = "decode" /\ step = "subframe" /\ UTKKeep /\ phase' = "decode"
  BY DEF Subframe
<1>2. CASE at = 4
  <2>1. step' = "block" /\ in' = in /\ bits' = bits /\ win' = win
    BY <1>2 DEF Subframe
  <2> QED BY <1>1, <2>1, UTKState, UTKIInv
<1>3. CASE at # 4
  <2> DEFINE n == 8 + 4 + 6 + (IF win.halved THEN 2 ELSE 0)
  <2>1. /\ in' = Skip(hdr.room, Pos, n).in /\ bits' = Skip(hdr.room, Pos, n).bits
        /\ win' = [win EXCEPT !.i = 0, !.table = 0] /\ step' = "excite"
    BY <1>3 DEF Subframe, MoveTo
  <2>2. in' \in Int /\ in' <= hdr.room /\ bits' \in Nat
    <3>1. n \in Nat
      OBVIOUS
    <3> HIDE DEF n
    <3> QED BY <1>1, <2>1, <3>1, UTKState, SkipInside
  <2>3. win' \in Windows /\ win'.i = 0 /\ win'.interval \in 1 .. 2
    <3>1. win \in Windows
      BY <1>1, UTKState
    <3>2. win' \in Windows /\ win'.i = 0 /\ win'.interval = win.interval
      <4>1. 0 \in Int /\ 0 \in 0 .. 1
        OBVIOUS
      <4> QED BY <2>1, <3>1, <4>1, WindowTable, ZenonT(60)
    <3> QED BY <3>1, <3>2 DEF Windows
  <2>4. win'.i \in 0 .. 107 /\ win'.i % win'.interval = 0
    BY <2>3
  <2> QED BY <1>1, <2>1, <2>2, <2>3, <2>4, UTKIInv
<1> QED BY <1>2, <1>3

\* A window takes n samples more, which it has room for.
LEMMA FillIInv ==
    ASSUME LoadIInv, phase = "decode", step \in {"excite", "ones"}, UTKKeep, NEW n \in Nat, n >= 1,
           win.i + n * win.interval <= 108, Fill(n),
           in' \in Int, in' <= hdr.room, bits' \in Nat,
           win' \in Windows, win'.i = win.i + n * win.interval, win'.interval = win.interval
    PROVE  LoadIInv'
<1>1. PICK i \in 0 .. 107, d \in 1 .. 2 : i = win.i /\ d = win.interval /\ i % d = 0
  BY UTKState DEF Windows
<1>2. i + n * d <= 108 /\ (i + n * d) % d = 0 /\ i + n * d \in Nat
  <2>1. CASE d = 1
    BY <1>1, <2>1
  <2>2. CASE d = 2
    BY <1>1, <2>2
  <2> QED BY <2>1, <2>2
<1>3. phase' = "decode" /\ step' = (IF i + n * d >= 108 THEN "subframe" ELSE "excite")
  BY <1>1, <1>2 DEF Fill
<1>4. step' \in {"excite", "ones"} => win'.i \in 0 .. 107 /\ win'.i % win'.interval = 0
  BY <1>1, <1>2, <1>3
<1> QED BY <1>3, <1>4, UTKIInv

\* One sample more: the windows of every other sample have an even number.
LEMMA OneFits ==
    ASSUME LoadIInv, phase = "decode", step \in {"excite", "ones"}
    PROVE  win.i + 1 * win.interval <= 108 /\ 1 * win.interval = win.interval
<1>1. PICK i \in 0 .. 107, d \in 1 .. 2 : i = win.i /\ d = win.interval /\ i % d = 0
  BY UTKState DEF Windows
<1>2. i + 1 * d <= 108 /\ 1 * d = d
  <2>1. CASE d = 1
    BY <1>1, <2>1
  <2>2. CASE d = 2
    BY <1>1, <2>2
  <2> QED BY <2>1, <2>2
<1> QED BY <1>1, <1>2

LEMMA ExciteUnvoicedIInv == ASSUME LoadIInv, ExciteUnvoiced PROVE LoadIInv'
<1>1. /\ phase = "decode" /\ step = "excite" /\ UTKKeep /\ Fill(1)
      /\ win' = [win EXCEPT !.i = @ + win.interval]
  BY DEF ExciteUnvoiced
<1>2. /\ win \in Windows /\ Pos \in [in : Int, bits : Nat] /\ hdr.room \in Nat
      /\ win.i \in Int /\ win.interval \in Int
  BY <1>1, UTKState DEF Windows
<1>3. PICK b \in Values(Pos, 1) : in' = Skip(hdr.room, Pos, 1 + b).in /\ bits' = Skip(hdr.room, Pos, 1 + b).bits
  BY DEF ExciteUnvoiced, MoveTo
<1>4. in' \in Int /\ in' <= hdr.room /\ bits' \in Nat
  <2>1. b \in Nat
    BY <1>2, ValuesNat
  <2>2. 1 + b \in Nat
    BY <2>1
  <2> QED BY <1>2, <1>3, <2>2, SkipInside
<1>5. win' \in Windows /\ win'.i = win.i + win.interval /\ win'.interval = win.interval
  BY <1>1, <1>2 DEF Windows
<1> QED BY <1>1, <1>4, <1>5, OneFits, FillIInv

LEMMA OnesIInv == ASSUME LoadIInv, Ones PROVE LoadIInv'
<1>1. phase = "decode" /\ step = "ones" /\ UTKKeep
  BY DEF Ones
<1>2. /\ win \in Windows /\ Pos \in [in : Int, bits : Nat] /\ hdr.room \in Nat /\ Pos.in <= hdr.room
      /\ win.i \in Int /\ win.interval \in Int /\ win.odd \in BOOLEAN
      /\ win.i \in 0 .. 107 /\ win.i % win.interval = 0
  BY <1>1, UTKState DEF Windows
<1>3. CASE MoveTo(ReadBits(hdr.room, Pos, 1)) /\ win' = [win EXCEPT !.odd = ~@] /\ UNCHANGED <<phase, step, at>>
  <2>1. in' \in Int /\ in' <= hdr.room /\ bits' \in Nat
    BY <1>2, <1>3, ReadBitsInside DEF MoveTo
  <2>2. win' \in Windows /\ win'.i = win.i /\ win'.interval = win.interval
    <3>1. PICK o \in BOOLEAN : o = ~win.odd
      OBVIOUS
    <3>2. win' = [win EXCEPT !.odd = o]
      BY <1>3, <3>1, Zenon
    <3>3. win \in Windows
      BY <1>2
    <3> QED BY <3>2, <3>3 DEF Windows
  <2> QED BY <1>1, <1>2, <1>3, <2>1, <2>2, UTKIInv
<1>4. CASE MoveTo(Skip(hdr.room, Pos, 2)) /\ Fill(1) /\ win' = [win EXCEPT !.i = @ + win.interval, !.odd = FALSE]
  <2>1. in' \in Int /\ in' <= hdr.room /\ bits' \in Nat
    BY <1>2, <1>4, SkipInside DEF MoveTo
  <2>2. win' = [win EXCEPT !.i = win.i + win.interval, !.odd = FALSE] /\ win.i + win.interval \in Int
    BY <1>2, <1>4
  <2>3. win' \in Windows /\ win'.i = win.i + win.interval /\ win'.interval = win.interval
    BY <1>2, <2>2, WindowOdd
  <2> QED BY <1>1, <1>4, <2>1, <2>3, OneFits, FillIInv
<1> QED BY <1>3, <1>4 DEF Ones

LEMMA ExciteVoicedIInv == ASSUME LoadIInv, ExciteVoiced PROVE LoadIInv'
<1>1. phase = "decode" /\ step = "excite" /\ UTKKeep
  BY DEF ExciteVoiced
<1>2. /\ win \in Windows /\ Pos \in [in : Int, bits : Nat] /\ hdr.room \in Nat /\ Pos.in <= hdr.room
      /\ win.i \in 0 .. 107 /\ win.interval \in 1 .. 2 /\ win.table \in 0 .. 1
      /\ win.i % win.interval = 0
  BY <1>1, UTKState DEF Windows
<1> DEFINE r(code) == ReadBits(hdr.room, Pos, UTKCodeSkips[code + 1])
<1>3. PICK code \in IF bits = 0 THEN {4} ELSE UTKCodebook[win.table] :
         \/ /\ code >= 4
            /\ MoveTo(r(code)) /\ Fill(1)
            /\ win' = [win EXCEPT !.i = @ + win.interval, !.table = (IF code < 2 \/ code > 8 THEN 1 ELSE 0)]
         \/ /\ code \in {2, 3}
            /\ \E x \in Values(r(code), 6) :
                  LET n == Least(x + 7, (108 - win.i) \div win.interval) IN
                  /\ MoveTo(ReadBits(hdr.room, r(code), 6))
                  /\ Fill(n) /\ win' = [win EXCEPT !.i = @ + n * win.interval, !.table = (IF code < 2 \/ code > 8 THEN 1 ELSE 0)]
         \/ /\ code < 2
            /\ MoveTo(r(code)) /\ step' = "ones" /\ win' = [win EXCEPT !.table = (IF code < 2 \/ code > 8 THEN 1 ELSE 0)]
            /\ UNCHANGED <<phase, at>>
  BY DEF ExciteVoiced
<1>4. code \in 0 .. 28 /\ UTKCodeSkips[code + 1] \in 0 .. 8
  BY <1>2, CodeSkipsNat DEF UTKCodeSkips
<1>5. PICK t \in 0 .. 1 : t = IF code < 2 \/ code > 8 THEN 1 ELSE 0
  OBVIOUS
<1>6. r(code) \in [in : Int, bits : Nat] /\ r(code).in <= hdr.room
  BY <1>2, <1>4, ReadBitsInside
<1> HIDE DEF r
<1>7. CASE /\ MoveTo(r(code)) /\ Fill(1)
           /\ win' = [win EXCEPT !.i = @ + win.interval, !.table = t]
  <2>1. in' \in Int /\ in' <= hdr.room /\ bits' \in Nat
    BY <1>6, <1>7 DEF MoveTo
  <2>2. win' = [win EXCEPT !.i = win.i + win.interval, !.table = t] /\ win.i + win.interval \in Int
    BY <1>2, <1>7
  <2>3. win' \in Windows /\ win'.i = win.i + win.interval /\ win'.interval = win.interval
    <3>1. win \in Windows
      BY <1>2
    <3>2. PICK m \in Int : m = win.i + win.interval
      BY <2>2
    <3>3. win' = [win EXCEPT !.i = m, !.table = t]
      BY <2>2, <3>2
    <3>4. win' \in Windows /\ win'.i = m /\ win'.interval = win.interval
      BY <3>1, <3>3, WindowTable, ZenonT(60)
    <3> QED BY <3>2, <3>4
  <2> QED BY <1>1, <1>7, <2>1, <2>3, OneFits, FillIInv
<1>8. ASSUME NEW x \in Values(r(code), 6), NEW n, n = Least(x + 7, (108 - win.i) \div win.interval),
             MoveTo(ReadBits(hdr.room, r(code), 6)), Fill(n),
             win' = [win EXCEPT !.i = @ + n * win.interval, !.table = t]
      PROVE  LoadIInv'
  <2>1. x \in Nat
    BY <1>6, ValuesNat
  <2>2. in' \in Int /\ in' <= hdr.room /\ bits' \in Nat
    BY <1>2, <1>6, <1>8, ReadBitsInside DEF MoveTo
  <2>3. PICK i \in 0 .. 107, d \in 1 .. 2 : i = win.i /\ d = win.interval /\ i % d = 0
    BY <1>2
  <2>4. n \in Nat /\ n >= 1 /\ i + n * d <= 108 /\ i + n * d \in Int
    <3>1. CASE d = 1
      BY <1>8, <2>1, <2>3, <3>1 DEF Least
    <3>2. CASE d = 2
      BY <1>8, <2>1, <2>3, <3>2 DEF Least
    <3> QED BY <3>1, <3>2
  <2>5. win' = [win EXCEPT !.i = win.i + n * win.interval, !.table = t]
    BY <1>2, <1>8
  <2>6. win' \in Windows /\ win'.i = win.i + n * win.interval /\ win'.interval = win.interval
    <3>1. win.i + n * win.interval \in Int
      BY <2>3, <2>4
    <3>2. win \in Windows
      BY <1>2
    <3>3. PICK m \in Int : m = win.i + n * win.interval
      BY <3>1
    <3>4. win' = [win EXCEPT !.i = m, !.table = t]
      BY <2>5, <3>3
    <3>5. win' \in Windows /\ win'.i = m /\ win'.interval = win.interval
      BY <3>2, <3>4, WindowTable, ZenonT(60)
    <3> QED BY <3>3, <3>5
  <2> QED BY <1>1, <1>8, <2>2, <2>3, <2>4, <2>6, FillIInv
<1>9. CASE /\ MoveTo(r(code)) /\ step' = "ones" /\ win' = [win EXCEPT !.table = t]
           /\ UNCHANGED <<phase, at>>
  <2>1. in' \in Int /\ in' <= hdr.room /\ bits' \in Nat
    BY <1>6, <1>9 DEF MoveTo
  <2>2. win' \in Windows /\ win'.i = win.i /\ win'.interval = win.interval
    BY <1>2, <1>5, <1>9 DEF Windows
  <2> QED BY <1>1, <1>2, <1>9, <2>1, <2>2, UTKIInv
<1> QED BY <1>3, <1>5, <1>7, <1>8, <1>9

LEMMA utk_decodeIInv == ASSUME LoadIInv, utk_decode PROVE LoadIInv'
<1> DEFINE n == Least(left, 432)
<1>1. /\ phase = "decode" /\ step = "block" /\ Keep /\ left' = left - n /\ step' = "frame"
      /\ Touch(in, out + 2 * n, IF left = n THEN "decoded" ELSE "decode")
      /\ bits' = bits /\ win' = win
  BY DEF utk_decode
<1>2. /\ fmt = "utk" /\ hdr \in utkheader /\ hdr.frames \in Nat /\ in \in Int /\ in <= hdr.room
      /\ bits \in Nat /\ left \in 1 .. hdr.frames /\ out = 2 * (hdr.frames - left) /\ win \in Windows
  BY <1>1, UTKState
<1>3. n \in 1 .. left
  BY <1>2 DEF Least
<1>4. OutSize = 2 * hdr.frames /\ out + 2 * n <= 2 * hdr.frames
  <2> HIDE DEF n
  <2> QED BY <1>2, <1>3 DEF OutSize
<1>5. in' = in /\ out' = out + 2 * n /\ phase' = (IF left = n THEN "decoded" ELSE "decode")
  <2> HIDE DEF n
  <2> QED BY <1>1, <1>2, <1>4, TouchInside
<1> HIDE DEF n
<1>6. CASE left = n
  <2>1. out' = OutSize
    BY <1>2, <1>3, <1>4, <1>5, <1>6
  <2> QED BY <1>1, <1>5, <1>6, <2>1, DecoderIInv
<1>7. CASE left # n
  <2>1. left' \in 1 .. hdr.frames /\ out' = 2 * (hdr.frames - left')
    BY <1>1, <1>2, <1>3, <1>5, <1>7
  <2>2. UTKDecoding'
    BY <1>1, <1>2, <1>5, <2>1 DEF UTKDecoding, Keep
  <2> QED BY <1>1, <1>2, <1>5, <1>7, <2>2, DecoderIInv DEF Decoding, Keep
<1> QED BY <1>6, <1>7

-----------------------------------------------------------------------------
(* Readers over a library: a call frees what the calls before it took. *)
LEMMA LibraryIInv ==
    ASSUME LoadIInv, NEW f \in Foreign, NEW mayexit \in BOOLEAN, Library(f, mayexit)
    PROVE  LoadIInv'
<1> DEFINE c == Calls[f][at + 1]
<1>1. /\ phase = "library" /\ fmt = f /\ fmt' = fmt /\ call' = call /\ in' = in
      /\ fmt \in Foreign /\ ~Tool(call) /\ Opened = {"InData", "Struct"} /\ Opened' = Opened
      /\ at \in 0 .. Len(Calls[f]) - 1 /\ held = {"InData", "Struct"} \cup Taken(f, at)
      /\ call \in {"ReadImageFile", "ReadSoundFile"}
  <2>1. phase = "library" /\ fmt = f /\ fmt' = fmt /\ call' = call /\ in' = in /\ fmt \in Foreign
    BY DEF Library, stream
  <2>2. /\ at \in 0 .. Len(Calls[f]) - 1 /\ held = Opened \cup Taken(f, at) /\ fmt \in FmtOf[call]
        /\ call \in {"ReadImageFile", "ReadSoundFile", "xadecode", "utkdecode", "cst_read"}
    BY <2>1 DEF LoadIInv, Stage, Foreign
  <2>3. call \in {"ReadImageFile", "ReadSoundFile"}
    BY <2>1, <2>2 DEF FmtOf, Foreign
  <2>4. ~Tool(call) /\ Opened = {"InData", "Struct"} /\ Opened' = Opened
    BY <2>1, <2>3 DEF Tool, Opened
  <2> QED BY <2>1, <2>2, <2>3, <2>4
<1>2. /\ Len(Calls[f]) \in Nat \ {0} /\ Taken(f, at) \subseteq c.frees
      /\ Taken(f, Len(Calls[f])) \ Close(f) = {"OutData"}
  BY <1>1, TakenIs
<1>3. Taken(f, at + 1) = Taken(f, at) \cup c.takes
  <2>1. PICK n \in Nat \ {0} : n = at + 1 /\ n - 1 = at
    BY <1>1, <1>2
  <2> QED BY <2>1, TakenStep
<1> HIDE DEF c
<1>4. CASE phase' = "exited" /\ UNCHANGED <<at, held, Error>>
  <2>1. Stage'
    BY <1>1, <1>4 DEF LoadIInv, Stage
  <2> QED BY <1>4, <2>1 DEF LoadIInv, Settled, Inside, Decoding, Strings
<1>5. CASE Refuse(c.frees) /\ UNCHANGED at
  <2>1. held \ ({"InData"} \union c.frees) \subseteq {"Struct"}
    BY <1>1, <1>2
  <2> QED BY <1>1, <1>5, <2>1, StopIInv DEF Refuse
<1>6. CASE /\ at + 1 < Len(Calls[f])
           /\ at' = at + 1 /\ held' = held \union c.takes /\ UNCHANGED <<phase, Error>>
  <2>1. at' \in 0 .. Len(Calls[f]) - 1 /\ held' = Opened' \cup Taken(f, at')
    BY <1>1, <1>2, <1>3, <1>6
  <2>2. Stage'
    BY <1>1, <1>6, <2>1 DEF LoadIInv, Stage
  <2> QED BY <1>1, <1>6, <2>2 DEF LoadIInv, Settled, Inside, Decoding, Strings
<1>7. CASE /\ ~(at + 1 < Len(Calls[f]))
           /\ at' = 0 /\ phase' = "decoded" /\ UNCHANGED Error
           /\ held' = (held \union c.takes) \ Close(f)
  <2>1. Taken(f, at + 1) \ Close(f) = {"OutData"}
    <3>1. at + 1 = Len(Calls[f])
      BY <1>1, <1>2, <1>7
    <3> QED BY <1>2, <3>1
  <2>2. Close(f) \cap {"InData", "Struct"} = {}
    BY DEF Close, MP3Close
  <2>3. held' = Opened' \cup {"OutData"}
    BY <1>1, <1>3, <1>7, <2>1, <2>2
  <2>4. Filled'
    BY <1>1 DEF Filled, Foreign
  <2>5. Stage'
    BY <1>1, <1>7, <2>3, <2>4 DEF LoadIInv, Stage
  <2> QED BY <1>7, <2>5 DEF LoadIInv, Settled, Inside, Decoding, Strings
<1> QED BY <1>4, <1>5, <1>6, <1>7 DEF Library, c

(* After the decoder. *)
LEMMA ReturnIInv == ASSUME LoadIInv, Return PROVE LoadIInv'
<1>1. /\ ~Tool(call) /\ fmt' = fmt /\ call' = call /\ hdr' = hdr /\ out' = out
      /\ Opened = {"InData", "Struct"} /\ OutSize' = OutSize
  BY DEF Return, decoder, Opened, OutSize, DecompressedSize
<1>2. CASE phase = "decoded" /\ phase' = "returned" /\ held' = held \ {"InData"} /\ UNCHANGED Error
  <2>1. held' = {"Struct", "OutData"} /\ Filled' /\ fmt # "cst"
    BY <1>1, <1>2 DEF LoadIInv, Stage, Filled, Own, Foreign
  <2>2. Stage'
    BY <1>1, <1>2 DEF LoadIInv, Stage
  <2> QED BY <1>1, <1>2, <2>1, <2>2 DEF LoadIInv, Settled, Inside, Decoding, Strings
<1>3. CASE phase = "corrupt" /\ Refuse({"OutData"})
  <2>1. held \ ({"InData"} \union {"OutData"}) \subseteq {"Struct"}
    BY <1>1, <1>3 DEF LoadIInv, Stage
  <2> QED BY <1>1, <1>3, <2>1, StopIInv DEF Refuse
<1> QED BY <1>2, <1>3 DEF Return

LEMMA ToolWriteIInv == ASSUME LoadIInv, Tool(call), ToolWrite PROVE LoadIInv'
<1>1. /\ phase = "decoded" /\ fmt' = fmt /\ call' = call /\ hdr' = hdr /\ out' = out
      /\ Opened = {"InData"} /\ OutSize' = OutSize
  BY DEF ToolWrite, decoder, Opened, OutSize, DecompressedSize
<1>2. CASE Shutdown_M
  BY <1>1, <1>2, StopIInv DEF Shutdown_M
<1>3. CASE phase' = "returned" /\ Error' = "EXIT_SUCCESS" /\ held' = held \ {"InData", "OutData"}
  <2>1. held' = {} /\ Filled' /\ fmt # "cst" /\ fmt # "none"
    BY <1>1, <1>3 DEF LoadIInv, Stage, Filled, Own, Foreign
  <2>2. Stage'
    BY <1>1, <1>3 DEF LoadIInv, Stage
  <2> QED BY <1>1, <1>3, <2>1, <2>2 DEF LoadIInv, Settled, Inside, Decoding, Strings, Tool
<1> QED BY <1>2, <1>3 DEF ToolWrite

(* CST. *)
LEMMA TextType == ASSUME NEW s \in CSTFiles PROVE s \in Seq(Symbols)
BY TextsAssumption DEF Symbols

LEMMA cst_openIInv == ASSUME LoadIInv, cst_open PROVE LoadIInv'
<1>1. phase = "cst" /\ fmt = "none" /\ fmt' = "cst" /\ call' = call /\ call = "cst_read" /\ in = 0 /\ in' = 0
  BY DEF cst_open, LoadIInv, Stage, stream
<1>2. PICK s \in CSTFiles :
          /\ hdr' = [sane |-> TRUE, text |-> s] /\ left' = cst_count_strings(s)
          /\ \/ cst_count_strings(s) > 0 /\ Stop("MEMORY", {})
             \/ IF cst_count_strings(s) = 0 THEN phase' = "returned" /\ UNCHANGED <<held, Error>>
                ELSE held' = {"Strings"} /\ UNCHANGED <<phase, Error>>
  BY DEF cst_open
<1>3. fmt' \in {"none"} \cup FmtOf[call'] /\ ~Tool(call)
  BY <1>1 DEF FmtOf, Tool
<1>4. cst_count_strings(s) \in Nat /\ Cardinality(CaretsAfter(s, 0)) >= 2 * cst_count_strings(s)
  BY TextType, CaretsWhole
<1>5. CASE Stop("MEMORY", {})
  <2>1. phase' = "failed" /\ Error' # "none" /\ held' = {}
    BY <1>5 DEF Stop
  <2>2. Stage'
    BY <1>1, <1>3, <2>1 DEF LoadIInv, Stage
  <2> QED BY <2>1, <2>2 DEF LoadIInv, Settled, Inside, Decoding, Strings
<1>6. CASE cst_count_strings(s) = 0 /\ phase' = "returned" /\ UNCHANGED <<held, Error>>
  <2>1. Stage'
    BY <1>1, <1>3, <1>6 DEF LoadIInv, Stage
  <2>2. Settled'
    BY <1>1, <1>2, <1>3, <1>6 DEF Settled, Tool
  <2> QED BY <1>6, <2>1, <2>2 DEF LoadIInv, Inside, Decoding, Strings
<1>7. CASE cst_count_strings(s) # 0 /\ held' = {"Strings"} /\ UNCHANGED <<phase, Error>>
  <2>1. Stage'
    BY <1>1, <1>3, <1>7 DEF LoadIInv, Stage
  <2>2. Strings'
    <3>1. hdr'.text = s /\ in' \in 0 .. Len(s) /\ left' \in Nat \ {0}
      <4>1. PICK n \in Nat : n = Len(s)
        BY TextType
      <4> QED BY <1>1, <1>2, <1>4, <1>7, <4>1
    <3>2. Cardinality(CaretsAfter(hdr'.text, in')) >= 2 * left'
      BY <1>1, <1>2, <1>4, <3>1
    <3> QED BY <3>1, <3>2 DEF Strings
  <2> QED BY <1>1, <1>7, <2>1, <2>2 DEF LoadIInv, Settled, Inside, Decoding
<1> QED BY <1>2, <1>5, <1>6, <1>7

LEMMA cst_readIInv == ASSUME LoadIInv, cst_read PROVE LoadIInv'
<1> DEFINE s == hdr.text
           a == strchr(s, in)
           b == IF a = 0 THEN 0 ELSE strchr(s, a)
<1>1. /\ phase = "cst" /\ fmt = "cst" /\ fmt' = fmt /\ call' = call /\ hdr' = hdr /\ left' = left - 1
      /\ held' = held /\ Error' = Error /\ call = "cst_read" /\ ~Tool(call)
      /\ in' = (IF b = 0 THEN in ELSE b)
      /\ phase' = (IF b = 0 THEN "undefined" ELSE IF left = 1 THEN "returned" ELSE "cst")
  BY DEF cst_read, LoadIInv, Stage, Tool
<1>2. /\ s \in CSTFiles /\ in \in 0 .. Len(s) /\ left \in Nat \ {0}
      /\ TextWithNUL \/ Cardinality(CaretsAfter(s, in)) >= 2 * left
  BY <1>1 DEF LoadIInv, Strings
<1>3. s \in Seq(Symbols) /\ Len(s) \in Nat
  BY <1>2, TextType
<1>4. ASSUME ~TextWithNUL
      PROVE  /\ b \in in + 2 .. Len(s) /\ b # 0
             /\ Cardinality(CaretsAfter(s, b)) >= 2 * (left - 1)
  <2> HIDE DEF s
  <2>1. \A i \in DOMAIN s : s[i] # "0"
    BY <1>1, <1>4 DEF TextWithNUL, s
  <2>2. /\ strchr(s, in) \in in + 1 .. Len(s)
        /\ strchr(s, strchr(s, in)) \in in + 2 .. Len(s)
        /\ Cardinality(CaretsAfter(s, strchr(s, strchr(s, in)))) >= 2 * (left - 1)
    BY <1>2, <1>3, <1>4, <2>1, TwoStrchr
  <2>3. a # 0
    BY <1>2, <1>3, <2>2
  <2>4. b = strchr(s, strchr(s, in))
    BY <2>3
  <2> HIDE DEF a, b
  <2> QED BY <1>2, <1>3, <2>2, <2>4
<1>5. TextWithNUL' = TextWithNUL
  BY <1>1 DEF TextWithNUL
<1>6. b \in 0 .. Len(s)
  <2>1. a \in 0 .. Len(s)
    BY <1>2, <1>3, StrchrInside
  <2>2. strchr(s, a) \in 0 .. Len(s)
    <3> HIDE DEF a
    <3> QED BY <1>3, <2>1, StrchrInside
  <2> QED BY <2>1, <2>2
<1>7. Stage'
  BY <1>1 DEF LoadIInv, Stage
<1> HIDE DEF a, b
<1>8. Inside'
  BY <1>1, <1>4, <1>5 DEF Inside
<1>9. Settled'
  BY <1>1, <1>2 DEF Settled
<1>10. Strings'
  <2> SUFFICES ASSUME phase' = "cst" PROVE Strings'
    BY DEF Strings
  <2>1. b # 0 /\ left # 1 /\ in' = b /\ left' = left - 1
    BY <1>1
  <2>2. left' \in Nat \ {0} /\ in' \in 0 .. Len(s)
    BY <1>2, <1>6, <2>1
  <2>3. TextWithNUL' \/ Cardinality(CaretsAfter(s, in')) >= 2 * left'
    BY <1>4, <1>5, <2>1
  <2> QED BY <1>1, <1>2, <2>2, <2>3 DEF Strings
<1> QED BY <1>1, <1>7, <1>8, <1>9, <1>10 DEF LoadIInv, Decoding

-----------------------------------------------------------------------------
LEMMA LoadNextIInv == LoadIInv /\ [LoadNext]_loadvars => LoadIInv'
<1> SUFFICES ASSUME LoadIInv, [LoadNext]_loadvars PROVE LoadIInv'
  OBVIOUS
<1>1. CASE ReadFile \/ ReadImageFile \/ ReadSoundFile
  BY <1>1, ReadFileIInv, DispatchIInv DEF ReadImageFile, ReadSoundFile
<1>2. CASE ReadTGACUR \/ ReadBMP \/ ReadWAV \/ ReadXA \/ ReadUTK
  BY <1>2, ReadTGACURIInv, ReadBMPIInv, ReadWAVIInv, ReadXAIInv, ReadUTKIInv
<1>3. CASE CopyWAV \/ XAControl \/ XAFramePair \/ BMPRow \/ BMPRle
  BY <1>3, CopyWAVIInv, XAControlIInv, XAFramePairIInv, BMPRowIInv, BMPRleIInv
<1>4. CASE InitUTKParameters \/ DecodeFrame \/ Subframe
  BY <1>4, InitUTKParametersIInv, DecodeFrameIInv, SubframeIInv
<1>5. CASE ExciteUnvoiced \/ ExciteVoiced \/ Ones \/ utk_decode
  BY <1>5, ExciteUnvoicedIInv, ExciteVoicedIInv, OnesIInv, utk_decodeIInv
<1>6. CASE ReadJPG \/ ReadPNG \/ ReadMP3
  BY <1>6, LibraryIInv DEF ReadJPG, ReadPNG, ReadMP3, Foreign
<1>7. CASE Return
  BY <1>7, ReturnIInv
<1>8. CASE XADecodeRead \/ UTKDecodeRead
  <2>1. XADecodeRead => Tool(call) /\ ToolRead("xa") /\ "xa" \in FmtOf[call]
    BY DEF XADecodeRead, Tool, FmtOf
  <2>2. UTKDecodeRead => Tool(call) /\ ToolRead("utk") /\ "utk" \in FmtOf[call]
    BY DEF UTKDecodeRead, Tool, FmtOf
  <2> QED BY <1>8, <2>1, <2>2, ToolReadIInv
<1>9. CASE XADecodeWrite \/ UTKDecodeWrite
  BY <1>9, ToolWriteIInv DEF XADecodeWrite, UTKDecodeWrite, Tool
<1>10. CASE cst_open \/ cst_read
  BY <1>10, cst_openIInv, cst_readIInv
<1>11. CASE UNCHANGED loadvars
  BY <1>11 DEF loadvars, LoadIInv, Settled, Inside, Stage, Decoding, Strings, Filled, OutSize, DecompressedSize,
               Tool, Opened, Own, Foreign, NoFrames, NoData, ShortRows, LongRun, TextWithNUL,
               WAVDecoding, XADecoding, BMPDecoding, UTKDecoding
<1> QED BY <1>1, <1>2, <1>3, <1>4, <1>5, <1>6, <1>7, <1>8, <1>9, <1>10, <1>11 DEF LoadNext

LEMMA LoadInvariance == LoadSpec => []LoadIInv
BY LoadInitIInv, LoadNextIInv, PTL DEF LoadSpec

\* A decoder that its header lets through stays inside of the file and of the
\* block, for every header but those of the five kinds.
THEOREM LoadersInside == LoadSpec => []Inside
<1>1. LoadIInv => Inside
  BY DEF LoadIInv
<1> QED BY <1>1, LoadInvariance, PTL

\* What is left when a load ends is what the caller gets, filled to its end.
THEOREM LoadersSettled == LoadSpec => []Settled
<1>1. LoadIInv => Settled
  BY DEF LoadIInv
<1> QED BY <1>1, LoadInvariance, PTL
=============================================================================
