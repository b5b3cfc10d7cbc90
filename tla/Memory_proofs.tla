---------------------------- MODULE Memory_proofs ----------------------------
(***************************************************************************)
(* Proofs about the agents' shared memory: its graph, the window that      *)
(* follows the changefeed and the outbox that carries publications to the  *)
(* task event log, for any items, readers, workers, batches and deaths.    *)
(*                                                                         *)
(*   - GraphInvariant: the rows of every transaction are in the log, what  *)
(*     stands rests on what stands, restrictions reach what rests on them, *)
(*     and whoever is about to correct an item has looked at a revision of *)
(*     it.  The closure of what rests on an item is used through two facts *)
(*     alone: it holds its roots, and the dependents of its members.       *)
(*   - FeedInvariant: what a window holds, what a catching up started from *)
(*     and what its answer would make of that are each right up to their   *)
(*     own cursor.  The fold of an answer is a recursive function over     *)
(*     positions, so its facts are shown by induction on positions.        *)
(*   - OutboxInvariant: a row of the outbox is recorded, or on its way.    *)
(***************************************************************************)
EXTENDS MemoryOutbox, MemoryFeed, FiniteSetTheorems, WellFoundedInduction, TLAPS

(***************************************************************************)
(* The graph's rows.                                                       *)
(***************************************************************************)
ItemRows ==
  [rev : Nat, status : Statuses, text : Texts \cup {Gone},
   pins : SUBSET (Claims \X Nat), revoked : SUBSET Readers]
ItemTables == [Items -> ItemRows]

LEMMA RestingHasRoots ==
  ASSUME NEW rows, NEW roots \in SUBSET Items
  PROVE  roots \subseteq RestingOn(rows, roots) /\ RestingOn(rows, roots) \subseteq Items
BY DEF RestingOn

LEMMA RestingHoldsDependents ==
  ASSUME NEW rows, NEW roots \in SUBSET Items, NEW i \in Items, NEW p \in rows[i].pins,
         p[1] \in RestingOn(rows, roots)
  PROVE  i \in RestingOn(rows, roots)
<1>1. ASSUME NEW set \in SUBSET Items, roots \subseteq set, HoldsDependents(rows, set)
      PROVE  i \in set
  <2>1. p[1] \in set
    BY <1>1 DEF RestingOn
  <2> QED
    BY <1>1, <2>1 DEF HoldsDependents
<1> QED
  BY <1>1 DEF RestingOn

(* Marked(row) is a row that has gone stale.                               *)
Marked(row) == [row EXCEPT !.status = "stale", !.rev = @ + 1]

LEMMA MarkedIs ==
  ASSUME NEW row \in ItemRows
  PROVE  /\ Marked(row) \in ItemRows /\ Marked(row).status = "stale"
         /\ Marked(row).rev > row.rev /\ Marked(row).rev > 0
         /\ Marked(row).pins = row.pins /\ Marked(row).revoked = row.revoked
<1>1. row.rev \in Nat /\ row.rev + 1 \in Nat /\ row.rev + 1 > row.rev /\ row.rev + 1 > 0
  BY DEF ItemRows
<1>2. "stale" \in Statuses
  BY DEF Statuses
<1> DEFINE next == row.rev + 1
<1>3. Marked(row) = [row EXCEPT !.status = "stale", !.rev = next]
  BY DEF Marked
<1>4. next \in Nat /\ next > row.rev /\ next > 0
  BY <1>1
<1> HIDE DEF next
<1>5. Marked(row).rev = next
  BY <1>3 DEF ItemRows
<1> QED
  BY <1>2, <1>3, <1>4, <1>5 DEF ItemRows

LEMMA StaledIs ==
  ASSUME NEW rows \in ItemTables, NEW roots \in SUBSET Items
  PROVE  /\ Staled(rows, roots) \in ItemTables
         /\ GoesStale(rows, roots) \subseteq Items \ roots
         /\ \A i \in Items :
              Staled(rows, roots)[i] =
                IF i \in GoesStale(rows, roots) THEN Marked(rows[i]) ELSE rows[i]
<1>1. \A i \in Items : rows[i] \in ItemRows
  BY DEF ItemTables
<1>2. \A i \in Items : Staled(rows, roots)[i] =
                IF i \in GoesStale(rows, roots) THEN Marked(rows[i]) ELSE rows[i]
  BY DEF Staled, Marked
<1>3. Staled(rows, roots) = [i \in Items |-> Staled(rows, roots)[i]]
  BY DEF Staled
<1>4. \A i \in Items : Staled(rows, roots)[i] \in ItemRows
  BY <1>1, <1>2, MarkedIs
<1>5. GoesStale(rows, roots) \subseteq Items \ roots
  BY RestingHasRoots DEF GoesStale
<1> QED
  BY <1>2, <1>3, <1>4, <1>5 DEF ItemTables

LEMMA RowsAre ==
  ASSUME NEW set, IsFiniteSet(set)
  PROVE  Rows(set) \in Seq(set) /\ \A x \in set : \E k \in DOMAIN Rows(set) : Rows(set)[k] = x
<1> DEFINE n == Cardinality(set)
<1>1. n \in Nat /\ ExistsBijection(1 .. n, set)
  BY FS_CardinalityType
<1>2. \E f \in [1 .. n -> set] : IsInjective(f)
  BY <1>1 DEF ExistsBijection, Bijection, Injection
<1>3. Rows(set) \in [1 .. n -> set] /\ IsInjective(Rows(set))
  BY <1>2 DEF Rows, SetToSeq
<1>4. Rows(set) \in Injection(1 .. n, set)
  BY <1>3 DEF Injection
<1>5. IsFiniteSet(1 .. n) /\ Cardinality(1 .. n) = n
  BY <1>1, FS_Interval
<1>6. Rows(set) \in Surjection(1 .. n, set)
  BY <1>4, <1>5, FS_Injection
<1> HIDE DEF n
<1>7. \A x \in set : \E k \in 1 .. n : Rows(set)[k] = x
  BY <1>6 DEF Surjection
<1> QED
  BY <1>1, <1>3, <1>7

(***************************************************************************)
(* What a table of items keeps.                                            *)
(***************************************************************************)
RevTells(rows) == \A i \in Items : (rows[i].rev = 0) <=> (rows[i].status = "none")

(* Only what a worker published pins anything, and only what was published. *)
PinsAre(rows) ==
  \A i \in Items : \A p \in rows[i].pins :
    i \in Claims /\ rows[i].rev > 0 /\ p[1] \in Claims /\ rows[p[1]].rev > 0

Rests(rows) ==
  \A i \in Items : rows[i].status = "standing" =>
    \A p \in rows[i].pins : rows[p[1]].status = "standing"

Reaches(rows) ==
  \A i \in Items : \A p \in rows[i].pins : rows[p[1]].revoked \subseteq rows[i].revoked

TableKept(rows) ==
  /\ rows \in ItemTables /\ RevTells(rows) /\ PinsAre(rows) /\ Reaches(rows)

(* A row is changed by a new revision of it.                               *)
Forward(old, new) == \A i \in Items : new[i] = old[i] \/ new[i].rev > old[i].rev

(* Before the walk: what stands rests on what stands, or on a root.        *)
RestsBut(rows, roots) ==
  /\ \A i \in Items : rows[i].status = "standing" =>
       \A p \in rows[i].pins : p[1] \in roots \/ rows[p[1]].status = "standing"
  /\ \A i \in roots : rows[i].status = "standing" => rows[i].pins = {}

LEMMA ClaimsAreItems ==
  Claims \subseteq Items /\ Corrections \subseteq Items /\ Mirrored \subseteq Items
BY DEF Items

LEMMA StaledRests ==
  ASSUME NEW rows, TableKept(rows), NEW roots \in SUBSET Items, RestsBut(rows, roots)
  PROVE  Rests(Staled(rows, roots))
<1> DEFINE new == Staled(rows, roots)
           hit == GoesStale(rows, roots)
<1>1. SUFFICES ASSUME NEW i \in Items, new[i].status = "standing", NEW p \in new[i].pins
               PROVE  new[p[1]].status = "standing"
  BY DEF Rests
<1>2. rows \in ItemTables /\ rows[i] \in ItemRows
  BY DEF TableKept, ItemTables
<1>3. i \notin hit /\ new[i] = rows[i]
  BY <1>1, <1>2, StaledIs, MarkedIs
<1>4. p \in rows[i].pins /\ rows[i].status = "standing"
  BY <1>1, <1>3
<1>5. p[1] \in Items /\ i \in Claims
  BY <1>4, ClaimsAreItems DEF TableKept, PinsAre
<1>6. i \notin roots
  BY <1>4 DEF RestsBut
<1>7. i \notin RestingOn(rows, roots)
  BY <1>3, <1>4, <1>6 DEF GoesStale
<1>8. p[1] \notin RestingOn(rows, roots)
  BY <1>4, <1>7, RestingHoldsDependents
<1>9. p[1] \notin roots /\ p[1] \notin hit
  BY <1>8, RestingHasRoots DEF GoesStale
<1>10. rows[p[1]].status = "standing"
  BY <1>4, <1>9 DEF RestsBut
<1> QED
  BY <1>2, <1>5, <1>9, <1>10, StaledIs

LEMMA StaledKept ==
  ASSUME NEW rows, TableKept(rows), NEW roots \in SUBSET Items
  PROVE  TableKept(Staled(rows, roots)) /\ Forward(rows, Staled(rows, roots))
<1> DEFINE new == Staled(rows, roots)
<1>1. rows \in ItemTables /\ \A i \in Items : rows[i] \in ItemRows
  BY DEF TableKept, ItemTables
<1>2. new \in ItemTables
  BY <1>1, StaledIs
<1>3. ASSUME NEW i \in Items
      PROVE  /\ new[i].pins = rows[i].pins /\ new[i].revoked = rows[i].revoked
             /\ new[i] = rows[i] \/ new[i].rev > rows[i].rev
             /\ rows[i].rev > 0 => new[i].rev > 0
             /\ (new[i].rev = 0) <=> (new[i].status = "none")
  <2>1. CASE new[i] = rows[i]
    BY <2>1 DEF TableKept, RevTells
  <2>2. CASE new[i] = Marked(rows[i])
    BY <1>1, <2>2, MarkedIs
  <2> QED
    BY <1>1, <2>1, <2>2, StaledIs
<1> HIDE DEF new
<1>4. PinsAre(new) /\ Reaches(new)
  BY <1>3, ClaimsAreItems DEF TableKept, PinsAre, Reaches
<1> QED
  BY <1>2, <1>3, <1>4 DEF TableKept, RevTells, Forward, new

LEMMA ForwardOn ==
  ASSUME NEW a \in ItemTables, NEW b \in ItemTables, NEW c \in ItemTables,
         Forward(a, b), Forward(b, c)
  PROVE  Forward(a, c)
BY DEF Forward, ItemTables, ItemRows

(***************************************************************************)
(* The graph and who is at work on it.                                     *)
(***************************************************************************)
Subjects == Items \cup (Corrections \X Items)

GraphTyped ==
  /\ edges \subseteq Corrections \X Items
  /\ log \in Seq(Subjects) /\ \A k \in DOMAIN log : log[k] \in Items \cup edges
  /\ legacy \in [Mirrored -> Texts \cup {Gone}]
  /\ worker \in [Attempts -> [at : {"idle", "working", "over"}, pin : Nat]]
  /\ window \in [Readers -> [at : {"idle", "looking", "asking"}, on : Items \cup {NoInput},
                             rev : Nat, revoked : SUBSET Readers]]
  /\ app \in {"up", "down", "mirroring"}

(* A worker has read what it re-derives.                                   *)
HasRead(rows, w, c) ==
  w.at = "working" /\ InputOf[c] # NoInput => rows[InputOf[c]].rev > 0

WorkersHaveRead == \A a \in Attempts : HasRead(item, worker[a], ClaimOf[a])

(* A person looks at a revision of an item, and whoever asks to correct the one
   that stands carries its restrictions over.                              *)
LooksAt(rows, w) ==
  w.at # "idle" =>
    /\ w.on \in Items /\ w.rev > 0 /\ w.rev <= rows[w.on].rev
    /\ w.at = "asking" /\ w.rev = rows[w.on].rev => rows[w.on].revoked \subseteq w.revoked

WindowsLookAt == \A p \in Readers : LooksAt(item, window[p])

Logged == \A i \in Items : item[i].rev > 0 => \E k \in DOMAIN log : log[k] = i

GraphInvariant ==
  /\ TableKept(item) /\ Rests(item) /\ GraphTyped
  /\ WorkersHaveRead /\ WindowsLookAt /\ Logged

Mentions(seq, set, lines) ==
  /\ seq \in Seq(Subjects) /\ \A k \in DOMAIN seq : seq[k] \in Items \cup lines
  /\ \A x \in set : \E k \in DOMAIN seq : seq[k] = x

LEMMA MentionsJoin ==
  ASSUME NEW s, NEW t, NEW A, NEW B, NEW lines, Mentions(s, A, lines), Mentions(t, B, lines)
  PROVE  Mentions(s \o t, A \cup B, lines)
<1>1. s \in Seq(Subjects) /\ t \in Seq(Subjects) /\ s \o t \in Seq(Subjects)
  BY DEF Mentions
<1>2. /\ Len(s) \in Nat /\ Len(t) \in Nat /\ Len(s \o t) = Len(s) + Len(t)
      /\ DOMAIN s = 1 .. Len(s) /\ DOMAIN t = 1 .. Len(t)
      /\ DOMAIN (s \o t) = 1 .. Len(s) + Len(t)
  BY <1>1
<1>3. \A k \in 1 .. Len(s) : k \in DOMAIN (s \o t) /\ (s \o t)[k] = s[k]
  BY <1>1, <1>2
<1>4. \A k \in 1 .. Len(t) : Len(s) + k \in DOMAIN (s \o t) /\ (s \o t)[Len(s) + k] = t[k]
  BY <1>1, <1>2
<1>5. \A k \in DOMAIN (s \o t) : k \in 1 .. Len(s) \/ k - Len(s) \in 1 .. Len(t)
  BY <1>2
<1>6. \A k \in DOMAIN (s \o t) : (s \o t)[k] \in Items \cup lines
  <2>1. TAKE k \in DOMAIN (s \o t)
  <2>2. CASE k \in 1 .. Len(s)
    BY <1>2, <1>3, <2>2 DEF Mentions
  <2>3. CASE k - Len(s) \in 1 .. Len(t)
    <3>1. Len(s) + (k - Len(s)) = k
      BY <1>2, <2>1, <2>3
    <3>2. (s \o t)[k] = t[k - Len(s)]
      BY <1>4, <2>3, <3>1
    <3> QED
      BY <1>2, <2>3, <3>2 DEF Mentions
  <2> QED
    BY <1>5, <2>2, <2>3
<1>7. \A x \in A \cup B : \E k \in DOMAIN (s \o t) : (s \o t)[k] = x
  <2>1. ASSUME NEW x \in A PROVE \E k \in DOMAIN (s \o t) : (s \o t)[k] = x
    BY <1>2, <1>3 DEF Mentions
  <2>2. ASSUME NEW x \in B PROVE \E k \in DOMAIN (s \o t) : (s \o t)[k] = x
    BY <1>2, <1>4 DEF Mentions
  <2> QED
    BY <2>1, <2>2
<1> QED
  BY <1>1, <1>6, <1>7 DEF Mentions

LEMMA MentionsRows ==
  ASSUME NEW set \in SUBSET Items, NEW lines
  PROVE  Mentions(Rows(set), set, lines)
<1>1. IsFiniteSet(set)
  BY ItemsAssumption, FS_Subset
<1>2. Rows(set) \in Seq(set) /\ \A x \in set : \E k \in DOMAIN Rows(set) : Rows(set)[k] = x
  BY <1>1, RowsAre
<1> HIDE DEF Rows
<1>3. Rows(set) \in Seq(Subjects) /\ \A k \in DOMAIN Rows(set) : Rows(set)[k] \in Items
  BY <1>2 DEF Subjects
<1> QED
  BY <1>2, <1>3 DEF Mentions

(* A transaction of the graph: the rows it writes are told in the log.     *)
Told(new) ==
  log' = log \o new /\ Mentions(new, {i \in Items : item'[i] # item[i]}, edges')

GraphMoves ==
  /\ TableKept(item') /\ Rests(item') /\ Forward(item, item')
  /\ edges \subseteq edges' /\ edges' \subseteq Corrections \X Items
  /\ \E new : Told(new)

LEMMA GraphStays ==
  ASSUME GraphInvariant, UNCHANGED graphVars
  PROVE  GraphMoves
<1>1. Told(<<>>)
  BY DEF Told, Mentions, graphVars, GraphInvariant, GraphTyped
<1> QED
  BY <1>1 DEF GraphMoves, graphVars, GraphInvariant, GraphTyped, Forward

LEMMA PublishMoves ==
  ASSUME GraphInvariant, NEW a \in Attempts, Publish(a)
  PROVE  GraphMoves
<1> DEFINE c == ClaimOf[a]
           source == InputOf[c]
           stale == source # NoInput /\ MovedOn(source, worker[a].pin)
           status == IF stale THEN "stale" ELSE "standing"
           pins == IF source = NoInput THEN {} ELSE {<<source, worker[a].pin>>}
           revoked == Inherited(source)
           row == [rev |-> 1, status |-> status, text |-> Gone, pins |-> pins,
                   revoked |-> revoked]
<1>1. CASE Exists(c)
  BY <1>1, GraphStays DEF Publish, graphVars
<1>2. CASE ~Exists(c)
  <2>1. item' = [item EXCEPT ![c] = row] /\ log' = Append(log, c) /\ edges' = edges
    BY <1>2 DEF Publish
  <2>2. c \in Claims /\ c \in Items /\ source \in Claims \cup {NoInput}
    BY ClaimsAssumption, ClaimsAreItems
  <2>3. /\ item \in ItemTables /\ \A i \in Items : item[i] \in ItemRows
        /\ worker[a].pin \in Nat /\ worker[a].at = "working"
        /\ edges \subseteq Corrections \X Items /\ log \in Seq(Subjects)
    BY DEF GraphInvariant, GraphTyped, TableKept, ItemTables, Publish
  <2>4. item[c].rev = 0 /\ item[c].status = "none"
    BY <1>2, <2>2, <2>3 DEF Exists, ItemRows, GraphInvariant, TableKept, RevTells
  <2>5. ASSUME source # NoInput
        PROVE  /\ source \in Claims /\ source \in Items /\ item[source].rev > 0 /\ source # c
               /\ ~stale => item[source].status = "standing"
    <3>1. source \in Items /\ item[source].rev > 0
      BY <2>2, <2>3, <2>5, ClaimsAreItems
      DEF GraphInvariant, WorkersHaveRead, HasRead
    <3>2. item[source].status # "none" /\ item[source].status \in Statuses
      BY <2>3, <3>1 DEF GraphInvariant, TableKept, RevTells, ItemRows
    <3>3. ~stale => item[source].status \notin {"superseded", "tombstoned", "stale"}
      BY <2>5 DEF MovedOn, Withdrawn
    <3> QED
      BY <2>2, <2>4, <2>5, <3>1, <3>2, <3>3 DEF Statuses
  <2>6. /\ status \in {"stale", "standing"}
        /\ status = "standing" => ~stale
        /\ pins \in SUBSET (Claims \X Nat) /\ revoked \in SUBSET Readers
        /\ source # NoInput => revoked = item[source].revoked
        /\ \A p \in pins : source # NoInput /\ p[1] = source
    BY <2>2, <2>3, <2>5 DEF Inherited, ItemRows
  <2>7. row \in ItemRows /\ row.rev = 1 /\ row.status = status /\ row.pins = pins
        /\ row.revoked = revoked
    BY <2>6 DEF ItemRows, Statuses
  <2> HIDE DEF row, status, pins, revoked, stale, source, c
  <2>8. item' \in ItemTables /\ item'[c] = row /\ \A i \in Items \ {c} : item'[i] = item[i]
    BY <2>1, <2>2, <2>3, <2>7 DEF ItemTables
  <2>9. \A i \in Items : \A p \in item[i].pins : p[1] \in Items \ {c}
    BY <2>4, ClaimsAreItems DEF GraphInvariant, TableKept, PinsAre
  <2>10. \A p \in pins : p[1] = source /\ source \in Items \ {c}
    BY <2>5, <2>6
  <2>11. RevTells(item')
    <3>1. row.rev # 0 /\ row.status # "none"
      BY <2>6, <2>7
    <3>2. \A i \in Items : (item[i].rev = 0) <=> (item[i].status = "none")
      BY DEF RevTells, GraphInvariant, TableKept
    <3>3. ASSUME NEW i \in Items PROVE (item'[i].rev = 0) <=> (item'[i].status = "none")
      <4>1. CASE i = c
        BY <2>8, <3>1, <4>1
      <4>2. CASE i # c
        BY <2>8, <3>2, <4>2
      <4> QED
        BY <4>1, <4>2
    <3> QED
      BY <3>3 DEF RevTells
  <2>12. PinsAre(item')
    <3>1. ASSUME NEW i \in Items, NEW p \in item'[i].pins
          PROVE  i \in Claims /\ item'[i].rev > 0 /\ p[1] \in Claims /\ item'[p[1]].rev > 0
      <4>1. CASE i = c
        BY <2>2, <2>5, <2>6, <2>7, <2>8, <2>10, <3>1, <4>1
      <4>2. CASE i # c
        BY <2>8, <2>9, <3>1, <4>2 DEF GraphInvariant, TableKept, PinsAre
      <4> QED
        BY <4>1, <4>2
    <3> QED
      BY <3>1 DEF PinsAre
  <2>13. Reaches(item') /\ Rests(item')
    <3>1. ASSUME NEW i \in Items, NEW p \in item'[i].pins
          PROVE  /\ item'[p[1]].revoked \subseteq item'[i].revoked
                 /\ item'[i].status = "standing" => item'[p[1]].status = "standing"
      <4>1. CASE i = c
        BY <2>5, <2>6, <2>7, <2>8, <2>10, <3>1, <4>1
      <4>2. CASE i # c
        BY <2>8, <2>9, <3>1, <4>2 DEF GraphInvariant, TableKept, Reaches, Rests
      <4> QED
        BY <4>1, <4>2
    <3> QED
      BY <3>1 DEF Reaches, Rests
  <2>14. Forward(item, item')
    BY <2>4, <2>7, <2>8 DEF Forward
  <2>15. Told(<<c>>)
    BY <2>1, <2>2, <2>3, <2>8 DEF Told, Mentions, Subjects
  <2> QED
    BY <2>1, <2>3, <2>8, <2>11, <2>12, <2>13, <2>14, <2>15 DEF GraphMoves, TableKept
<1> QED
  BY <1>1, <1>2


(***************************************************************************)
(* A write that withdraws or replaces some rows, before it is walked out   *)
(* from them.                                                              *)
(***************************************************************************)
(* A row is rewritten with no pins, which only a worker's row ever has and  *)
(* whose row nobody but a worker pins, or it is withdrawn as a root.       *)
Rewritten(old, row, i, roots) ==
  /\ row.rev > old.rev /\ row.status # "none"
  /\ \/ i \notin Claims /\ row.pins = {}
     \/ i \in roots /\ row.status # "standing" /\ row.pins = old.pins
        /\ row.revoked = old.revoked

LEMMA WriteKept ==
  ASSUME NEW rows, TableKept(rows), Rests(rows), NEW roots \in SUBSET Items,
         NEW new \in ItemTables,
         \A i \in Items : (i \notin roots /\ new[i] = rows[i])
                            \/ Rewritten(rows[i], new[i], i, roots)
  PROVE  TableKept(new) /\ RestsBut(new, roots) /\ Forward(rows, new)
<1>1. /\ rows \in ItemTables
      /\ \A i \in Items : rows[i] \in ItemRows /\ new[i] \in ItemRows
  BY DEF TableKept, ItemTables
<1>2. \A i \in Items : rows[i].rev \in Nat /\ new[i].rev \in Nat
  BY <1>1 DEF ItemRows
<1>3. ASSUME NEW i \in Items
      PROVE  /\ new[i] = rows[i] \/ new[i].rev > rows[i].rev
             /\ rows[i].rev > 0 => new[i].rev > 0
             /\ (new[i].rev = 0) <=> (new[i].status = "none")
             /\ new[i].pins = {} \/ new[i].pins = rows[i].pins
  <2>1. CASE new[i] = rows[i]
    BY <2>1 DEF TableKept, RevTells
  <2>2. CASE Rewritten(rows[i], new[i], i, roots)
    BY <1>2, <2>2 DEF Rewritten
  <2> QED
    BY <2>1, <2>2
<1>4. RevTells(new) /\ Forward(rows, new)
  BY <1>3 DEF RevTells, Forward
<1>5. PinsAre(new)
  <2>1. ASSUME NEW i \in Items, NEW p \in new[i].pins
        PROVE  i \in Claims /\ new[i].rev > 0 /\ p[1] \in Claims /\ new[p[1]].rev > 0
    <3>1. p \in rows[i].pins
      BY <1>3, <2>1
    <3>2. i \in Claims /\ rows[i].rev > 0 /\ p[1] \in Claims /\ rows[p[1]].rev > 0
      BY <3>1 DEF TableKept, PinsAre
    <3> QED
      BY <1>3, <3>2, ClaimsAreItems
  <2> QED
    BY <2>1 DEF PinsAre
<1>6. ASSUME NEW i \in Items, NEW p \in new[i].pins
      PROVE  /\ p \in rows[i].pins /\ i \in Claims /\ p[1] \in Claims
             /\ new[i].revoked = rows[i].revoked
             /\ p[1] \in Items /\ new[p[1]].revoked = rows[p[1]].revoked
             /\ p[1] \in roots \/ new[p[1]] = rows[p[1]]
             /\ new[i].status = "standing" => new[i] = rows[i]
  <2>1. p \in rows[i].pins
    BY <1>3, <1>6
  <2>2. i \in Claims /\ p[1] \in Claims /\ p[1] \in Items
    BY <2>1, ClaimsAreItems DEF TableKept, PinsAre
  <2>3. \A j \in Claims : new[j] = rows[j] \/
          (j \in roots /\ new[j].status # "standing" /\ new[j].revoked = rows[j].revoked)
    BY ClaimsAreItems DEF Rewritten
  <2> QED
    BY <2>1, <2>2, <2>3
<1>7. Reaches(new)
  BY <1>6 DEF Reaches, TableKept
<1>8. RestsBut(new, roots)
  <2>1. ASSUME NEW i \in Items, new[i].status = "standing", NEW p \in new[i].pins
        PROVE  p[1] \in roots \/ new[p[1]].status = "standing"
    BY <1>6, <2>1 DEF Rests
  <2>2. ASSUME NEW i \in roots, new[i].status = "standing"
        PROVE  new[i].pins = {}
    BY <2>2 DEF Rewritten
  <2> QED
    BY <2>1, <2>2 DEF RestsBut
<1> QED
  BY <1>4, <1>5, <1>7, <1>8 DEF TableKept

(* A write, its walk, and what the log is told of both.                    *)
LEMMA WalkMoves ==
  ASSUME GraphInvariant, NEW roots \in SUBSET Items, NEW new \in ItemTables,
         \A i \in Items : (i \notin roots /\ new[i] = item[i])
                            \/ Rewritten(item[i], new[i], i, roots),
         item' = Staled(new, roots),
         edges \subseteq edges', edges' \subseteq Corrections \X Items,
         NEW told, Mentions(told, {i \in Items : new[i] # item[i]}, edges'),
         log' = log \o told \o Rows(GoesStale(new, roots))
  PROVE  GraphMoves
<1> DEFINE hit == GoesStale(new, roots)
           changed == {i \in Items : new[i] # item[i]}
<1>1. TableKept(new) /\ RestsBut(new, roots) /\ Forward(item, new)
  BY WriteKept DEF GraphInvariant
<1>2. /\ TableKept(item') /\ Forward(new, item') /\ Rests(item')
  BY <1>1, StaledKept, StaledRests
<1>3. Forward(item, item')
  BY <1>1, <1>2, ForwardOn DEF GraphInvariant, TableKept
<1>4. hit \subseteq Items /\ \A i \in Items : i \notin hit => item'[i] = new[i]
  BY StaledIs
<1>5. Mentions(Rows(hit), hit, edges')
  BY <1>4, MentionsRows
<1>6. Mentions(told \o Rows(hit), changed \cup hit, edges')
  BY <1>5, MentionsJoin
<1>7. {i \in Items : item'[i] # item[i]} \subseteq changed \cup hit
  BY <1>4
<1>8. log' = log \o (told \o Rows(hit))
  BY <1>5 DEF GraphInvariant, GraphTyped, Mentions
<1> HIDE DEF hit, changed
<1>9. Told(told \o Rows(hit))
  BY <1>6, <1>7, <1>8 DEF Told, Mentions
<1> QED
  BY <1>2, <1>3, <1>9 DEF GraphMoves

LEMMA CorrectMoves ==
  ASSUME GraphInvariant, NEW p \in Readers, NEW c \in Corrections, Correct(p, c)
  PROVE  /\ GraphMoves /\ edges' = edges \cup {<<c, window[p].on>>}
         /\ item'[c].revoked = window[p].revoked
<1> DEFINE i == window[p].on
           fresh == [rev |-> 1, status |-> "standing", text |-> Gone,
                     pins |-> {}, revoked |-> window[p].revoked]
           next == item[i].rev + 1
           old == [item[i] EXCEPT !.status = "superseded", !.rev = next]
           made == [item EXCEPT ![c] = fresh,
                                ![i] = Superseded(item[i])]
<1>1. /\ item \in ItemTables /\ \A j \in Items : item[j] \in ItemRows
      /\ c \in Items /\ c \notin Claims
      /\ edges \subseteq Corrections \X Items /\ log \in Seq(Subjects)
  BY ClaimsAreItems, ItemsAssumption DEF GraphInvariant, TableKept, ItemTables, GraphTyped
<1>2. i \in Items /\ window[p].rev > 0 /\ window[p].rev = item[i].rev
  BY DEF Correct, GraphInvariant, WindowsLookAt, LooksAt, AsRead
<1>3. item[c].rev = 0 /\ item[i].rev > 0 /\ item[i].rev \in Nat /\ next \in Nat
      /\ next > item[i].rev
  BY <1>1, <1>2 DEF Exists, ItemRows, Correct
<1>4. i # c
  BY <1>3
<1>5. window[p].revoked \in SUBSET Readers
  BY DEF GraphInvariant, GraphTyped
<1>6. fresh \in ItemRows /\ fresh.rev = 1 /\ fresh.status = "standing" /\ fresh.pins = {}
      /\ fresh.revoked = window[p].revoked
  BY <1>5 DEF ItemRows, Statuses
<1> HIDE DEF next
<1>7. old \in ItemRows /\ old.rev = next /\ old.status = "superseded"
      /\ old.pins = item[i].pins /\ old.revoked = item[i].revoked
  BY <1>1, <1>2, <1>3 DEF ItemRows, Statuses
<1>8. made = [item EXCEPT ![c] = fresh, ![i] = old]
  BY DEF next, old, Superseded
<1> HIDE DEF fresh, old
<1>9. /\ made \in ItemTables /\ made[c] = fresh /\ made[i] = old
      /\ \A j \in Items \ {c, i} : made[j] = item[j]
  BY <1>1, <1>2, <1>4, <1>6, <1>7, <1>8 DEF ItemTables
<1>10. /\ item' = Staled(made, {i}) /\ edges' = edges \cup {<<c, i>>}
       /\ log' = log \o <<c, i, <<c, i>>>> \o Rows(GoesStale(made, {i}))
  BY DEF Correct, fresh
<1> HIDE DEF made
<1>11. Rewritten(item[c], made[c], c, {i})
  BY <1>1, <1>3, <1>6, <1>9 DEF Rewritten
<1>12. Rewritten(item[i], made[i], i, {i})
  BY <1>3, <1>7, <1>9 DEF Rewritten
<1>13. \A j \in Items : (j \notin {i} /\ made[j] = item[j])
                         \/ Rewritten(item[j], made[j], j, {i})
  <2>1. TAKE j \in Items
  <2>2. CASE j = c
    BY <1>11, <2>2
  <2>3. CASE j = i
    BY <1>12, <2>3
  <2>4. CASE j # c /\ j # i
    BY <1>9, <2>4
  <2> QED
    BY <2>2, <2>3, <2>4
<1>14. Mentions(<<c, i, <<c, i>>>>, {j \in Items : made[j] # item[j]}, edges')
  <2> DEFINE seq == <<c, i, <<c, i>>>>
  <2>1. c \in Subjects /\ i \in Subjects /\ <<c, i>> \in Subjects /\ <<c, i>> \in edges'
    BY <1>1, <1>2, <1>10 DEF Subjects
  <2>2. seq \in Seq(Subjects) /\ DOMAIN seq = 1 .. 3 /\ seq[1] = c /\ seq[2] = i
        /\ seq[3] = <<c, i>>
    BY <2>1
  <2>3. \A k \in 1 .. 3 : k = 1 \/ k = 2 \/ k = 3
    OBVIOUS
  <2>4. \A x \in {j \in Items : made[j] # item[j]} : x = c \/ x = i
    BY <1>9
  <2> HIDE DEF seq
  <2>5. \A k \in DOMAIN seq : seq[k] \in Items \cup edges'
    BY <1>1, <1>2, <2>1, <2>2, <2>3
  <2>6. \A x \in {j \in Items : made[j] # item[j]} : \E k \in DOMAIN seq : seq[k] = x
    BY <2>2, <2>4
  <2>7. Mentions(seq, {j \in Items : made[j] # item[j]}, edges')
    BY <2>2, <2>5, <2>6 DEF Mentions
  <2> QED
    BY <2>7 DEF seq
<1>15. edges' \subseteq Corrections \X Items /\ edges \subseteq edges'
  BY <1>1, <1>2, <1>10
<1>16. {i} \in SUBSET Items
  BY <1>2
<1>17. item'[c].revoked = window[p].revoked
  <2>1. item'[c] = made[c] \/ item'[c] = Marked(made[c])
    <3>1. \A j \in Items : Staled(made, {i})[j] =
            IF j \in GoesStale(made, {i}) THEN Marked(made[j]) ELSE made[j]
      BY <1>9, <1>16, StaledIs
    <3> QED
      BY <1>1, <1>10, <3>1
  <2>2. made[c] = fresh
    BY <1>9
  <2> QED
    BY <1>6, <2>1, <2>2, MarkedIs
<1> HIDE DEF i
<1>18. GraphMoves
  BY <1>9, <1>10, <1>13, <1>14, <1>15, <1>16, WalkMoves
<1> QED
  BY <1>10, <1>17, <1>18 DEF i

LEMMA MirrorMoves ==
  ASSUME GraphInvariant, NEW m \in Mirrored, Mirror(m)
  PROVE  GraphMoves
<1> DEFINE held == item[m]
           next == held.rev + 1
           written == [rev |-> next, status |-> "standing",
                       text |-> legacy[m], pins |-> {}, revoked |-> {}]
           rows == [item EXCEPT ![m] = written]
           changed == held.status \notin {"none", "tombstoned"}
<1>1. /\ item \in ItemTables /\ held \in ItemRows
      /\ m \in Items /\ m \notin Claims
      /\ edges \subseteq Corrections \X Items /\ log \in Seq(Subjects)
      /\ legacy[m] \in Texts \cup {Gone}
  BY ClaimsAreItems, ItemsAssumption DEF GraphInvariant, TableKept, ItemTables, GraphTyped
<1>2. next \in Nat /\ next > held.rev
  BY <1>1 DEF ItemRows
<1>3. /\ item' = IF changed THEN Staled(rows, {m}) ELSE rows
      /\ log' = log \o <<m>> \o (IF changed THEN Rows(GoesStale(rows, {m})) ELSE <<>>)
      /\ edges' = edges
  BY DEF Mirror
<1> HIDE DEF next
<1>4. written \in ItemRows /\ written.rev = next /\ written.status = "standing"
      /\ written.pins = {}
  BY <1>1, <1>2 DEF ItemRows, Statuses
<1> HIDE DEF written
<1>5. rows \in ItemTables /\ rows[m] = written /\ \A j \in Items \ {m} : rows[j] = item[j]
  BY <1>1, <1>4 DEF ItemTables
<1> HIDE DEF rows
<1>6. \A roots : Rewritten(item[m], rows[m], m, roots)
  BY <1>1, <1>2, <1>4, <1>5 DEF Rewritten
<1>7. \A j \in Items : (j \notin {m} /\ rows[j] = item[j])
                        \/ Rewritten(item[j], rows[j], j, {m})
  BY <1>5, <1>6
<1>8. \A j \in Items : (j \notin {} /\ rows[j] = item[j])
                        \/ Rewritten(item[j], rows[j], j, {})
  BY <1>5, <1>6
<1>9. Mentions(<<m>>, {j \in Items : rows[j] # item[j]}, edges')
  <2>1. m \in Subjects
    BY <1>1 DEF Subjects
  <2>2. <<m>> \in Seq(Subjects) /\ DOMAIN <<m>> = {1} /\ <<m>>[1] = m
    BY <2>1
  <2> QED
    BY <1>1, <1>5, <2>2 DEF Mentions
<1>10. CASE changed
  <2>1. item' = Staled(rows, {m}) /\ log' = log \o <<m>> \o Rows(GoesStale(rows, {m}))
    BY <1>3, <1>10
  <2> HIDE DEF changed
  <2> QED
    BY <1>1, <1>3, <1>5, <1>7, <1>9, <2>1, WalkMoves
<1>11. CASE ~changed
  <2>1. item' = rows /\ log' = log \o <<m>>
    <3>1. item' = rows /\ log' = log \o <<m>> \o <<>>
      BY <1>3, <1>11
    <3>2. <<m>> \in Seq(Subjects)
      BY <1>1 DEF Subjects
    <3> QED
      BY <1>1, <3>1, <3>2
  <2>2. TableKept(rows) /\ RestsBut(rows, {}) /\ Forward(item, rows)
    BY <1>5, <1>8, WriteKept DEF GraphInvariant
  <2>3. Rests(rows)
    BY <2>2 DEF Rests, RestsBut
  <2>4. Told(<<m>>)
    BY <1>9, <2>1 DEF Told
  <2> HIDE DEF changed, rows
  <2> QED
    BY <1>1, <1>3, <2>1, <2>2, <2>3, <2>4 DEF GraphMoves
<1> QED
  BY <1>10, <1>11

LEMMA UpMoves ==
  ASSUME GraphInvariant, Up
  PROVE  GraphMoves
<1> DEFINE orphans == {m \in Mirrored : /\ legacy[m] = Gone
                                        /\ item[m].status \notin {"none", "tombstoned"}}
           rows == [i \in Items |->
                     IF i \in orphans
                     THEN [item[i] EXCEPT !.status = "tombstoned", !.rev = @ + 1]
                     ELSE item[i]]
<1>1. /\ item \in ItemTables /\ \A i \in Items : item[i] \in ItemRows
      /\ edges \subseteq Corrections \X Items /\ log \in Seq(Subjects)
  BY DEF GraphInvariant, TableKept, ItemTables, GraphTyped
<1>2. /\ orphans \in SUBSET Items /\ orphans \cap Claims = {}
  BY ClaimsAreItems, ItemsAssumption
<1>3. /\ item' = Staled(rows, orphans) /\ edges' = edges
      /\ log' = log \o Rows(orphans) \o Rows(GoesStale(rows, orphans))
  BY DEF Up
<1> HIDE DEF orphans
<1>4. ASSUME NEW i \in orphans
      PROVE  rows[i] \in ItemRows /\ Rewritten(item[i], rows[i], i, orphans)
  <2> DEFINE next == item[i].rev + 1
             out == [item[i] EXCEPT !.status = "tombstoned", !.rev = next]
  <2>1. i \in Items /\ i \notin Claims /\ item[i] \in ItemRows /\ rows[i] = out
    BY <1>1, <1>2
  <2>2. next \in Nat /\ next > item[i].rev
    BY <2>1 DEF ItemRows
  <2>3. item[i].pins = {}
    BY <2>1 DEF GraphInvariant, TableKept, PinsAre
  <2> HIDE DEF next
  <2>4. out \in ItemRows /\ out.rev = next /\ out.status = "tombstoned"
        /\ out.pins = item[i].pins
    BY <2>1, <2>2 DEF ItemRows, Statuses
  <2> HIDE DEF out, rows
  <2> QED
    BY <2>1, <2>2, <2>3, <2>4 DEF Rewritten
<1>5. \A i \in Items \ orphans : rows[i] = item[i]
  OBVIOUS
<1>6. rows = [i \in Items |-> rows[i]]
  OBVIOUS
<1> HIDE DEF rows
<1>7. \A i \in Items : rows[i] \in ItemRows
  BY <1>1, <1>4, <1>5
<1>8. rows \in ItemTables
  BY <1>6, <1>7 DEF ItemTables
<1>9. \A i \in Items : (i \notin orphans /\ rows[i] = item[i])
                        \/ Rewritten(item[i], rows[i], i, orphans)
  BY <1>4, <1>5
<1>10. Mentions(Rows(orphans), {i \in Items : rows[i] # item[i]}, edges')
  <2>1. Mentions(Rows(orphans), orphans, edges')
    BY <1>2, MentionsRows
  <2>2. {i \in Items : rows[i] # item[i]} \subseteq orphans
    BY <1>5
  <2> QED
    BY <2>1, <2>2 DEF Mentions
<1> QED
  BY <1>1, <1>2, <1>3, <1>8, <1>9, <1>10, WalkMoves

(* Access is withdrawn from an item and from all that rests on it.          *)
LEMMA RevokeMoves ==
  ASSUME GraphInvariant, NEW u \in Readers, NEW x \in Items, Revoke(u, x)
  PROVE  GraphMoves
<1> DEFINE hit == {j \in RestingOn(item, {x}) : Exists(j) /\ u \notin item[j].revoked}
           Without(row) == [row EXCEPT !.revoked = @ \cup {u}, !.rev = @ + 1]
<1>1. /\ item \in ItemTables /\ \A j \in Items : item[j] \in ItemRows
      /\ edges \subseteq Corrections \X Items /\ log \in Seq(Subjects)
  BY DEF GraphInvariant, TableKept, ItemTables, GraphTyped
<1>2. hit \in SUBSET Items
  BY RestingHasRoots
<1>3. /\ item' = [j \in Items |-> IF j \in hit THEN Without(item[j]) ELSE item[j]]
      /\ log' = log \o Rows(hit) /\ edges' = edges
  BY DEF Revoke
<1>4. \A j \in hit : item[j].rev > 0
  BY DEF Exists
<1>5. \A j \in RestingOn(item, {x}) : item[j].rev > 0 /\ j \notin hit => u \in item[j].revoked
  BY DEF Exists
<1> HIDE DEF hit
<1>6. ASSUME NEW j \in hit
      PROVE  /\ item'[j] \in ItemRows /\ item'[j].rev > item[j].rev /\ item'[j].rev > 0
             /\ item'[j].status = item[j].status /\ item'[j].pins = item[j].pins
             /\ item'[j].revoked = item[j].revoked \cup {u}
  <2> DEFINE next == item[j].rev + 1
             out == [item[j] EXCEPT !.revoked = item[j].revoked \cup {u}, !.rev = next]
  <2>1. item[j] \in ItemRows /\ item'[j] = out
    BY <1>1, <1>2, <1>3
  <2>2. next \in Nat /\ next > item[j].rev /\ next > 0
    BY <2>1 DEF ItemRows
  <2> HIDE DEF next
  <2>3. out \in ItemRows /\ out.rev = next /\ out.status = item[j].status
        /\ out.pins = item[j].pins /\ out.revoked = item[j].revoked \cup {u}
    BY <2>1, <2>2 DEF ItemRows
  <2> QED
    BY <2>1, <2>2, <2>3
<1>7. \A j \in Items \ hit : item'[j] = item[j]
  BY <1>3
<1>8. item' = [j \in Items |-> item'[j]]
  BY <1>3
<1>9. \A j \in Items : item'[j] \in ItemRows
  BY <1>1, <1>6, <1>7
<1>10. item' \in ItemTables
  BY <1>8, <1>9 DEF ItemTables
<1>11. ASSUME NEW j \in Items
       PROVE  /\ item'[j] = item[j] \/ item'[j].rev > item[j].rev
              /\ item[j].rev > 0 => item'[j].rev > 0
              /\ (item'[j].rev = 0) <=> (item'[j].status = "none")
              /\ item'[j].pins = item[j].pins /\ item'[j].status = item[j].status
              /\ item[j].revoked \subseteq item'[j].revoked
  <2>1. (item[j].rev = 0) <=> (item[j].status = "none")
    BY DEF GraphInvariant, TableKept, RevTells
  <2>2. CASE j \in hit
    BY <1>1, <1>4, <1>6, <2>1, <2>2 DEF ItemRows
  <2>3. CASE j \notin hit
    BY <1>7, <2>1, <2>3
  <2> QED
    BY <2>2, <2>3
<1>12. RevTells(item') /\ Forward(item, item')
  BY <1>11 DEF RevTells, Forward
<1>13. ASSUME NEW j \in Items, NEW p \in item'[j].pins
       PROVE  /\ p \in item[j].pins /\ j \in Claims /\ p[1] \in Claims /\ p[1] \in Items
              /\ item[j].rev > 0 /\ item[p[1]].rev > 0
  BY <1>11, <1>13, ClaimsAreItems DEF GraphInvariant, TableKept, PinsAre
<1>14. PinsAre(item')
  BY <1>11, <1>13 DEF PinsAre
<1>15. Rests(item')
  <2>1. ASSUME NEW j \in Items, item'[j].status = "standing", NEW p \in item'[j].pins
        PROVE  item'[p[1]].status = "standing"
    BY <1>11, <1>13, <2>1 DEF GraphInvariant, Rests
  <2> QED
    BY <2>1 DEF Rests
<1>16. Reaches(item')
  <2>1. ASSUME NEW j \in Items, NEW p \in item'[j].pins
        PROVE  item'[p[1]].revoked \subseteq item'[j].revoked
    <3>1. /\ p \in item[j].pins /\ p[1] \in Items /\ item[j].rev > 0
          /\ item[p[1]].revoked \subseteq item[j].revoked
      BY <1>13, <2>1 DEF GraphInvariant, TableKept, Reaches
    <3>2. CASE p[1] \notin hit
      <4>1. item'[p[1]] = item[p[1]]
        BY <1>7, <3>1, <3>2
      <4> QED
        BY <1>11, <3>1, <4>1
    <3>3. CASE p[1] \in hit
      <4>1. p[1] \in RestingOn(item, {x})
        BY <3>3 DEF hit
      <4>2. j \in RestingOn(item, {x})
        BY <3>1, <4>1, RestingHoldsDependents
      <4>3. u \in item'[j].revoked
        BY <1>5, <1>6, <1>7, <3>1, <4>2
      <4> QED
        BY <1>6, <1>11, <3>1, <3>3, <4>3
    <3> QED
      BY <3>2, <3>3
  <2> QED
    BY <2>1 DEF Reaches
<1>17. Told(Rows(hit))
  <2>1. Mentions(Rows(hit), hit, edges')
    BY <1>2, MentionsRows
  <2>2. {j \in Items : item'[j] # item[j]} \subseteq hit
    BY <1>7
  <2>3. Mentions(Rows(hit), {j \in Items : item'[j] # item[j]}, edges')
    BY <2>1, <2>2 DEF Mentions
  <2> QED
    BY <1>3, <2>3 DEF Told
<1>18. edges \subseteq edges' /\ edges' \subseteq Corrections \X Items
  BY <1>1, <1>3
<1> QED
  BY <1>10, <1>12, <1>14, <1>15, <1>16, <1>17, <1>18 DEF GraphMoves, TableKept

LEMMA GraphStepsMove ==
  ASSUME GraphInvariant, Next
  PROVE  GraphMoves
<1>1. CASE \E a \in Attempts : Begin(a) \/ Publish(a)
  <2>1. ASSUME NEW a \in Attempts, Begin(a) PROVE GraphMoves
    BY <2>1, GraphStays DEF Begin
  <2> QED
    BY <1>1, <2>1, PublishMoves
<1>2. CASE \E p \in Readers, i \in Items : Look(p, i) \/ Revoke(p, i)
  <2>1. ASSUME NEW p \in Readers, NEW i \in Items, Look(p, i) PROVE GraphMoves
    BY <2>1, GraphStays DEF Look
  <2> QED
    BY <1>2, <2>1, RevokeMoves
<1>3. CASE \E p \in Readers : Ask(p) \/ CorrectRefused(p)
  <2>1. ASSUME NEW p \in Readers, Ask(p) \/ CorrectRefused(p) PROVE GraphMoves
    BY <2>1, GraphStays DEF Ask, CorrectRefused
  <2> QED
    BY <1>3, <2>1
<1>4. CASE \E p \in Readers, c \in Corrections : Correct(p, c)
  BY <1>4, CorrectMoves
<1>5. CASE Crash \/ Start \/ Up
  <2>1. CASE Crash \/ Start
    BY <2>1, GraphStays DEF Crash, Start
  <2> QED
    BY <1>5, <2>1, UpMoves
<1>6. CASE \E m \in Mirrored : Mirror(m) \/ \E t \in Texts \cup {Gone} : Edit(m, t)
  <2>1. ASSUME NEW m \in Mirrored, NEW t \in Texts \cup {Gone}, Edit(m, t) PROVE GraphMoves
    BY <2>1, GraphStays DEF Edit
  <2> QED
    BY <1>6, <2>1, MirrorMoves
<1> QED
  BY <1>1, <1>2, <1>3, <1>4, <1>5, <1>6 DEF Next

(* The log only grows, by the rows of what was written.                    *)
LogGrew ==
  /\ log' \in Seq(Subjects) /\ Len(log) \in Nat /\ Len(log') \in Nat /\ Len(log) <= Len(log')
  /\ \A k \in DOMAIN log : k \in DOMAIN log' /\ log'[k] = log[k]
  /\ \A k \in DOMAIN log' : log'[k] \in Items \cup edges'
  /\ \A i \in Items : item'[i] # item[i] => \E k \in Len(log) + 1 .. Len(log') : log'[k] = i

LEMMA LogGrows ==
  ASSUME GraphInvariant, GraphMoves
  PROVE  LogGrew
<1>1. PICK new : Told(new)
  BY DEF GraphMoves
<1>2. /\ log \in Seq(Subjects) /\ new \in Seq(Subjects) /\ log' = log \o new
      /\ \A k \in DOMAIN log : log[k] \in Items \cup edges
      /\ \A k \in DOMAIN new : new[k] \in Items \cup edges'
      /\ \A i \in Items : item'[i] # item[i] => \E k \in DOMAIN new : new[k] = i
      /\ edges \subseteq edges'
  BY <1>1 DEF Told, Mentions, GraphInvariant, GraphTyped, GraphMoves
<1>3. /\ log' \in Seq(Subjects) /\ Len(log) \in Nat /\ Len(new) \in Nat
      /\ Len(log') = Len(log) + Len(new)
      /\ DOMAIN log = 1 .. Len(log) /\ DOMAIN new = 1 .. Len(new)
      /\ DOMAIN log' = 1 .. Len(log) + Len(new)
  BY <1>2
<1>4. \A k \in 1 .. Len(log) : k \in DOMAIN log' /\ log'[k] = log[k]
  BY <1>2, <1>3
<1>5. \A k \in 1 .. Len(new) : Len(log) + k \in Len(log) + 1 .. Len(log')
                                /\ log'[Len(log) + k] = new[k]
  BY <1>2, <1>3
<1>6. \A k \in DOMAIN log' : k \in 1 .. Len(log)
        \/ (k - Len(log) \in 1 .. Len(new) /\ Len(log) + (k - Len(log)) = k)
  BY <1>3
<1>7. \A k \in DOMAIN log' : log'[k] \in Items \cup edges'
  <2>1. TAKE k \in DOMAIN log'
  <2>2. CASE k \in 1 .. Len(log)
    BY <1>2, <1>3, <1>4, <2>2
  <2>3. CASE k - Len(log) \in 1 .. Len(new) /\ Len(log) + (k - Len(log)) = k
    <3>1. log'[k] = new[k - Len(log)]
      BY <1>5, <2>3
    <3> QED
      BY <1>2, <1>3, <2>3, <3>1
  <2> QED
    BY <1>6, <2>2, <2>3
<1>8. ASSUME NEW i \in Items, item'[i] # item[i]
      PROVE  \E k \in Len(log) + 1 .. Len(log') : log'[k] = i
  <2>1. PICK k \in 1 .. Len(new) : new[k] = i
    BY <1>2, <1>3, <1>8
  <2> QED
    BY <1>5, <2>1
<1> QED
  BY <1>3, <1>4, <1>7, <1>8 DEF LogGrew

(***************************************************************************)
(* Workers, windows and the rest.                                          *)
(***************************************************************************)
LEMMA HasReadOn ==
  ASSUME NEW old \in ItemTables, NEW new \in ItemTables, Forward(old, new),
         NEW w, NEW c \in Claims, HasRead(old, w, c)
  PROVE  HasRead(new, w, c)
<1>1. InputOf[c] # NoInput => InputOf[c] \in Items
  BY ClaimsAssumption, ClaimsAreItems
<1>2. \A i \in Items : old[i].rev \in Nat /\ new[i].rev \in Nat
  BY DEF ItemTables, ItemRows
<1> QED
  BY <1>1, <1>2 DEF HasRead, Forward

WorkerRows == [at : {"idle", "working", "over"}, pin : Nat]
WindowRows == [at : {"idle", "looking", "asking"}, on : Items \cup {NoInput},
               rev : Nat, revoked : SUBSET Readers]

LEMMA WorkersKeepWhatTheyRead ==
  ASSUME GraphInvariant, Next
  PROVE  worker' \in [Attempts -> WorkerRows]
         /\ \A a \in Attempts : HasRead(item', worker'[a], ClaimOf[a])
<1>1. /\ worker \in [Attempts -> WorkerRows] /\ item \in ItemTables
      /\ item' \in ItemTables /\ Forward(item, item')
      /\ \A a \in Attempts : HasRead(item, worker[a], ClaimOf[a]) /\ ClaimOf[a] \in Claims
  BY GraphStepsMove, ClaimsAssumption
  DEF GraphInvariant, GraphTyped, GraphMoves, TableKept, WorkersHaveRead, WorkerRows
<1>2. \A a \in Attempts : HasRead(item', worker[a], ClaimOf[a])
  BY <1>1, HasReadOn
<1>3. \A c, w : w.at # "working" => HasRead(item', w, c)
  BY DEF HasRead
<1>4. CASE UNCHANGED worker
  BY <1>1, <1>2, <1>4
<1>5. ASSUME NEW a \in Attempts, Begin(a) PROVE
         worker' \in [Attempts -> WorkerRows]
         /\ \A b \in Attempts : HasRead(item', worker'[b], ClaimOf[b])
  <2> DEFINE source == InputOf[ClaimOf[a]]
             begun == [at |-> "working",
                       pin |-> IF source = NoInput THEN 0 ELSE item[source].rev]
  <2>1. worker' = [worker EXCEPT ![a] = begun] /\ item' = item
    BY <1>5 DEF Begin, graphVars
  <2>2. source # NoInput => source \in Items /\ item[source].rev > 0 /\ item[source].rev \in Nat
    BY <1>1, <1>5, ClaimsAreItems DEF Begin, ReadableBy, Exists, ItemTables, ItemRows
  <2>3. begun \in WorkerRows
    BY <2>2 DEF WorkerRows
  <2>4. HasRead(item', begun, ClaimOf[a])
    BY <2>1, <2>2 DEF HasRead
  <2> HIDE DEF begun
  <2> QED
    BY <1>1, <1>2, <2>1, <2>3, <2>4
<1>6. ASSUME NEW a \in Attempts, Publish(a) PROVE
         worker' \in [Attempts -> WorkerRows]
         /\ \A b \in Attempts : HasRead(item', worker'[b], ClaimOf[b])
  <2> DEFINE finished == [NoWork EXCEPT !.at = "over"]
  <2>1. worker' = [worker EXCEPT ![a] = finished] /\ finished \in WorkerRows
        /\ finished.at # "working"
    BY <1>6 DEF Publish, NoWork, WorkerRows
  <2> HIDE DEF finished
  <2> QED
    BY <1>1, <1>2, <1>3, <2>1
<1>7. CASE Crash
  <2>1. worker' = [b \in Attempts |->
         IF worker[b].at = "idle" THEN NoWork ELSE [NoWork EXCEPT !.at = "over"]]
    BY <1>7 DEF Crash
  <2>2. NoWork \in WorkerRows /\ [NoWork EXCEPT !.at = "over"] \in WorkerRows
        /\ NoWork.at # "working" /\ [NoWork EXCEPT !.at = "over"].at # "working"
    BY DEF NoWork, WorkerRows
  <2>3. \A b \in Attempts : worker'[b] \in WorkerRows /\ worker'[b].at # "working"
    BY <2>1, <2>2
  <2> QED
    BY <1>3, <2>1, <2>3
<1>8. \/ UNCHANGED worker \/ Crash
      \/ \E a \in Attempts : Begin(a) \/ Publish(a)
  BY DEF Next, Look, Revoke, Ask, CorrectRefused, Correct, Start, Up, Mirror, Edit
<1> QED
  BY <1>4, <1>5, <1>6, <1>7, <1>8

LEMMA LooksOn ==
  ASSUME NEW old \in ItemTables, NEW new \in ItemTables, Forward(old, new),
         NEW w \in WindowRows, LooksAt(old, w)
  PROVE  LooksAt(new, w)
<1>1. CASE w.at = "idle"
  BY <1>1 DEF LooksAt
<1>2. CASE w.at # "idle"
  <2>1. w.on \in Items /\ w.rev > 0 /\ w.rev <= old[w.on].rev
    BY <1>2 DEF LooksAt
  <2>2. w.rev \in Nat /\ old[w.on].rev \in Nat /\ new[w.on].rev \in Nat
    BY <2>1 DEF WindowRows, ItemTables, ItemRows
  <2>3. CASE new[w.on] = old[w.on]
    BY <2>3 DEF LooksAt
  <2>4. CASE new[w.on].rev > old[w.on].rev
    BY <2>1, <2>2, <2>4 DEF LooksAt
  <2> QED
    BY <2>1, <2>3, <2>4 DEF Forward
<1> QED
  BY <1>1, <1>2

LEMMA WindowsKeepLooking ==
  ASSUME GraphInvariant, Next
  PROVE  window' \in [Readers -> WindowRows]
         /\ \A p \in Readers : LooksAt(item', window'[p])
<1>1. /\ window \in [Readers -> WindowRows] /\ item \in ItemTables
      /\ item' \in ItemTables /\ Forward(item, item')
      /\ \A p \in Readers : LooksAt(item, window[p]) /\ window[p] \in WindowRows
  BY GraphStepsMove
  DEF GraphInvariant, GraphTyped, GraphMoves, TableKept, WindowsLookAt, WindowRows
<1>2. \A p \in Readers : LooksAt(item', window[p])
  BY <1>1, LooksOn
<1>3. NoWindow \in WindowRows /\ LooksAt(item', NoWindow)
  BY DEF NoWindow, WindowRows, LooksAt
<1>4. CASE UNCHANGED window
  BY <1>1, <1>2, <1>4
<1>5. ASSUME NEW p \in Readers, NEW w \in WindowRows, LooksAt(item', w),
             window' = [window EXCEPT ![p] = w]
      PROVE  window' \in [Readers -> WindowRows]
             /\ \A q \in Readers : LooksAt(item', window'[q])
  BY <1>1, <1>2, <1>5
<1>6. ASSUME NEW p \in Readers, NEW i \in Items, Look(p, i)
      PROVE  \E w \in WindowRows : LooksAt(item', w) /\ window' = [window EXCEPT ![p] = w]
  <2> DEFINE w == [at |-> "looking", on |-> i, rev |-> item[i].rev, revoked |-> {}]
  <2>1. window' = [window EXCEPT ![p] = w] /\ item' = item /\ item[i].rev > 0
    BY <1>6 DEF Look, graphVars, ReadableBy, Exists
  <2>2. item[i].rev \in Nat
    BY <1>1 DEF ItemTables, ItemRows
  <2>3. w \in WindowRows /\ LooksAt(item', w)
    BY <2>1, <2>2 DEF WindowRows, LooksAt
  <2> QED
    BY <2>1, <2>3
<1>7. ASSUME NEW p \in Readers, Ask(p)
      PROVE  \E w \in WindowRows : LooksAt(item', w) /\ window' = [window EXCEPT ![p] = w]
  <2> DEFINE i == window[p].on
             w == [window[p] EXCEPT !.at = "asking", !.revoked = item[i].revoked]
  <2>1. window' = [window EXCEPT ![p] = IF ReadableBy(i, p) THEN w ELSE NoWindow]
        /\ item' = item /\ window[p].at = "looking"
    BY <1>1, <1>7 DEF Ask, graphVars
  <2>2. /\ window[p] \in WindowRows /\ i \in Items
        /\ window[p].rev > 0 /\ window[p].rev <= item[i].rev
    BY <1>1, <2>1 DEF LooksAt
  <2>3. item[i].revoked \in SUBSET Readers
    BY <1>1, <2>2 DEF ItemTables, ItemRows
  <2>4. w \in WindowRows /\ w.at = "asking" /\ w.on = i /\ w.rev = window[p].rev
        /\ w.revoked = item[i].revoked
    BY <2>2, <2>3 DEF WindowRows
  <2> HIDE DEF w
  <2>5. LooksAt(item', w)
    BY <2>1, <2>2, <2>4 DEF LooksAt
  <2> QED
    BY <1>3, <2>1, <2>4, <2>5
<1>8. ASSUME NEW p \in Readers, window' = [window EXCEPT ![p] = NoWindow]
      PROVE  window' \in [Readers -> WindowRows]
             /\ \A q \in Readers : LooksAt(item', window'[q])
  BY <1>3, <1>5, <1>8
<1>9. CASE Crash
  <2>1. window' = [p \in Readers |-> NoWindow]
    BY <1>9 DEF Crash
  <2> QED
    BY <1>3, <2>1
<1>10. \/ UNCHANGED window \/ Crash
       \/ \E p \in Readers : window' = [window EXCEPT ![p] = NoWindow]
       \/ \E p \in Readers : Ask(p)
       \/ \E p \in Readers, i \in Items : Look(p, i)
  BY DEF Next, Begin, Publish, Revoke, CorrectRefused, Correct, Start, Up, Mirror, Edit
<1> QED
  BY <1>4, <1>5, <1>6, <1>7, <1>8, <1>9, <1>10

LEMMA GraphStep ==
  ASSUME GraphInvariant, Next
  PROVE  GraphInvariant'
<1>1. GraphMoves
  BY GraphStepsMove
<1>2. LogGrew
  BY <1>1, LogGrows
<1>3. legacy' \in [Mirrored -> Texts \cup {Gone}]
  <2>1. CASE UNCHANGED legacy
    BY <2>1 DEF GraphInvariant, GraphTyped
  <2>2. CASE \E m \in Mirrored, t \in Texts \cup {Gone} : legacy' = [legacy EXCEPT ![m] = t]
    BY <2>2 DEF GraphInvariant, GraphTyped
  <2>3. \/ UNCHANGED legacy
        \/ \E m \in Mirrored, t \in Texts \cup {Gone} : legacy' = [legacy EXCEPT ![m] = t]
    BY DEF Next, Begin, Publish, Look, Ask, Revoke, CorrectRefused, Correct, Crash, Start, Up,
           Mirror, Edit
  <2> QED
    BY <2>1, <2>2, <2>3
<1>4. app' \in {"up", "down", "mirroring"}
  BY DEF Next, Begin, Publish, Look, Ask, Revoke, CorrectRefused, Correct, Crash, Start, Up,
         Mirror, Edit, GraphInvariant, GraphTyped
<1>5. GraphTyped'
  BY <1>1, <1>2, <1>3, <1>4, WorkersKeepWhatTheyRead, WindowsKeepLooking
  DEF GraphTyped, GraphMoves, LogGrew, WorkerRows, WindowRows
<1>6. WorkersHaveRead' /\ WindowsLookAt'
  BY WorkersKeepWhatTheyRead, WindowsKeepLooking DEF WorkersHaveRead, WindowsLookAt
<1>7. Logged'
  <2>1. ASSUME NEW i \in Items, item'[i].rev > 0
        PROVE  \E k \in DOMAIN log' : log'[k] = i
    <3>1. CASE item'[i] = item[i]
      BY <1>2, <2>1, <3>1 DEF GraphInvariant, Logged, LogGrew
    <3>2. CASE item'[i] # item[i]
      <4>1. PICK k \in Len(log) + 1 .. Len(log') : log'[k] = i
        BY <1>2, <3>2 DEF LogGrew
      <4>2. k \in DOMAIN log'
        BY <1>2, <4>1 DEF LogGrew
      <4> QED
        BY <4>1, <4>2
    <3> QED
      BY <3>1, <3>2
  <2> QED
    BY <2>1 DEF Logged
<1> QED
  BY <1>1, <1>5, <1>6, <1>7 DEF GraphInvariant, GraphMoves, TableKept, Rests

LEMMA GraphStill ==
  ASSUME GraphInvariant, UNCHANGED vars
  PROVE  GraphInvariant'
BY DEF GraphInvariant, vars, TableKept, RevTells, PinsAre, Reaches, Rests, GraphTyped,
       WorkersHaveRead, HasRead, WindowsLookAt, LooksAt, Logged

LEMMA GraphInit ==
  ASSUME Init
  PROVE  GraphInvariant
<1>1. /\ item = [i \in Items |-> Absent] /\ edges = {} /\ log = <<>>
      /\ legacy \in [Mirrored -> Texts] /\ app = "down"
      /\ worker = [a \in Attempts |-> NoWork] /\ window = [p \in Readers |-> NoWindow]
  BY DEF Init
<1>2. Absent \in ItemRows /\ Absent.rev = 0 /\ Absent.status = "none" /\ Absent.pins = {}
  BY DEF Absent, ItemRows, Statuses
<1>3. \A i \in Items : item[i] = Absent
  BY <1>1
<1>4. item \in ItemTables
  BY <1>1, <1>2 DEF ItemTables
<1>5. TableKept(item) /\ Rests(item)
  BY <1>2, <1>3, <1>4 DEF TableKept, RevTells, PinsAre, Reaches, Rests
<1>6. NoWork \in WorkerRows /\ NoWindow \in WindowRows
      /\ NoWork.at = "idle" /\ NoWindow.at = "idle"
  BY DEF NoWork, NoWindow, WorkerRows, WindowRows
<1>7. WorkersHaveRead /\ WindowsLookAt
  BY <1>1, <1>6 DEF WorkersHaveRead, HasRead, WindowsLookAt, LooksAt
<1>8. worker \in [Attempts -> WorkerRows] /\ window \in [Readers -> WindowRows]
      /\ legacy \in [Mirrored -> Texts \cup {Gone}]
  BY <1>1, <1>6
<1>9. GraphTyped
  BY <1>1, <1>8 DEF GraphTyped, WorkerRows, WindowRows
<1>10. Logged
  BY <1>2, <1>3 DEF Logged
<1> QED
  BY <1>5, <1>7, <1>9, <1>10 DEF GraphInvariant

LEMMA CorrectionCarries ==
  ASSUME GraphInvariant, Next, NEW c \in Corrections, NEW i \in Items,
         <<c, i>> \in edges' \ edges
  PROVE  /\ \E p \in Readers : window[p].on = i /\ window[p].rev = item[i].rev
         /\ item[i].revoked \subseteq item'[c].revoked
<1>1. PICK p \in Readers, d \in Corrections : Correct(p, d)
  BY DEF Next, Begin, Publish, Look, Ask, Revoke, CorrectRefused, Crash, Start, Up,
         Mirror, Edit, graphVars
<1>2. edges' = edges \cup {<<d, window[p].on>>} /\ item'[d].revoked = window[p].revoked
  BY <1>1, CorrectMoves
<1>3. d = c /\ window[p].on = i
  BY <1>2
<1>4. window[p].at = "asking" /\ window[p].rev = item[i].rev
  BY <1>1, <1>3 DEF Correct, AsRead
<1>5. item[i].revoked \subseteq window[p].revoked
  BY <1>3, <1>4 DEF GraphInvariant, WindowsLookAt, LooksAt
<1> QED
  BY <1>2, <1>3, <1>4, <1>5

(* A step of the feed is one of the graph, or none of it.                  *)
LEMMA FeedStepsAreTheGraphs ==
  ASSUME FeedNext
  PROVE  Next \/ UNCHANGED vars
BY DEF FeedNext, Write, Hear, Answer, Fold, Reload, Replace

LEMMA GraphIsKept == FeedSpec => []GraphInvariant
<1>1. FeedInit => GraphInvariant
  BY GraphInit DEF FeedInit
<1>2. GraphInvariant /\ [FeedNext]_allVars => GraphInvariant'
  BY FeedStepsAreTheGraphs, GraphStep, GraphStill DEF allVars
<1> QED
  BY <1>1, <1>2, PTL DEF FeedSpec

(* Whatever was published, corrected, mirrored or withdrawn, and in which    *)
(* order: nothing stands on what does not, and who lost access to an item   *)
(* has lost access to what was worked out from it (publish, correct_at,     *)
(* revoke_access, migrate of runtime_store.rs).                            *)
THEOREM ResultsFollow == FeedSpec => []ResultsFollowTheirInputs
<1>1. GraphInvariant => ResultsFollowTheirInputs
  BY DEF GraphInvariant, TableKept, Rests, Reaches, ResultsFollowTheirInputs,
         StandingRestsOnStanding, RevocationReachesResults
<1> QED
  BY <1>1, GraphIsKept, PTL

(* A correction is of the revision its author had before them, and carries  *)
(* every restriction that item has by then (correct_at's expected revision). *)
THEOREM CorrectionsAreOfWhatWasRead == FeedSpec => CorrectionReplacesWhatWasRead
<1> DEFINE A == \A c \in Corrections, i \in Items :
         (<<c, i>> \in edges' \ edges) =>
            /\ \E p \in Readers : window[p].on = i /\ window[p].rev = item[i].rev
            /\ item[i].revoked \subseteq item'[c].revoked
<1>1. GraphInvariant /\ [FeedNext]_allVars => [A]_vars
  <2>1. SUFFICES ASSUME GraphInvariant, [FeedNext]_allVars PROVE [A]_vars
    OBVIOUS
  <2>2. CASE UNCHANGED vars
    BY <2>2
  <2>3. CASE Next
    <3>1. A
      BY <2>1, <2>3, CorrectionCarries
    <3> QED
      BY <3>1
  <2> QED
    BY <2>1, <2>2, <2>3, FeedStepsAreTheGraphs DEF allVars
<1> HIDE DEF A
<1>2. FeedSpec => [][A]_vars
  BY <1>1, GraphIsKept, PTL DEF FeedSpec
<1> QED
  BY <1>2 DEF CorrectionReplacesWhatWasRead, A

(***************************************************************************)
(* Positions of the log.                                                   *)
(***************************************************************************)
\* A set of numbers that is not empty has a least member.
LEMMA LeastMember ==
  ASSUME NEW T, T \subseteq Nat, T # {}
  PROVE  \E x \in T : \A y \in T : ~(y < x)
<1> DEFINE R == OpToRel(<, Nat)
<1>1. IsWellFoundedOn(R, Nat)
  BY NatLessThanWellFounded, Zenon
<1>2. PICK x \in T : \A y \in T : ~ (<<y, x>> \in R)
  <2> HIDE DEF R
  <2>. QED  BY <1>1, WFMin, Zenon
<1>3. ASSUME NEW y \in Nat, NEW z \in Nat, y < z
      PROVE  <<y, z>> \in R
  BY <1>3, Zenon DEF OpToRel
<1> HIDE DEF R
<1>. QED  BY <1>2, <1>3

\* From one position to the next, as far as the last.
LEMMA Upwards ==
  ASSUME NEW a \in Nat, NEW b \in Nat, NEW S,
         a \in S, \A n \in a .. (b - 1) : n \in S => n + 1 \in S
  PROVE  a .. b \subseteq S
<1> DEFINE T == {n \in a .. b : n \notin S}
<1> SUFFICES ASSUME T # {} PROVE FALSE
  OBVIOUS
<1>1. PICK x \in T : \A y \in T : ~(y < x)
  <2>1. T \subseteq Nat
    OBVIOUS
  <2> HIDE DEF T
  <2>. QED  BY <2>1, LeastMember
<1>2. x # a /\ x - 1 \in a .. (b - 1)
  BY <1>1
<1>3. x - 1 \in S
  BY <1>1, <1>2
<1>. QED  BY <1>1, <1>2, <1>3


LEMMA GreatestMember ==
  ASSUME NEW a \in Nat, NEW b \in Nat, NEW S \in SUBSET (a .. b), S # {}
  PROVE  Max(S) \in S /\ \A y \in S : Max(S) >= y
<1> DEFINE T == {b - x : x \in S}
<1>1. T \subseteq Nat /\ T # {}
  OBVIOUS
<1> HIDE DEF T
<1>2. PICK t \in T : \A y \in T : ~(y < t)
  BY <1>1, LeastMember
<1>3. PICK x \in S : t = b - x
  BY <1>2 DEF T
<1>4. ASSUME NEW y \in S PROVE x >= y
  <2>1. ~(b - y < b - x)
    BY <1>2, <1>3 DEF T
  <2> QED
    BY <2>1
<1>5. \E x1 \in S : \A y \in S : x1 >= y
  BY <1>4
<1> QED
  BY <1>5 DEF Max

(* An answer covers what came after the cursor, as far as its own cursor.   *)
LEMMA AnswersCover ==
  ASSUME Latest \in Nat, NEW c \in 0 .. Latest
  PROVE  LET end == CursorAfter(FirstOf(RowsAfter(c)), c)
         IN  /\ end \in c .. Latest
             /\ \A k \in RowsAfter(c) : k <= end => k \in FirstOf(RowsAfter(c))
             /\ \A k \in FirstOf(RowsAfter(c)) : k \in RowsAfter(c) /\ k <= end
<1> DEFINE after == RowsAfter(c)
           scanned == FirstOf(after)
           end == CursorAfter(scanned, c)
           Before(k) == {n \in after : n < k}
<1>1. after \subseteq c + 1 .. Latest /\ scanned \subseteq after
  BY DEF RowsAfter, FirstOf
<1>2. IsFiniteSet(after)
  <2>1. IsFiniteSet(c + 1 .. Latest)
    BY FS_Interval
  <2> QED
    BY <1>1, <2>1, FS_Subset
<1>3. \A k \in after : k \in scanned <=> Cardinality(Before(k)) < Batch
  BY DEF FirstOf
<1> HIDE DEF after, scanned
<1>4. \A k \in after : Cardinality(Before(k)) \in Nat /\ IsFiniteSet(Before(k))
  BY <1>2, FS_Subset, FS_CardinalityType
<1>5. ASSUME NEW k \in scanned, NEW n \in after, n <= k
      PROVE  n \in scanned
  <2>1. k \in Nat /\ n \in Nat
    BY <1>1
  <2>2. Before(n) \subseteq Before(k)
    <3>1. ASSUME NEW m \in after, m < n PROVE m < k
      <4>1. m \in Nat
        BY <1>1
      <4> QED
        BY <1>5, <2>1, <3>1, <4>1
    <3> QED
      BY <3>1
  <2>3. Cardinality(Before(n)) <= Cardinality(Before(k))
    BY <1>1, <1>4, <2>2, FS_Subset
  <2>4. Cardinality(Before(k)) < Batch
    BY <1>1, <1>3
  <2> HIDE DEF Before
  <2>5. Cardinality(Before(n)) < Batch
    BY <1>1, <1>4, <2>3, <2>4, FeedAssumption
  <2> QED
    BY <1>3, <2>5 DEF Before
<1>6. CASE scanned # {}
  <2>1. end = Max(scanned)
    BY <1>6 DEF CursorAfter
  <2>2. scanned \in SUBSET (c + 1 .. Latest) /\ c + 1 \in Nat
    BY <1>1
  <2>3. Max(scanned) \in scanned /\ \A y \in scanned : Max(scanned) >= y
    BY <1>6, <2>2, GreatestMember
  <2> HIDE DEF end
  <2>4. end \in scanned /\ \A k \in scanned : k <= end
    BY <2>1, <2>2, <2>3
  <2>5. end \in c .. Latest
    BY <2>2, <2>4
  <2> QED
    BY <1>1, <1>5, <2>4, <2>5 DEF after, scanned, end
<1>7. CASE scanned = {}
  <2>1. after = {}
    <3> SUFFICES ASSUME after # {} PROVE FALSE
      OBVIOUS
    <3>1. after \subseteq Nat
      BY <1>1
    <3>2. PICK k \in after : \A y \in after : ~(y < k)
      BY <3>1, LeastMember
    <3>3. Before(k) = {}
      BY <3>2
    <3>4. Cardinality(Before(k)) = 0
      BY <3>3, FS_EmptySet
    <3> QED
      BY <1>3, <1>7, <3>4, FeedAssumption
  <2>2. end = IF Latest > c THEN Latest ELSE c
    BY <1>7 DEF CursorAfter
  <2>3. end \in c .. Latest
    BY <2>2
  <2> QED
    BY <1>7, <2>1, <2>3 DEF after, scanned
<1> QED
  BY <1>6, <1>7

(***************************************************************************)
(* What a window holds.                                                    *)
(***************************************************************************)
HeldRows ==
  [shown : [TaskItems -> Nat], lines : SUBSET (Corrections \X Items), cursor : Nat]

(* What the viewer sees of a row.                                          *)
SeenOf(row) ==
  IF row.rev > 0 /\ row.status # "tombstoned" /\ Viewer \notin row.revoked THEN row.rev ELSE 0

(* What is shown wrongly is told of after position n.                      *)
Shows(rows, told, held, n) ==
  \A i \in TaskItems :
    /\ held.shown[i] <= rows[i].rev
    /\ held.shown[i] = SeenOf(rows[i]) \/ \E k \in n + 1 .. Len(told) : told[k] = i

GoodTo(rows, told, lines, held, n) ==
  held \in HeldRows /\ held.lines \subseteq lines /\ Shows(rows, told, held, n)

Good(rows, told, lines, held) ==
  GoodTo(rows, told, lines, held, held.cursor) /\ held.cursor \in 0 .. Len(told)

LEMMA SeenIs ==
  ASSUME NEW i
  PROVE  Seen(i) = SeenOf(item[i])
BY DEF Seen, SeenOf, ReadableBy, Exists

LEMMA TakenItem ==
  ASSUME NEW h \in HeldRows, NEW i \in TaskItems, NEW v \in Nat
  PROVE  LET t == Taken(h, [what |-> i, now |-> v])
         IN  /\ t \in HeldRows /\ t.cursor = h.cursor /\ t.lines \subseteq h.lines
             /\ \A j \in TaskItems \ {i} : t.shown[j] = h.shown[j]
             /\ t.shown[i] = IF v > 0 THEN IF h.shown[i] >= v THEN h.shown[i] ELSE v ELSE 0
<1> DEFINE row == [what |-> i, now |-> v]
<1>1. row.what = i /\ row.now = v /\ i \in TaskItems
  OBVIOUS
<1> HIDE DEF row
<1>2. Taken(h, row) = IF v > 0 THEN WithItem(h, i, v) ELSE Dropped(h, i)
  BY <1>1 DEF Taken
<1>3. CASE v > 0
  <2>1. Taken(h, row) = IF h.shown[i] >= v THEN h ELSE [h EXCEPT !.shown[i] = v]
    BY <1>2, <1>3 DEF WithItem
  <2> QED
    BY <1>3, <2>1 DEF HeldRows, row
<1>4. CASE ~(v > 0)
  <2> DEFINE kept == {e \in h.lines : e[1] # i /\ e[2] # i}
  <2>1. Taken(h, row) = [h EXCEPT !.shown[i] = 0, !.lines = kept]
    BY <1>2, <1>4 DEF Dropped
  <2>2. kept \subseteq h.lines
    OBVIOUS
  <2> HIDE DEF kept
  <2> DEFINE t == [h EXCEPT !.shown[i] = 0, !.lines = kept]
  <2>3. t.shown = [h.shown EXCEPT ![i] = 0] /\ t.lines = kept /\ t.cursor = h.cursor
        /\ h.shown \in [TaskItems -> Nat]
    BY DEF HeldRows
  <2>4. t \in HeldRows
    BY <2>2, <2>3 DEF HeldRows
  <2> HIDE DEF t
  <2>5. t.shown[i] = 0 /\ \A j \in TaskItems \ {i} : t.shown[j] = h.shown[j]
    BY <2>3
  <2> QED
    BY <1>4, <2>1, <2>2, <2>3, <2>4, <2>5 DEF t, row
<1> QED
  BY <1>3, <1>4

LEMMA TakenLine ==
  ASSUME NEW h \in HeldRows, NEW e \in Corrections \X Items, e \notin TaskItems, NEW v \in Nat
  PROVE  LET t == Taken(h, [what |-> e, now |-> v])
         IN  /\ t \in HeldRows /\ t.cursor = h.cursor /\ t.shown = h.shown
             /\ t.lines \subseteq h.lines \cup {e}
<1> DEFINE row == [what |-> e, now |-> v]
<1>1. row.what = e /\ row.now = v
  OBVIOUS
<1> HIDE DEF row
<1>2. Taken(h, row) = IF v > 0 THEN WithLine(h, e) ELSE [h EXCEPT !.lines = h.lines \ {e}]
  BY <1>1 DEF Taken
<1>3. WithLine(h, e) = h \/ WithLine(h, e) = [h EXCEPT !.lines = h.lines \cup {e}]
  BY DEF WithLine
<1>4. \/ Taken(h, row) = h \/ Taken(h, row) = [h EXCEPT !.lines = h.lines \cup {e}]
      \/ Taken(h, row) = [h EXCEPT !.lines = h.lines \ {e}]
  BY <1>2, <1>3
<1> QED
  BY <1>4 DEF HeldRows, row

(***************************************************************************)
(* The fold of an answer.                                                  *)
(***************************************************************************)
(* One position of the log.                                                *)
Position(held, rows, n) == IF n \in DOMAIN rows THEN Taken(held, rows[n]) ELSE held

(* f folds the rows of an answer into held, from its cursor as far as m.   *)
IsFold(f, held, rows, m) ==
  f = [n \in held.cursor .. m |->
         IF n = held.cursor THEN held
         ELSE IF n \in DOMAIN rows THEN Taken(f[n - 1], rows[n]) ELSE f[n - 1]]

LEMMA FoldIs ==
  ASSUME NEW held, NEW rows, NEW m, NEW f, IsFold(f, held, rows, m)
  PROVE  \A n \in held.cursor .. m :
           f[n] = IF n = held.cursor THEN held ELSE Position(f[n - 1], rows, n)
BY DEF IsFold, Position

LEMMA FoldExtends ==
  ASSUME NEW held, held.cursor \in Nat, NEW rows, NEW m \in Nat, held.cursor <= m,
         NEW f, IsFold(f, held, rows, m)
  PROVE  \E g : IsFold(g, held, rows, m + 1)
<1> DEFINE g == [n \in held.cursor .. (m + 1) |->
                   IF n = m + 1 THEN Position(f[m], rows, m + 1) ELSE f[n]]
           h == [n \in held.cursor .. (m + 1) |->
                   IF n = held.cursor THEN held ELSE Position(g[n - 1], rows, n)]
<1>1. \A n \in held.cursor .. m :
        f[n] = IF n = held.cursor THEN held ELSE Position(f[n - 1], rows, n)
  BY FoldIs
<1>2. \A n \in held.cursor .. (m + 1) : g[n] = h[n]
  <2> TAKE n \in held.cursor .. (m + 1)
  <2>1. CASE n = m + 1
    <3>1. n - 1 = m /\ n # held.cursor /\ g[n - 1] = f[m]
      BY <2>1
    <3> QED
      BY <2>1, <3>1
  <2>2. CASE n = held.cursor
    BY <1>1, <2>2
  <2>3. CASE n # m + 1 /\ n # held.cursor
    <3>1. n \in held.cursor .. m /\ g[n] = f[n] /\ g[n - 1] = f[n - 1]
      BY <2>3
    <3> QED
      BY <1>1, <2>3, <3>1
  <2> QED
    BY <2>1, <2>2, <2>3
<1>3. g = h
  BY <1>2
<1>4. IsFold(g, held, rows, m + 1)
  BY <1>3 DEF IsFold, Position
<1> QED
  BY <1>4

LEMMA FoldExists ==
  ASSUME NEW held, held.cursor \in Nat, NEW rows, NEW m \in Nat, held.cursor <= m
  PROVE  \E f : IsFold(f, held, rows, m)
<1> DEFINE S == {k \in Nat : \E f : IsFold(f, held, rows, k)}
<1>1. held.cursor \in S
  <2> DEFINE f == [n \in held.cursor .. held.cursor |-> held]
  <2>1. IsFold(f, held, rows, held.cursor)
    BY DEF IsFold
  <2> QED
    BY <2>1
<1>2. \A k \in held.cursor .. (m - 1) : k \in S => k + 1 \in S
  BY FoldExtends
<1> HIDE DEF S
<1>3. held.cursor .. m \subseteq S
  BY <1>1, <1>2, Upwards
<1> QED
  BY <1>3 DEF S

(* The last sweep over the lines.                                          *)
Swept(held, m) ==
  [held EXCEPT !.cursor = m,
               !.lines = {e \in held.lines : held.shown[e[1]] > 0 /\ held.shown[e[2]] > 0}]

(* Applying an answer ends with the last value of such a fold.             *)
LEMMA AppliedIsFold ==
  ASSUME NEW held, held.cursor \in Nat, NEW answer, answer.cursor \in Nat,
         held.cursor <= answer.cursor
  PROVE  \E f : /\ IsFold(f, held, answer.rows, answer.cursor)
                /\ Applied(held, answer) = Swept(f[answer.cursor], answer.cursor)
<1> DEFINE F == CHOOSE f : IsFold(f, held, answer.rows, answer.cursor)
<1>1. IsFold(F, held, answer.rows, answer.cursor)
  BY FoldExists
<1>2. (IF answer.cursor > held.cursor THEN answer.cursor ELSE held.cursor) = answer.cursor
  OBVIOUS
<1>3. Applied(held, answer) =
        [F[answer.cursor] EXCEPT !.cursor = answer.cursor,
                 !.lines = {e \in F[answer.cursor].lines :
                              /\ F[answer.cursor].shown[e[1]] > 0
                              /\ F[answer.cursor].shown[e[2]] > 0}]
  BY <1>2 DEF Applied, IsFold
<1> QED
  BY <1>1, <1>3 DEF Swept

(* What an answer says of its positions.                                   *)
LEMMA AnswerIs ==
  ASSUME GraphInvariant, NEW c \in 0 .. Latest
  PROVE  LET answer == Changes(c)
         IN  /\ Latest \in Nat /\ answer.cursor \in c .. Latest
             /\ \A n \in DOMAIN answer.rows :
                  /\ n \in c + 1 .. answer.cursor
                  /\ log[n] \in TaskItems \cup (Corrections \X Items)
                  /\ log[n] \notin TaskItems => log[n] \in edges
                  /\ \E v \in Nat : /\ answer.rows[n] = [what |-> log[n], now |-> v]
                                    /\ log[n] \in TaskItems => v = SeenOf(item[log[n]])
             /\ \A n \in c + 1 .. answer.cursor : log[n] \in TaskItems =>
                  n \in DOMAIN answer.rows \/ \E k \in n + 1 .. Latest : log[k] = log[n]
<1> DEFINE after == RowsAfter(c)
           scanned == FirstOf(after)
           last == {k \in scanned : ~\E n \in scanned : n > k /\ log[n] = log[k]}
           Now(k) == IF log[k] \in TaskItems THEN Seen(log[k])
                     ELSE IF SeenLine(log[k]) THEN 1 ELSE 0
           end == CursorAfter(scanned, c)
           rows == [k \in last |-> [what |-> log[k], now |-> Now(k)]]
<1>1. Changes(c) = [rows |-> rows, cursor |-> end, more |-> scanned # after]
  BY DEF Changes
<1>2. Changes(c).rows = rows /\ Changes(c).cursor = end
  BY <1>1
<1>3. /\ Latest \in Nat /\ DOMAIN log = 1 .. Latest /\ edges \subseteq Corrections \X Items
      /\ \A k \in DOMAIN log : log[k] \in Items \cup edges
  BY DEF GraphInvariant, GraphTyped, Latest
<1>4. /\ end \in c .. Latest
      /\ \A k \in after : k <= end => k \in scanned
      /\ \A k \in scanned : k \in after /\ k <= end
  BY <1>3, AnswersCover
<1>5. after = {k \in c + 1 .. Latest : log[k] \notin Mirrored}
  BY DEF RowsAfter
<1> HIDE DEF end, scanned, after
<1>6. \A k \in scanned : k \in c + 1 .. Latest /\ k \in c + 1 .. end /\ log[k] \notin Mirrored
  BY <1>4, <1>5
<1>7. \A i \in TaskItems : i \notin Mirrored /\ i \in Items
  BY DEF TaskItems
<1>8. ASSUME NEW k \in last
      PROVE  /\ k \in c + 1 .. end
             /\ log[k] \in TaskItems \cup (Corrections \X Items)
             /\ log[k] \notin TaskItems => log[k] \in edges
             /\ Now(k) \in Nat
             /\ log[k] \in TaskItems => Now(k) = SeenOf(item[log[k]])
  <2>1. k \in scanned /\ k \in 1 .. Latest
    BY <1>3, <1>6
  <2>2. log[k] \in Items \cup edges /\ log[k] \notin Mirrored
    BY <1>3, <1>6, <2>1
  <2>3. log[k] \in TaskItems \/ log[k] \in edges
    BY <2>2 DEF TaskItems
  <2>4. ASSUME log[k] \in TaskItems
        PROVE  Now(k) = SeenOf(item[log[k]]) /\ Now(k) \in Nat
    <3>1. Now(k) = SeenOf(item[log[k]])
      BY <2>4, SeenIs
    <3>2. item[log[k]].rev \in Nat
      BY <1>7, <2>4 DEF GraphInvariant, TableKept, ItemTables, ItemRows
    <3> QED
      BY <3>1, <3>2 DEF SeenOf
  <2>5. log[k] \notin TaskItems => Now(k) \in Nat
    OBVIOUS
  <2> HIDE DEF Now
  <2> QED
    BY <1>3, <1>6, <2>1, <2>3, <2>4, <2>5
<1>9. ASSUME NEW n \in c + 1 .. end, log[n] \in TaskItems
      PROVE  n \in last \/ \E k \in n + 1 .. Latest : log[k] = log[n]
  <2>1. n \in scanned
    BY <1>3, <1>4, <1>5, <1>7, <1>9
  <2>2. ASSUME NEW k \in scanned, k > n, log[k] = log[n]
        PROVE  \E x \in n + 1 .. Latest : log[x] = log[n]
    <3>1. k \in n + 1 .. Latest
      BY <1>3, <1>6, <2>2
    <3> QED
      BY <2>2, <3>1
  <2> QED
    BY <2>1, <2>2
<1> HIDE DEF last, Now
<1>10. DOMAIN rows = last /\ \A k \in last : rows[k] = [what |-> log[k], now |-> Now(k)]
  OBVIOUS
<1> HIDE DEF rows
<1> QED
  BY <1>2, <1>3, <1>4, <1>8, <1>9, <1>10

LEMMA PositionIsGood ==
  ASSUME GraphInvariant, NEW c \in 0 .. Latest, NEW m \in c .. (Changes(c).cursor - 1),
         NEW h, GoodTo(item, log, edges, h, m)
  PROVE  LET next == Position(h, Changes(c).rows, m + 1)
         IN  GoodTo(item, log, edges, next, m + 1) /\ next.cursor = h.cursor
<1> DEFINE answer == Changes(c)
           n == m + 1
           next == Position(h, answer.rows, n)
<1>1. /\ Latest \in Nat /\ answer.cursor \in c .. Latest
      /\ n \in c + 1 .. answer.cursor /\ n \in Nat /\ Latest = Len(log)
  BY AnswerIs DEF Latest
<1>2. /\ h \in HeldRows /\ h.lines \subseteq edges
      /\ \A i \in TaskItems :
           /\ h.shown[i] <= item[i].rev
           /\ h.shown[i] = SeenOf(item[i]) \/ \E k \in n .. Latest : log[k] = i
  BY DEF GoodTo, Shows, Latest
<1>3. \A i \in TaskItems : item[i].rev \in Nat /\ h.shown[i] \in Nat
  BY <1>2 DEF TaskItems, HeldRows, GraphInvariant, TableKept, ItemTables, ItemRows
<1>4. ASSUME NEW i \in TaskItems, i # log[n],
             NEW k \in n .. Latest, log[k] = i
      PROVE  \E x \in n + 1 .. Latest : log[x] = i
  <2>1. k # n /\ k \in n + 1 .. Latest
    BY <1>1, <1>4
  <2> QED
    BY <1>4, <2>1
<1>5. ASSUME NEW t, t \in HeldRows, t.lines \subseteq edges,
             \A i \in TaskItems :
               \/ i # log[n] /\ t.shown[i] = h.shown[i]
               \/ /\ t.shown[i] <= item[i].rev
                  /\ t.shown[i] = SeenOf(item[i]) \/ \E k \in n + 1 .. Latest : log[k] = i
      PROVE  GoodTo(item, log, edges, t, n)
  <2>1. ASSUME NEW i \in TaskItems
        PROVE  /\ t.shown[i] <= item[i].rev
               /\ t.shown[i] = SeenOf(item[i]) \/ \E k \in n + 1 .. Latest : log[k] = i
    <3>1. CASE i # log[n] /\ t.shown[i] = h.shown[i]
      BY <1>2, <1>4, <3>1
    <3> QED
      BY <1>5, <3>1
  <2> HIDE DEF n
  <2> QED
    BY <1>5, <2>1 DEF GoodTo, Shows, Latest
<1>6. CASE n \notin DOMAIN answer.rows
  <2>1. next = h
    BY <1>6 DEF Position
  <2>2. log[n] \in TaskItems => \E k \in n + 1 .. Latest : log[k] = log[n]
    BY <1>1, <1>6, AnswerIs
  <2> HIDE DEF n, next, answer
  <2>3. GoodTo(item, log, edges, h, n)
    BY <1>2, <1>5, <2>2
  <2> QED
    BY <2>1, <2>3 DEF n, next, answer
<1>7. CASE n \in DOMAIN answer.rows
  <2>1. PICK v \in Nat : /\ answer.rows[n] = [what |-> log[n], now |-> v]
                         /\ log[n] \in TaskItems => v = SeenOf(item[log[n]])
    BY <1>7, AnswerIs
  <2>2. /\ log[n] \in TaskItems \cup (Corrections \X Items)
        /\ log[n] \notin TaskItems => log[n] \in edges
    BY <1>7, AnswerIs
  <2>3. next = Taken(h, [what |-> log[n], now |-> v])
    BY <1>7, <2>1 DEF Position
  <2> HIDE DEF n, next, answer
  <2>4. CASE log[n] \in TaskItems
    <3> DEFINE i == log[n]
    <3>1. /\ next \in HeldRows /\ next.cursor = h.cursor /\ next.lines \subseteq h.lines
          /\ \A j \in TaskItems \ {i} : next.shown[j] = h.shown[j]
          /\ next.shown[i] = IF v > 0 THEN IF h.shown[i] >= v THEN h.shown[i] ELSE v ELSE 0
      BY <1>2, <2>3, <2>4, TakenItem
    <3>2. h.shown[i] <= item[i].rev /\ h.shown[i] \in Nat /\ item[i].rev \in Nat
          /\ v = SeenOf(item[i])
      BY <1>2, <1>3, <2>1, <2>4
    <3>3. v = 0 \/ v = item[i].rev
      BY <3>2 DEF SeenOf
    <3>4. next.shown[i] = v /\ next.shown[i] <= item[i].rev
      BY <3>1, <3>2, <3>3
    <3>5. next.lines \subseteq edges
      BY <1>2, <3>1
    <3>6. GoodTo(item, log, edges, next, n)
      BY <1>5, <3>1, <3>2, <3>4, <3>5
    <3> QED
      BY <3>1, <3>6 DEF n, next, answer
  <2>5. CASE log[n] \notin TaskItems
    <3>1. /\ next \in HeldRows /\ next.cursor = h.cursor /\ next.shown = h.shown
          /\ next.lines \subseteq h.lines \cup {log[n]}
      BY <1>2, <2>2, <2>3, <2>5, TakenLine
    <3>2. next.lines \subseteq edges
      BY <1>2, <2>2, <2>5, <3>1
    <3>3. GoodTo(item, log, edges, next, n)
      BY <1>5, <2>5, <3>1, <3>2
    <3> QED
      BY <3>1, <3>3 DEF n, next, answer
  <2> QED
    BY <2>4, <2>5
<1> QED
  BY <1>6, <1>7

(* A window that takes an answer in is right as far as the answer goes.    *)
LEMMA AppliedIsGood ==
  ASSUME GraphInvariant, NEW held, Good(item, log, edges, held)
  PROVE  Good(item, log, edges, Applied(held, Changes(held.cursor)))
<1> DEFINE c == held.cursor
           answer == Changes(c)
           end == answer.cursor
<1>1. /\ c \in 0 .. Latest /\ c \in Nat /\ GoodTo(item, log, edges, held, c)
      /\ Latest = Len(log) /\ Latest \in Nat
  BY DEF Good, Latest, GraphInvariant, GraphTyped
<1>2. end \in c .. Latest /\ end \in Nat /\ c <= end
  BY <1>1, AnswerIs
<1>3. PICK f : /\ IsFold(f, held, answer.rows, end)
               /\ Applied(held, answer) = Swept(f[end], end)
  BY <1>1, <1>2, AppliedIsFold
<1>4. \A n \in c .. end : f[n] = IF n = c THEN held ELSE Position(f[n - 1], answer.rows, n)
  BY <1>3, FoldIs
<1> DEFINE S == {n \in Nat : GoodTo(item, log, edges, f[n], n)}
<1>5. c \in S
  BY <1>1, <1>2, <1>4
<1>6. \A m \in c .. (end - 1) : m \in S => m + 1 \in S
  <2>1. SUFFICES ASSUME NEW m \in c .. (end - 1), GoodTo(item, log, edges, f[m], m)
                 PROVE  m + 1 \in S
    OBVIOUS
  <2>2. GoodTo(item, log, edges, Position(f[m], answer.rows, m + 1), m + 1)
    BY <1>1, <2>1, PositionIsGood
  <2>3. m + 1 \in c .. end /\ m + 1 # c /\ (m + 1) - 1 = m /\ m + 1 \in Nat
    BY <1>1, <1>2
  <2>4. f[m + 1] = Position(f[m], answer.rows, m + 1)
    BY <1>4, <2>3
  <2> QED
    BY <2>2, <2>3, <2>4
<1> HIDE DEF S
<1>7. end \in S
  <2> HIDE DEF end
  <2>1. c .. end \subseteq S
    BY <1>1, <1>2, <1>5, <1>6, Upwards
  <2> QED
    BY <1>1, <1>2, <2>1
<1>8. GoodTo(item, log, edges, f[end], end)
  BY <1>7 DEF S
<1> DEFINE last == f[end]
           kept == {e \in last.lines : last.shown[e[1]] > 0 /\ last.shown[e[2]] > 0}
           out == [last EXCEPT !.cursor = end, !.lines = kept]
<1>9. Applied(held, answer) = out
  BY <1>3 DEF Swept
<1>10. kept \subseteq last.lines
  OBVIOUS
<1>11. last \in HeldRows /\ last.lines \subseteq edges /\ Shows(item, log, last, end)
  BY <1>8 DEF GoodTo
<1> HIDE DEF kept, last, end
<1>12. out \in HeldRows /\ out.cursor = end /\ out.lines = kept /\ out.shown = last.shown
  BY <1>2, <1>10, <1>11 DEF HeldRows
<1> HIDE DEF out
<1>13. Shows(item, log, out, out.cursor)
  BY <1>11, <1>12 DEF Shows
<1>14. Good(item, log, edges, out)
  BY <1>1, <1>2, <1>10, <1>11, <1>12, <1>13 DEF Good, GoodTo
<1> QED
  BY <1>9, <1>14

LEMMA SnapshotIsGood ==
  ASSUME GraphInvariant
  PROVE  Good(item, log, edges, Snapshot)
<1>1. Snapshot = [shown |-> [i \in TaskItems |-> SeenOf(item[i])],
                  lines |-> {e \in edges : SeenLine(e)}, cursor |-> Latest]
  BY SeenIs DEF Snapshot
<1>2. /\ edges \subseteq Corrections \X Items /\ Latest \in Nat /\ Latest = Len(log)
      /\ \A i \in TaskItems : item[i].rev \in Nat
  BY DEF GraphInvariant, GraphTyped, TableKept, ItemTables, ItemRows, TaskItems, Latest
<1>3. \A i \in TaskItems : SeenOf(item[i]) \in Nat /\ SeenOf(item[i]) <= item[i].rev
  BY <1>2 DEF SeenOf
<1> DEFINE lines == {e \in edges : SeenLine(e)}
<1>4. lines \subseteq edges
  OBVIOUS
<1>5. /\ Snapshot.shown = [i \in TaskItems |-> SeenOf(item[i])]
      /\ Snapshot.lines = lines /\ Snapshot.cursor = Latest
  BY <1>1
<1>6. Snapshot = [shown |-> Snapshot.shown, lines |-> Snapshot.lines,
                  cursor |-> Snapshot.cursor]
  BY <1>1
<1> HIDE DEF lines
<1>7. Snapshot \in HeldRows
  BY <1>2, <1>3, <1>4, <1>5, <1>6 DEF HeldRows
<1>8. Shows(item, log, Snapshot, Snapshot.cursor)
  BY <1>3, <1>5 DEF Shows
<1> QED
  BY <1>2, <1>4, <1>5, <1>7, <1>8 DEF Good, GoodTo

(* Nothing is shown before anything is loaded, and all there is to show is in the log. *)
LEMMA EmptyIsGood ==
  ASSUME NEW rows \in ItemTables, NEW told \in Seq(Subjects), NEW lines,
         \A i \in Items : rows[i].rev > 0 => \E k \in DOMAIN told : told[k] = i
  PROVE  Good(rows, told, lines, Empty)
<1>1. /\ Empty.shown = [i \in TaskItems |-> 0] /\ Empty.lines = {} /\ Empty.cursor = 0
      /\ Empty \in HeldRows /\ Len(told) \in Nat /\ DOMAIN told = 1 .. Len(told)
  BY DEF Empty, HeldRows
<1>2. \A i \in TaskItems : i \in Items /\ rows[i].rev \in Nat
  BY DEF TaskItems, ItemTables, ItemRows
<1>3. ASSUME NEW i \in TaskItems
      PROVE  /\ Empty.shown[i] <= rows[i].rev
             /\ Empty.shown[i] = SeenOf(rows[i]) \/ \E k \in 0 + 1 .. Len(told) : told[k] = i
  <2>1. CASE rows[i].rev > 0
    BY <1>1, <1>2, <2>1
  <2>2. CASE ~(rows[i].rev > 0)
    BY <1>1, <1>2, <2>2 DEF SeenOf
  <2> QED
    BY <2>1, <2>2
<1>4. Shows(rows, told, Empty, Empty.cursor)
  BY <1>1, <1>3 DEF Shows
<1> QED
  BY <1>1, <1>4 DEF Good, GoodTo

(* What the graph writes after a window was right is in the log after it.  *)
LEMMA GoodStays ==
  ASSUME GraphInvariant, GraphMoves, NEW held, Good(item, log, edges, held)
  PROVE  Good(item', log', edges', held)
<1>1. LogGrew
  BY LogGrows
<1>2. /\ Len(log) \in Nat /\ Len(log') \in Nat /\ Len(log) <= Len(log')
      /\ \A k \in DOMAIN log : log'[k] = log[k]
      /\ \A i \in Items : item'[i] # item[i] => \E k \in Len(log) + 1 .. Len(log') : log'[k] = i
      /\ DOMAIN log = 1 .. Len(log)
  BY <1>1 DEF LogGrew, GraphInvariant, GraphTyped
<1>3. /\ held \in HeldRows /\ held.lines \subseteq edges /\ held.cursor \in 0 .. Len(log)
      /\ edges \subseteq edges' /\ Shows(item, log, held, held.cursor)
  BY DEF Good, GoodTo, GraphMoves
<1>4. ASSUME NEW i \in TaskItems
      PROVE  /\ held.shown[i] <= item'[i].rev
             /\ held.shown[i] = SeenOf(item'[i])
                \/ \E k \in held.cursor + 1 .. Len(log') : log'[k] = i
  <2>1. /\ i \in Items /\ item[i].rev \in Nat /\ item'[i].rev \in Nat /\ held.shown[i] \in Nat
        /\ held.shown[i] <= item[i].rev
        /\ item'[i] = item[i] \/ item'[i].rev > item[i].rev
    BY <1>3 DEF TaskItems, GraphInvariant, GraphMoves, TableKept, ItemTables, ItemRows,
                HeldRows, Shows, Forward
  <2>2. held.shown[i] <= item'[i].rev
    BY <2>1
  <2>3. CASE item'[i] # item[i]
    <3>1. PICK k \in Len(log) + 1 .. Len(log') : log'[k] = i
      BY <1>2, <2>1, <2>3
    <3>2. k \in held.cursor + 1 .. Len(log')
      BY <1>2, <1>3
    <3> QED
      BY <2>2, <3>1, <3>2
  <2>4. CASE item'[i] = item[i]
    <3>1. CASE held.shown[i] = SeenOf(item[i])
      BY <2>2, <2>4, <3>1
    <3>2. CASE held.shown[i] # SeenOf(item[i])
      <4>1. PICK k \in held.cursor + 1 .. Len(log) : log[k] = i
        BY <1>3, <3>2 DEF Shows
      <4>2. k \in DOMAIN log /\ k \in held.cursor + 1 .. Len(log')
        BY <1>2, <1>3
      <4> QED
        BY <1>2, <2>2, <4>1, <4>2
    <3> QED
      BY <3>1, <3>2
  <2> QED
    BY <2>3, <2>4
<1>5. Shows(item', log', held, held.cursor)
  BY <1>4 DEF Shows
<1>6. held.lines \subseteq edges' /\ held.cursor \in 0 .. Len(log')
  BY <1>2, <1>3
<1> QED
  BY <1>3, <1>5, <1>6 DEF Good, GoodTo

(***************************************************************************)
(* The panel.                                                              *)
(***************************************************************************)
GoodNow(held) == Good(item, log, edges, held)

LoadIsGood(l) ==
  l.at \in {"idle", "told", "over"} /\ (l.at = "told" => GoodNow(l.snapshot))

(* Catching up starts from what is right, and an answer on its way would     *)
(* leave it right however much later it is folded in.                      *)
DrainIsGood(d) ==
  /\ d.at \in {"idle", "asking", "told"} /\ d.state.cursor \in 0 .. Latest
  /\ d.at = "asking" => GoodNow(d.state)
  /\ d.at = "told" => GoodNow(Applied(d.state, d.answer))

FeedTyped ==
  /\ bells \subseteq 1 .. Latest
  /\ DOMAIN load = Reloads
  /\ drain = [at |-> drain.at, state |-> drain.state, answer |-> drain.answer]

FeedInvariant ==
  /\ GraphInvariant /\ FeedTyped
  /\ GoodNow(cache) /\ DrainIsGood(drain)
  /\ \A r \in Reloads : LoadIsGood(load[r])

LEMMA CursorsStay ==
  ASSUME NEW held, GoodNow(held)
  PROVE  held.cursor \in 0 .. Latest
BY DEF GoodNow, Good, Latest

LEMMA NothingUnderWay ==
  /\ NoDrain.at = "idle" /\ NoDrain.state = Empty /\ Empty.cursor = 0
  /\ NoLoad.at = "idle" /\ [NoLoad EXCEPT !.at = "over"].at = "over"
  /\ [at |-> "idle", state |-> Empty, answer |-> NoAnswer] = NoDrain
BY DEF NoDrain, NoLoad, Empty

LEMMA EmptyNow ==
  ASSUME GraphInvariant
  PROVE  GoodNow(Empty)
BY EmptyIsGood DEF GraphInvariant, TableKept, GraphTyped, Logged, GoodNow

LEMMA FeedInitially ==
  ASSUME FeedInit
  PROVE  FeedInvariant
<1>1. GraphInvariant
  BY GraphInit DEF FeedInit
<1>2. GoodNow(Empty) /\ Latest \in Nat
  BY <1>1, EmptyNow DEF GraphInvariant, GraphTyped, Latest
<1>3. bells = {} /\ cache = Empty /\ drain = NoDrain /\ load = [r \in Reloads |-> NoLoad]
  BY DEF FeedInit
<1>4. DrainIsGood(drain)
  BY <1>2, <1>3, NothingUnderWay DEF DrainIsGood
<1>5. \A r \in Reloads : LoadIsGood(load[r])
  BY <1>3, NothingUnderWay DEF LoadIsGood
<1>6. FeedTyped
  BY <1>3 DEF FeedTyped, NoDrain
<1> QED
  BY <1>1, <1>2, <1>3, <1>4, <1>5, <1>6 DEF FeedInvariant

LEMMA WriteKeeps ==
  ASSUME FeedInvariant, Write
  PROVE  FeedInvariant'
<1>1. GraphInvariant /\ GraphMoves /\ GraphInvariant' /\ LogGrew
  BY GraphStepsMove, GraphStep, LogGrows DEF FeedInvariant, Write
<1>2. /\ Latest \in Nat /\ Latest' \in Nat /\ Latest <= Latest' /\ (log' # log => Latest' > 0)
  <2>1. Len(log) \in Nat /\ Len(log') \in Nat /\ Len(log) <= Len(log')
    BY <1>1 DEF LogGrew
  <2>2. ASSUME Len(log') = 0 PROVE log' = log
    <3>1. log \in Seq(Subjects) /\ log' \in Seq(Subjects) /\ Len(log) = 0
      BY <1>1, <2>1, <2>2 DEF LogGrew, GraphInvariant, GraphTyped
    <3> QED
      BY <2>2, <3>1
  <2> QED
    BY <2>1, <2>2 DEF Latest
<1>3. \A h : Good(item, log, edges, h) => Good(item', log', edges', h)
  BY <1>1, GoodStays
<1>4. CASE app' = "down"
  <2>1. bells' = {} /\ cache' = Empty /\ drain' = NoDrain /\ load' = [r \in Reloads |-> NoLoad]
    BY <1>4 DEF Write
  <2>2. Good(item', log', edges', Empty)
    BY <1>1, EmptyIsGood DEF GraphInvariant, TableKept, GraphTyped, Logged
  <2>3. DrainIsGood(drain)' /\ FeedTyped'
    BY <1>2, <2>1, NothingUnderWay DEF DrainIsGood, FeedTyped
  <2>4. \A r \in Reloads : load'[r].at = "idle"
    BY <2>1, NothingUnderWay
  <2>5. \A r \in Reloads : LoadIsGood(load[r])'
    BY <2>4 DEF LoadIsGood
  <2> QED
    BY <1>1, <2>1, <2>2, <2>3, <2>5 DEF FeedInvariant, GoodNow
<1>5. CASE app' # "down"
  <2>1. /\ cache' = cache /\ drain' = drain /\ load' = load
        /\ bells' = bells \/ (log' # log /\ bells' = bells \cup {Latest'})
    BY <1>5 DEF Write, Latest
  <2>2. bells' \subseteq 1 .. Latest'
    <3>1. bells \subseteq 1 .. Latest
      BY DEF FeedInvariant, FeedTyped
    <3>2. \A n \in 1 .. Latest : n \in 1 .. Latest'
      BY <1>2
    <3>3. log' # log => Latest' \in 1 .. Latest'
      BY <1>2
    <3>4. ASSUME NEW n \in bells' PROVE n \in 1 .. Latest'
      <4>1. CASE n \in bells
        BY <3>1, <3>2, <4>1
      <4>2. CASE n \notin bells
        <5>1. log' # log /\ n = Latest'
          BY <2>1, <3>4, <4>2
        <5> QED
          BY <3>3, <5>1
      <4> QED
        BY <4>1, <4>2
    <3> QED
      BY <3>4
  <2>3. GoodNow(cache)'
    BY <1>3, <2>1 DEF FeedInvariant, GoodNow
  <2>4. DrainIsGood(drain)'
    <3>1. /\ drain.at \in {"idle", "asking", "told"} /\ drain.state.cursor \in 0 .. Latest
          /\ drain.at = "asking" => Good(item, log, edges, drain.state)
          /\ drain.at = "told" => Good(item, log, edges, Applied(drain.state, drain.answer))
      BY DEF FeedInvariant, DrainIsGood, GoodNow
    <3>2. drain.state.cursor \in 0 .. Latest'
      BY <1>2, <3>1
    <3>3. Applied(drain.state, drain.answer)' = Applied(drain.state, drain.answer)
      BY <2>1
    <3> QED
      BY <1>3, <2>1, <3>1, <3>2, <3>3 DEF DrainIsGood, GoodNow
  <2>5. \A r \in Reloads : LoadIsGood(load[r])'
    BY <1>3, <2>1 DEF FeedInvariant, LoadIsGood, GoodNow
  <2>6. FeedTyped'
    BY <2>1, <2>2 DEF FeedInvariant, FeedTyped
  <2> QED
    BY <1>1, <2>3, <2>4, <2>5, <2>6 DEF FeedInvariant
<1> QED
  BY <1>4, <1>5

(* The window's own steps leave the graph as it is.                        *)
PanelKept ==
  /\ FeedTyped' /\ GoodNow(cache)' /\ DrainIsGood(drain)'
  /\ \A r \in Reloads : LoadIsGood(load[r])'

LEMMA GoodAsItIs ==
  ASSUME UNCHANGED vars
  PROVE  /\ item' = item /\ log' = log /\ edges' = edges /\ Latest' = Latest
         /\ \A h : Good(item', log', edges', h) <=> GoodNow(h)
BY DEF vars, Latest, GoodNow

LEMMA HearKeeps ==
  ASSUME FeedInvariant, NEW n, Hear(n)
  PROVE  PanelKept
<1>1. UNCHANGED vars /\ cache' = cache /\ load' = load /\ bells' = bells \ {n}
  BY DEF Hear
<1>2. /\ GoodNow(cache) /\ DrainIsGood(drain) /\ FeedTyped
      /\ \A r \in Reloads : LoadIsGood(load[r])
  BY DEF FeedInvariant
<1>3. /\ item' = item /\ log' = log /\ edges' = edges /\ Latest' = Latest
  BY <1>1, GoodAsItIs
<1>4. cache.cursor \in 0 .. Latest
  BY <1>2, CursorsStay
<1>5. CASE drain' = drain
  <2>1. DrainIsGood(drain)' /\ GoodNow(cache)' /\ FeedTyped'
    BY <1>1, <1>2, <1>3, <1>5 DEF DrainIsGood, GoodNow, FeedTyped
  <2>2. \A r \in Reloads : LoadIsGood(load[r])'
    BY <1>1, <1>2, <1>3 DEF LoadIsGood, GoodNow
  <2> QED
    BY <2>1, <2>2 DEF PanelKept
<1>6. CASE drain' = [NoDrain EXCEPT !.at = "asking", !.state = cache]
  <2>1. /\ drain'.at = "asking" /\ drain'.state = cache
        /\ drain' = [at |-> drain'.at, state |-> drain'.state, answer |-> drain'.answer]
    BY <1>6 DEF NoDrain
  <2>2. DrainIsGood(drain)' /\ GoodNow(cache)' /\ FeedTyped'
    BY <1>1, <1>2, <1>3, <1>4, <2>1 DEF DrainIsGood, GoodNow, FeedTyped
  <2>3. \A r \in Reloads : LoadIsGood(load[r])'
    BY <1>1, <1>2, <1>3 DEF LoadIsGood, GoodNow
  <2> QED
    BY <2>2, <2>3 DEF PanelKept
<1> QED
  BY <1>5, <1>6 DEF Hear

LEMMA AnswerKeeps ==
  ASSUME FeedInvariant, Answer
  PROVE  PanelKept
<1>1. UNCHANGED vars /\ cache' = cache /\ load' = load /\ bells' = bells
  BY DEF Answer
<1>2. /\ GoodNow(cache) /\ DrainIsGood(drain) /\ FeedTyped /\ drain.at = "asking"
      /\ \A r \in Reloads : LoadIsGood(load[r])
  BY DEF FeedInvariant, Answer
<1>3. /\ item' = item /\ log' = log /\ edges' = edges /\ Latest' = Latest
  BY <1>1, GoodAsItIs
<1> DEFINE answer == Changes(drain.state.cursor)
<1>4. drain' = [drain EXCEPT !.at = "told", !.answer = answer]
  BY DEF Answer
<1>5. GoodNow(Applied(drain.state, answer))
  BY <1>2, AppliedIsGood DEF DrainIsGood, GoodNow, FeedInvariant
<1> HIDE DEF answer
<1>6. /\ drain'.at = "told" /\ drain'.state = drain.state /\ drain'.answer = answer
      /\ drain' = [at |-> drain'.at, state |-> drain'.state, answer |-> drain'.answer]
  BY <1>2, <1>4 DEF FeedTyped
<1>7. Good(item', log', edges', Applied(drain'.state, drain'.answer))
  BY <1>3, <1>5, <1>6 DEF GoodNow
<1>8. DrainIsGood(drain)'
  BY <1>2, <1>3, <1>6, <1>7 DEF DrainIsGood, GoodNow
<1>9. GoodNow(cache)' /\ FeedTyped'
  BY <1>1, <1>2, <1>3, <1>6 DEF GoodNow, FeedTyped
<1>10. \A r \in Reloads : LoadIsGood(load[r])'
  BY <1>1, <1>2, <1>3 DEF LoadIsGood, GoodNow
<1> QED
  BY <1>8, <1>9, <1>10 DEF PanelKept

LEMMA FoldKeeps ==
  ASSUME FeedInvariant, Fold
  PROVE  PanelKept
<1> DEFINE folded == Applied(drain.state, drain.answer)
<1>1. UNCHANGED vars /\ load' = load /\ bells' = bells
  BY DEF Fold
<1>2. /\ GoodNow(cache) /\ DrainIsGood(drain) /\ FeedTyped /\ drain.at = "told"
      /\ \A r \in Reloads : LoadIsGood(load[r])
  BY DEF FeedInvariant, Fold
<1>3. /\ item' = item /\ log' = log /\ edges' = edges /\ Latest' = Latest
  BY <1>1, GoodAsItIs
<1>4. \/ drain' = [NoDrain EXCEPT !.at = "asking", !.state = folded] /\ cache' = cache
      \/ drain' = NoDrain /\ cache' = folded
  BY DEF Fold
<1>5. GoodNow(folded)
  BY <1>2 DEF DrainIsGood
<1> HIDE DEF folded
<1>6. folded.cursor \in 0 .. Latest
  BY <1>5, CursorsStay
<1>7. \A r \in Reloads : LoadIsGood(load[r])'
  BY <1>1, <1>2, <1>3 DEF LoadIsGood, GoodNow
<1>8. GoodNow(cache)'
  BY <1>2, <1>3, <1>4, <1>5 DEF GoodNow
<1>9. CASE drain' = [NoDrain EXCEPT !.at = "asking", !.state = folded]
  <2>1. /\ drain'.at = "asking" /\ drain'.state = folded
        /\ drain' = [at |-> drain'.at, state |-> drain'.state, answer |-> drain'.answer]
    BY <1>9 DEF NoDrain
  <2>2. DrainIsGood(drain)' /\ FeedTyped'
    BY <1>1, <1>2, <1>3, <1>5, <1>6, <2>1 DEF DrainIsGood, GoodNow, FeedTyped
  <2> QED
    BY <1>7, <1>8, <2>2 DEF PanelKept
<1>10. CASE drain' = NoDrain
  <2>1. Latest \in Nat
    BY DEF FeedInvariant, GraphInvariant, GraphTyped, Latest
  <2>2. /\ drain'.at = "idle" /\ drain'.state.cursor = 0
        /\ drain' = [at |-> drain'.at, state |-> drain'.state, answer |-> drain'.answer]
    BY <1>10, NothingUnderWay
  <2>3. DrainIsGood(drain)' /\ FeedTyped'
    BY <1>1, <1>2, <1>3, <2>1, <2>2 DEF DrainIsGood, FeedTyped
  <2> QED
    BY <1>7, <1>8, <2>3 DEF PanelKept
<1> QED
  BY <1>4, <1>9, <1>10

LEMMA ReloadKeeps ==
  ASSUME FeedInvariant, NEW r \in Reloads, Reload(r) \/ Replace(r)
  PROVE  PanelKept
<1>1. UNCHANGED vars /\ drain' = drain /\ bells' = bells
  BY DEF Reload, Replace
<1>2. /\ GoodNow(cache) /\ DrainIsGood(drain) /\ FeedTyped
      /\ \A q \in Reloads : LoadIsGood(load[q])
  BY DEF FeedInvariant
<1>3. /\ item' = item /\ log' = log /\ edges' = edges /\ Latest' = Latest
  BY <1>1, GoodAsItIs
<1>4. DrainIsGood(drain)'
  BY <1>1, <1>2, <1>3 DEF DrainIsGood, GoodNow
<1>5. ASSUME NEW l, load' = [load EXCEPT ![r] = l], LoadIsGood(l), GoodNow(cache')
      PROVE  PanelKept
  <2>1. DOMAIN load' = Reloads /\ \A q \in Reloads : load'[q] = IF q = r THEN l ELSE load[q]
    BY <1>2, <1>5 DEF FeedTyped
  <2>2. \A q \in Reloads : load'[q].at \in {"idle", "told", "over"}
                          /\ (load'[q].at = "told" => GoodNow(load'[q].snapshot))
    BY <1>2, <1>5, <2>1 DEF LoadIsGood
  <2>3. \A q \in Reloads : LoadIsGood(load[q])'
    BY <1>3, <2>2 DEF LoadIsGood, GoodNow
  <2>4. FeedTyped'
    BY <1>1, <1>2, <1>3, <2>1 DEF FeedTyped
  <2>5. GoodNow(cache)'
    BY <1>3, <1>5 DEF GoodNow
  <2> QED
    BY <1>4, <2>3, <2>4, <2>5 DEF PanelKept
<1>6. CASE Reload(r)
  <2> DEFINE l == [at |-> "told", snapshot |-> Snapshot]
  <2>1. load' = [load EXCEPT ![r] = l] /\ cache' = cache
    BY <1>6 DEF Reload
  <2>2. LoadIsGood(l)
    BY SnapshotIsGood DEF FeedInvariant, LoadIsGood, GoodNow
  <2> HIDE DEF l
  <2> QED
    BY <1>2, <1>5, <2>1, <2>2
<1>7. CASE Replace(r)
  <2> DEFINE l == [NoLoad EXCEPT !.at = "over"]
  <2>1. load' = [load EXCEPT ![r] = l] /\ cache' = load[r].snapshot /\ load[r].at = "told"
    BY <1>7 DEF Replace
  <2>2. LoadIsGood(l)
    BY NothingUnderWay DEF LoadIsGood
  <2>3. GoodNow(cache')
    BY <1>2, <2>1 DEF LoadIsGood
  <2> HIDE DEF l
  <2> QED
    BY <1>5, <2>1, <2>2, <2>3
<1> QED
  BY <1>6, <1>7

LEMMA PanelStepKeeps ==
  ASSUME FeedInvariant, PanelKept, UNCHANGED vars
  PROVE  FeedInvariant'
<1>1. GraphInvariant'
  BY GraphStill DEF FeedInvariant
<1> QED
  BY <1>1 DEF FeedInvariant, PanelKept

LEMMA FeedStepKeeps ==
  ASSUME FeedInvariant, [FeedNext]_allVars
  PROVE  FeedInvariant'
<1>1. CASE Write
  BY <1>1, WriteKeeps
<1>2. ASSUME NEW n \in bells, Hear(n) PROVE FeedInvariant'
  BY <1>2, HearKeeps, PanelStepKeeps DEF Hear
<1>3. CASE Answer
  BY <1>3, AnswerKeeps, PanelStepKeeps DEF Answer
<1>4. CASE Fold
  BY <1>4, FoldKeeps, PanelStepKeeps DEF Fold
<1>5. ASSUME NEW r \in Reloads, Reload(r) \/ Replace(r) PROVE FeedInvariant'
  BY <1>5, ReloadKeeps, PanelStepKeeps DEF Reload, Replace
<1>6. CASE UNCHANGED allVars
  <2>1. UNCHANGED vars /\ UNCHANGED feedVars
    BY <1>6 DEF allVars
  <2>2. /\ bells' = bells /\ cache' = cache /\ drain' = drain /\ load' = load
        /\ item' = item /\ log' = log /\ edges' = edges /\ Latest' = Latest
    BY <2>1, GoodAsItIs DEF feedVars
  <2>3. PanelKept
    BY <2>2 DEF FeedInvariant, PanelKept, FeedTyped, GoodNow, DrainIsGood, LoadIsGood
  <2> QED
    BY <2>1, <2>3, PanelStepKeeps
<1> QED
  BY <1>1, <1>2, <1>3, <1>4, <1>5, <1>6 DEF FeedNext

LEMMA FeedIsKept == FeedSpec => []FeedInvariant
BY FeedInitially, FeedStepKeeps, PTL DEF FeedSpec

(* The rows, the windows and the feed are of their types, and the window     *)
(* never draws a line the graph has not, nor stands beyond the log.        *)
THEOREM FeedTypeCorrect == FeedSpec => []FeedTypeOK
<1>1. FeedInvariant => FeedTypeOK
  <2> SUFFICES ASSUME FeedInvariant PROVE FeedTypeOK
    OBVIOUS
  <2>1. TypeOK
    <3>1. /\ TableKept(item) /\ GraphTyped
      BY DEF FeedInvariant, GraphInvariant
    <3>2. ASSUME NEW i \in Items
          PROVE  /\ item[i].rev \in Nat
                 /\ item[i].status \in Statuses
                 /\ item[i].text \in Texts \cup {Gone}
                 /\ item[i].pins \subseteq (Claims \X Nat)
                 /\ item[i].revoked \subseteq Readers
                 /\ (item[i].rev = 0) <=> (item[i].status = "none")
      BY <3>1 DEF TableKept, RevTells, ItemTables, ItemRows
    <3>3. /\ edges \subseteq (Corrections \X Items)
          /\ \A k \in DOMAIN log : log[k] \in Items \cup edges
          /\ legacy \in [Mirrored -> Texts \cup {Gone}]
          /\ \A a \in Attempts : worker[a].at \in {"idle", "working", "over"}
          /\ \A p \in Readers : window[p].at \in {"idle", "looking", "asking"}
          /\ app \in {"up", "down", "mirroring"}
      BY <3>1 DEF GraphTyped
    <3> QED
      BY <3>2, <3>3 DEF TypeOK
  <2>2. cache.cursor \in 0 .. Latest /\ cache.lines \subseteq edges
    BY DEF FeedInvariant, GoodNow, Good, GoodTo, Latest
  <2>3. /\ drain.at \in {"idle", "asking", "told"} /\ drain.state.cursor \in 0 .. Latest
        /\ bells \subseteq 1 .. Latest
        /\ \A r \in Reloads : load[r].at \in {"idle", "told", "over"}
    BY DEF FeedInvariant, FeedTyped, DrainIsGood, LoadIsGood
  <2> QED
    BY <2>1, <2>2, <2>3 DEF FeedTypeOK
<1> QED
  BY <1>1, FeedIsKept, PTL

(* Whatever answers, bells and refreshes brought the window where it is,     *)
(* what it shows wrongly is told of after its cursor: no change is passed   *)
(* over (changes_since of runtime_store.rs, applyBatch of memoryFeed.ts).   *)
THEOREM NoChangeIsPassedOver == FeedSpec => []NothingIsMissed
<1>1. FeedInvariant => NothingIsMissed
  BY SeenIs DEF FeedInvariant, GoodNow, Good, GoodTo, Shows, NothingIsMissed, Latest
<1> QED
  BY <1>1, FeedIsKept, PTL

-----------------------------------------------------------------------------
(* The outbox.                                                             *)

USE WritesAssumption

\* A pass that has handed a row over finds it recorded when it marks it.
HandedOverIsRecorded ==
  \A t \in Passes, n \in DOMAIN outbox :
    pass[t].at = "mark" /\ IsNext(t, n) => recorded[outbox[n]] = 1

\* A pass that will see the row, or has it before it.
OnItsWay(c) ==
  \E t \in Passes : pass[t].at = "list" \/ \E n \in pass[t].todo : outbox[n] = c

\* While the program runs, a row nobody has tried yet is on its way.
NoneForgotten ==
  process # "down" => \A c \in Committed : c \in sent \cup tried \/ OnItsWay(c)

OutboxInvariant ==
  OutboxTypeOK /\ RecordedOnce /\ MarkedIsRecorded /\ HandedOverIsRecorded /\ NoneForgotten

LEMMA OutboxInitially == OutboxInit => OutboxInvariant
BY DEF OutboxInit, OutboxInvariant, OutboxTypeOK, Passes, Idle, Committed, RecordedOnce, MarkedIsRecorded,
       HandedOverIsRecorded, NoneForgotten

-----------------------------------------------------------------------------
(* One lemma per action.                                                   *)

\* A write that is no publication, or one that is there already.
LEMMA CommitKeeps ==
  ASSUME OutboxInvariant, NEW t \in Threads, Commit(t)
  PROVE  OutboxInvariant'
<1>0. t \in Passes
  BY DEF Passes
<1>1. process = "up" /\ process' = process /\ UNCHANGED <<sent, tried, recorded, failures, crashes>>
  BY DEF Commit
<1>2. CASE Writes[t] # Other /\ AlreadyApplied(Writes[t])
  <2>1. UNCHANGED <<outbox, pass>> /\ done' = done \cup {t}
    BY <1>2 DEF Commit
  <2>. QED  BY <1>1, <2>1 DEF OutboxInvariant, OutboxTypeOK, RecordedOnce, MarkedIsRecorded,
                  HandedOverIsRecorded, NoneForgotten, OnItsWay, Committed, IsNext
<1>3. CASE Writes[t] = Other
  <2>1. /\ UNCHANGED outbox /\ done' = done \cup {t}
        /\ pass' = [pass EXCEPT ![t] = [at |-> "list", todo |-> {}]]
    BY <1>3 DEF Commit, Announces
  <2>2. OutboxTypeOK'
    BY <1>0, <1>1, <2>1 DEF OutboxInvariant, OutboxTypeOK, Committed
  <2>3. HandedOverIsRecorded'
    BY <1>0, <1>1, <2>1 DEF OutboxInvariant, OutboxTypeOK, HandedOverIsRecorded, IsNext
  <2>4. NoneForgotten'
    <3>1. pass'[t].at = "list"
      BY <1>0, <2>1 DEF OutboxInvariant, OutboxTypeOK
    <3>. QED  BY <1>0, <3>1 DEF NoneForgotten, OnItsWay
  <2>5. RecordedOnce' /\ MarkedIsRecorded'
    BY <1>1, <2>1 DEF OutboxInvariant, RecordedOnce, MarkedIsRecorded, Committed
  <2>. QED  BY <2>2, <2>3, <2>4, <2>5 DEF OutboxInvariant
<1>4. CASE Writes[t] # Other /\ ~AlreadyApplied(Writes[t])
  <2> DEFINE c == Writes[t]
  <2>1. /\ outbox' = Append(outbox, c) /\ done' = done \cup {t}
        /\ pass' = [pass EXCEPT ![t] = [at |-> "list", todo |-> {}]]
    BY <1>4 DEF Commit, Announces
  <2>2. c \in Publications /\ c \notin Committed
    BY <1>4 DEF AlreadyApplied
  <2>3. /\ DOMAIN outbox \subseteq DOMAIN outbox'
        /\ \A n \in DOMAIN outbox' :
             IF n \in DOMAIN outbox THEN outbox'[n] = outbox[n] ELSE outbox'[n] = c
        /\ \A m, n \in DOMAIN outbox' \ DOMAIN outbox : m = n
        /\ outbox' \in Seq(Publications)
    BY <2>1, <2>2 DEF OutboxInvariant, OutboxTypeOK
  <2>4. Committed \subseteq Committed'
    BY <2>3 DEF Committed
  <2>5. OutboxTypeOK'
    <3>1. \A m, n \in DOMAIN outbox' : outbox'[m] = outbox'[n] => m = n
      <4> SUFFICES ASSUME NEW m \in DOMAIN outbox', NEW n \in DOMAIN outbox',
                          outbox'[m] = outbox'[n]
                   PROVE  m = n
        OBVIOUS
      <4>1. \A k \in DOMAIN outbox : outbox'[k] = outbox[k] /\ outbox'[k] # c
        BY <2>2, <2>3 DEF Committed
      <4>2. CASE m \in DOMAIN outbox /\ n \in DOMAIN outbox
        BY <4>1, <4>2 DEF OutboxInvariant, OutboxTypeOK
      <4>3. CASE m \notin DOMAIN outbox /\ n \notin DOMAIN outbox
        BY <2>3, <4>3
      <4>. QED  BY <2>3, <4>1, <4>2, <4>3
    <3>2. /\ pass' \in [Passes -> [at : {"idle", "list", "deliver", "mark", "note"},
                                   todo : SUBSET DOMAIN outbox']]
          /\ \A u \in Passes : (pass'[u].at \in {"deliver", "mark", "note"}) <=> (pass'[u].todo # {})
      BY <1>0, <2>1, <2>3 DEF OutboxInvariant, OutboxTypeOK
    <3>. QED  BY <1>1, <2>1, <2>3, <2>4, <3>1, <3>2 DEF OutboxInvariant, OutboxTypeOK
  <2>6. HandedOverIsRecorded'
    <3> SUFFICES ASSUME NEW u \in Passes, NEW n \in DOMAIN outbox',
                        pass'[u].at = "mark", IsNext(u, n)'
                 PROVE  recorded'[outbox'[n]] = 1
      BY DEF HandedOverIsRecorded
    <3>1. u # t /\ pass'[u] = pass[u]
      BY <1>0, <2>1 DEF OutboxInvariant, OutboxTypeOK
    <3>2. n \in DOMAIN outbox /\ IsNext(u, n)
      BY <3>1 DEF OutboxInvariant, OutboxTypeOK, IsNext
    <3>. QED  BY <1>1, <2>3, <3>1, <3>2 DEF OutboxInvariant, HandedOverIsRecorded
  <2>7. NoneForgotten'
    <3>1. pass'[t].at = "list"
      BY <1>0, <2>1 DEF OutboxInvariant, OutboxTypeOK
    <3>. QED  BY <1>0, <3>1 DEF NoneForgotten, OnItsWay
  <2>8. RecordedOnce' /\ MarkedIsRecorded'
    BY <1>1, <2>4 DEF OutboxInvariant, RecordedOnce, MarkedIsRecorded
  <2>. QED  BY <2>5, <2>6, <2>7, <2>8 DEF OutboxInvariant
<1>. QED  BY <1>2, <1>3, <1>4

\* What is listed is every row nobody has marked.
LEMMA ListKeeps ==
  ASSUME OutboxInvariant, NEW t \in Passes, List(t)
  PROVE  OutboxInvariant'
<1> DEFINE pending == {n \in DOMAIN outbox : outbox[n] \notin sent}
<1>1. /\ pass' = [pass EXCEPT ![t] =
           IF pending = {} THEN Idle ELSE [at |-> "deliver", todo |-> pending]]
      /\ UNCHANGED <<outbox, sent, tried, recorded, done, process, failures, crashes>>
  BY DEF List
<1>2. pass'[t] = IF pending = {} THEN Idle ELSE [at |-> "deliver", todo |-> pending]
  BY <1>1 DEF OutboxInvariant, OutboxTypeOK
<1>3. \A u \in Passes \ {t} : pass'[u] = pass[u]
  BY <1>1 DEF OutboxInvariant, OutboxTypeOK
<1>4. pass'[t].todo = pending /\ pass'[t].at \in {"idle", "deliver"}
  BY <1>2 DEF Idle
<1>5. OutboxTypeOK'
  BY <1>1, <1>2, <1>3 DEF OutboxInvariant, OutboxTypeOK, Idle, Committed
<1>6. HandedOverIsRecorded'
  BY <1>1, <1>3, <1>4 DEF OutboxInvariant, HandedOverIsRecorded, IsNext
<1>7. NoneForgotten'
  <2> SUFFICES ASSUME process # "down", NEW c \in Committed, c \notin sent \cup tried
               PROVE  OnItsWay(c)'
    BY <1>1 DEF NoneForgotten, Committed
  <2>1. PICK n \in DOMAIN outbox : outbox[n] = c
    BY DEF Committed
  <2>2. n \in pass'[t].todo /\ outbox'[n] = c
    BY <1>1, <1>4, <2>1
  <2>. QED  BY <2>2 DEF OnItsWay
<1>8. RecordedOnce' /\ MarkedIsRecorded'
  BY <1>1 DEF OutboxInvariant, RecordedOnce, MarkedIsRecorded, Committed
<1>. QED  BY <1>5, <1>6, <1>7, <1>8 DEF OutboxInvariant

LEMMA DeliverKeeps ==
  ASSUME OutboxInvariant, NEW t \in Passes, Deliver(t)
  PROVE  OutboxInvariant'
<1>1. PICK n \in DOMAIN outbox : IsNext(t, n) /\ AppendsOnce(outbox[n])
  BY DEF Deliver
<1>2. /\ pass[t].at = "deliver" /\ pass' = [pass EXCEPT ![t].at = "mark"]
      /\ UNCHANGED <<outbox, sent, tried, done, process, failures, crashes>>
  BY DEF Deliver
<1>3. /\ pass'[t].at = "mark" /\ \A u \in Passes : pass'[u].todo = pass[u].todo
      /\ \A u \in Passes \ {t} : pass'[u] = pass[u]
  BY <1>2 DEF OutboxInvariant, OutboxTypeOK
<1>4. outbox[n] \in Committed /\ outbox[n] \in Publications
  BY DEF OutboxInvariant, OutboxTypeOK, Committed
<1>5. /\ recorded'[outbox[n]] = 1
      /\ \A c \in Publications : c # outbox[n] => recorded'[c] = recorded[c]
  BY <1>1, <1>4 DEF OutboxInvariant, OutboxTypeOK, AppendsOnce, RecordedOnce
<1>6. OutboxTypeOK'
  <2>1. recorded' \in [Publications -> Nat]
    BY <1>1, <1>4 DEF OutboxInvariant, OutboxTypeOK, AppendsOnce
  <2>2. /\ pass \in [Passes -> [at : {"idle", "list", "deliver", "mark", "note"},
                                todo : SUBSET DOMAIN outbox]]
        /\ pass[t].todo # {}
    BY <1>2 DEF OutboxInvariant, OutboxTypeOK
  <2>3. pass' \in [Passes -> [at : {"idle", "list", "deliver", "mark", "note"},
                              todo : SUBSET DOMAIN outbox]]
    <3> DEFINE r == [at |-> "mark", todo |-> pass[t].todo]
    <3>1. pass[t] \in [at : {"idle", "list", "deliver", "mark", "note"}, todo : SUBSET DOMAIN outbox]
      BY <2>2
    <3>2. [pass[t] EXCEPT !.at = "mark"] = r
      BY <3>1
    <3>3. pass' = [pass EXCEPT ![t] = r]
      BY <1>2, <3>2, Zenon
    <3>4. r \in [at : {"idle", "list", "deliver", "mark", "note"}, todo : SUBSET DOMAIN outbox]
      BY <3>1
    <3>. QED  BY <2>2, <3>3, <3>4, Zenon
  <2>4. \A u \in Passes : (pass'[u].at \in {"deliver", "mark", "note"}) <=> (pass'[u].todo # {})
    <3> TAKE u \in Passes
    <3>1. CASE u = t
      BY <1>3, <2>2, <3>1
    <3>2. CASE u # t
      <4>1. pass'[u] = pass[u]
        BY <1>3, <3>2
      <4>. QED  BY <4>1 DEF OutboxInvariant, OutboxTypeOK
    <3>. QED  BY <3>1, <3>2
  <2>5. /\ outbox' = outbox /\ DOMAIN outbox' = DOMAIN outbox /\ Committed' = Committed
        /\ UNCHANGED <<sent, tried, done, process, failures, crashes>>
    BY <1>2 DEF Committed
  <2>6. /\ outbox' \in Seq(Publications) /\ done' \subseteq Threads
        /\ \A j, k \in DOMAIN outbox' : outbox'[j] = outbox'[k] => j = k
        /\ sent' \subseteq Committed' /\ tried' \subseteq Committed'
        /\ process' \in {"down", "draining", "up"}
        /\ failures' \in 0 .. MaxFailures /\ crashes' \in 0 .. MaxDeaths
    BY <2>5 DEF OutboxInvariant, OutboxTypeOK
  <2>7. pass' \in [Passes -> [at : {"idle", "list", "deliver", "mark", "note"},
                              todo : SUBSET DOMAIN outbox']]
    BY <2>3, <2>5
  <2>. QED  BY <2>1, <2>4, <2>6, <2>7 DEF OutboxTypeOK
<1>7. RecordedOnce' /\ MarkedIsRecorded'
  BY <1>2, <1>4, <1>5 DEF OutboxInvariant, OutboxTypeOK, RecordedOnce, MarkedIsRecorded, Committed
<1>8. HandedOverIsRecorded'
  <2> SUFFICES ASSUME NEW u \in Passes, NEW m \in DOMAIN outbox,
                      pass'[u].at = "mark", IsNext(u, m)'
               PROVE  recorded'[outbox[m]] = 1
    BY <1>2 DEF HandedOverIsRecorded
  <2>1. outbox[m] \in Publications /\ IsNext(u, m)
    BY <1>3 DEF OutboxInvariant, OutboxTypeOK, IsNext
  <2>2. CASE u = t
    <3>1. m = n
      BY <1>1, <2>1, <2>2 DEF OutboxInvariant, OutboxTypeOK, IsNext
    <3>. QED  BY <1>5, <3>1
  <2>3. CASE u # t
    BY <1>3, <1>5, <2>1, <2>3 DEF OutboxInvariant, HandedOverIsRecorded
  <2>. QED  BY <2>2, <2>3
<1>9. NoneForgotten'
  <2>1. \A c : OnItsWay(c) => OnItsWay(c)'
    BY <1>2, <1>3 DEF OnItsWay
  <2>. QED  BY <1>2, <2>1 DEF OutboxInvariant, NoneForgotten, Committed
<1>. QED  BY <1>6, <1>7, <1>8, <1>9 DEF OutboxInvariant

\* A pass is done with a row; the row was marked, or its delivery failed.
LEMMA OnwardsKeeps ==
  ASSUME OutboxInvariant, NEW t \in Passes, NEW n \in DOMAIN outbox, n \in pass[t].todo,
         Onwards(t, n), UNCHANGED <<outbox, recorded, done, process, crashes>>,
         sent \subseteq sent', sent' \subseteq sent \cup {outbox[n]},
         tried \subseteq tried', tried' \subseteq tried \cup {outbox[n]},
         outbox[n] \in sent' \cup tried',
         outbox[n] \in sent' => recorded[outbox[n]] = 1,
         failures' \in 0 .. MaxFailures
  PROVE  OutboxInvariant'
<1>1. pass'[t] = IF pass[t].todo = {n} THEN Idle
                 ELSE [at |-> "deliver", todo |-> pass[t].todo \ {n}]
  BY DEF Onwards, OutboxInvariant, OutboxTypeOK
<1>2. \A u \in Passes \ {t} : pass'[u] = pass[u]
  BY DEF Onwards, OutboxInvariant, OutboxTypeOK
<1>3. /\ pass'[t].todo = pass[t].todo \ {n} /\ pass'[t].at \in {"idle", "deliver"}
      /\ (pass'[t].at = "deliver") <=> (pass'[t].todo # {})
  BY <1>1 DEF Idle
<1>4. OutboxTypeOK'
  <2>1. pass' \in [Passes -> [at : {"idle", "list", "deliver", "mark", "note"},
                              todo : SUBSET DOMAIN outbox]]
    BY DEF Onwards, OutboxInvariant, OutboxTypeOK, Idle
  <2>2. \A u \in Passes : (pass'[u].at \in {"deliver", "mark", "note"}) <=> (pass'[u].todo # {})
    BY <1>2, <1>3 DEF OutboxInvariant, OutboxTypeOK
  <2>. QED  BY <2>1, <2>2 DEF OutboxInvariant, OutboxTypeOK, Committed
<1>5. HandedOverIsRecorded'
  BY <1>2, <1>3 DEF OutboxInvariant, HandedOverIsRecorded, IsNext
<1>6. NoneForgotten'
  <2> SUFFICES ASSUME process # "down", NEW c \in Committed, c \notin sent' \cup tried'
               PROVE  OnItsWay(c)'
    BY DEF NoneForgotten, Committed
  <2>1. c # outbox[n] /\ OnItsWay(c)
    BY DEF OutboxInvariant, NoneForgotten
  <2>2. PICK u \in Passes : pass[u].at = "list" \/ \E m \in pass[u].todo : outbox[m] = c
    BY <2>1 DEF OnItsWay
  <2>3. CASE u = t
    <3>1. pass[t].at # "list"
      BY DEF OutboxInvariant, OutboxTypeOK
    <3>2. PICK m \in pass[t].todo : outbox[m] = c
      BY <2>2, <2>3, <3>1
    <3>3. m \in pass'[t].todo
      BY <1>3, <2>1, <3>2
    <3>. QED  BY <3>2, <3>3 DEF OnItsWay
  <2>4. CASE u # t
    BY <1>2, <2>2, <2>4 DEF OnItsWay
  <2>. QED  BY <2>3, <2>4
<1>7. RecordedOnce' /\ MarkedIsRecorded'
  BY DEF OutboxInvariant, RecordedOnce, MarkedIsRecorded, Committed
<1>. QED  BY <1>4, <1>5, <1>6, <1>7 DEF OutboxInvariant

LEMMA DeliverFailsKeeps ==
  ASSUME OutboxInvariant, NEW t \in Passes, DeliverFails(t)
  PROVE  OutboxInvariant'
<1>1. /\ pass[t].at = "deliver" /\ pass' = [pass EXCEPT ![t].at = "note"]
      /\ failures' = failures + 1 /\ failures < MaxFailures
      /\ UNCHANGED <<outbox, sent, tried, recorded, done, process, crashes>>
  BY DEF DeliverFails
<1>2. /\ pass'[t].at = "note" /\ \A u \in Passes : pass'[u].todo = pass[u].todo
      /\ \A u \in Passes \ {t} : pass'[u] = pass[u]
  BY <1>1 DEF OutboxInvariant, OutboxTypeOK
<1>3. OutboxTypeOK'
  <2>1. pass' \in [Passes -> [at : {"idle", "list", "deliver", "mark", "note"},
                              todo : SUBSET DOMAIN outbox]]
    <3> DEFINE places == [at : {"idle", "list", "deliver", "mark", "note"},
                          todo : SUBSET DOMAIN outbox]
               r == [at |-> "note", todo |-> pass[t].todo]
    <3>1. pass \in [Passes -> places] /\ pass[t] \in places
      BY DEF OutboxInvariant, OutboxTypeOK
    <3>2. [pass[t] EXCEPT !.at = "note"] = r /\ r \in places
      BY <3>1
    <3>3. pass' = [pass EXCEPT ![t] = r]
      BY <1>1, <3>2, Zenon
    <3>. QED  BY <3>1, <3>2, <3>3, Zenon
  <2>2. \A u \in Passes : (pass'[u].at \in {"deliver", "mark", "note"}) <=> (pass'[u].todo # {})
    BY <1>1, <1>2 DEF OutboxInvariant, OutboxTypeOK
  <2>3. failures' \in 0 .. MaxFailures
    BY <1>1 DEF OutboxInvariant, OutboxTypeOK
  <2>4. outbox' = outbox /\ DOMAIN outbox' = DOMAIN outbox /\ Committed' = Committed
    BY <1>1 DEF Committed
  <2>5. pass' \in [Passes -> [at : {"idle", "list", "deliver", "mark", "note"},
                              todo : SUBSET DOMAIN outbox']]
    BY <2>1, <2>4
  <2>6. /\ outbox' \in Seq(Publications) /\ done' \subseteq Threads
        /\ \A j, k \in DOMAIN outbox' : outbox'[j] = outbox'[k] => j = k
        /\ sent' \subseteq Committed' /\ tried' \subseteq Committed'
        /\ recorded' \in [Publications -> Nat]
        /\ process' \in {"down", "draining", "up"} /\ crashes' \in 0 .. MaxDeaths
    BY <1>1, <2>4 DEF OutboxInvariant, OutboxTypeOK
  <2>. QED  BY <2>2, <2>3, <2>5, <2>6 DEF OutboxTypeOK
<1>4. HandedOverIsRecorded'
  <2> SUFFICES ASSUME NEW u \in Passes, NEW m \in DOMAIN outbox,
                      pass'[u].at = "mark", IsNext(u, m)'
               PROVE  recorded[outbox[m]] = 1
    BY <1>1 DEF HandedOverIsRecorded
  <2>1. u # t /\ pass'[u] = pass[u] /\ IsNext(u, m)
    BY <1>2 DEF IsNext
  <2>. QED  BY <2>1 DEF OutboxInvariant, HandedOverIsRecorded
<1>5. NoneForgotten'
  <2>1. \A c : OnItsWay(c) => OnItsWay(c)'
    BY <1>1, <1>2 DEF OnItsWay
  <2>. QED  BY <1>1, <2>1 DEF OutboxInvariant, NoneForgotten, Committed
<1>6. RecordedOnce' /\ MarkedIsRecorded'
  BY <1>1 DEF OutboxInvariant, RecordedOnce, MarkedIsRecorded, Committed
<1>. QED  BY <1>3, <1>4, <1>5, <1>6 DEF OutboxInvariant

LEMMA NoteFailureKeeps ==
  ASSUME OutboxInvariant, NEW t \in Passes, NoteFailure(t)
  PROVE  OutboxInvariant'
<1>1. PICK n \in DOMAIN outbox :
        IsNext(t, n) /\ tried' = tried \cup ({outbox[n]} \ sent) /\ Onwards(t, n)
  BY DEF NoteFailure
<1>2. UNCHANGED <<outbox, sent, recorded, done, process, failures, crashes>>
  BY DEF NoteFailure
<1>3. failures' \in 0 .. MaxFailures
  BY <1>2 DEF OutboxInvariant, OutboxTypeOK
<1>4. outbox[n] \in sent => recorded[outbox[n]] = 1
  BY DEF OutboxInvariant, MarkedIsRecorded
<1>. QED  BY <1>1, <1>2, <1>3, <1>4, OnwardsKeeps DEF IsNext

LEMMA MarkKeeps ==
  ASSUME OutboxInvariant, NEW t \in Passes, Mark(t)
  PROVE  OutboxInvariant'
<1>1. PICK n \in DOMAIN outbox :
        IsNext(t, n) /\ sent' = sent \cup {outbox[n]} /\ Onwards(t, n)
  BY DEF Mark
<1>2. /\ pass[t].at = "mark"
      /\ UNCHANGED <<outbox, tried, recorded, done, process, failures, crashes>>
  BY DEF Mark
<1>3. recorded[outbox[n]] = 1
  BY <1>1, <1>2 DEF OutboxInvariant, HandedOverIsRecorded
<1>4. failures' \in 0 .. MaxFailures
  BY <1>2 DEF OutboxInvariant, OutboxTypeOK
<1>. QED  BY <1>1, <1>2, <1>3, <1>4, OnwardsKeeps DEF IsNext

\* A death takes the passes; the start after it lists what they left.
LEMMA RestartKeeps ==
  ASSUME OutboxInvariant, Die \/ StartUp \/ Drained
  PROVE  OutboxInvariant'
<1>1. CASE Die
  <2>1. \A t \in Passes : pass'[t] = Idle
    BY <1>1 DEF Die
  <2>2. process' = "down" /\ UNCHANGED <<outbox, sent, tried, recorded, failures>>
    BY <1>1 DEF Die
  <2>3. OutboxTypeOK'
    BY <1>1 DEF Die, OutboxInvariant, OutboxTypeOK, Idle, Committed
  <2>. QED  BY <2>1, <2>2, <2>3 DEF OutboxInvariant, RecordedOnce, MarkedIsRecorded, Committed,
                  HandedOverIsRecorded, NoneForgotten, Idle
<1>2. CASE StartUp
  <2>1. /\ process' = "draining" /\ pass' = [pass EXCEPT !["start"] = [at |-> "list", todo |-> {}]]
        /\ UNCHANGED <<outbox, sent, tried, recorded, done, failures, crashes>>
    BY <1>2 DEF StartUp, StartsDraining, Announces
  <2>2. "start" \in Passes
    BY DEF Passes
  <2>3. /\ pass'["start"].at = "list"
        /\ \A u \in Passes \ {"start"} : pass'[u] = pass[u]
    BY <2>1, <2>2 DEF OutboxInvariant, OutboxTypeOK
  <2>4. OutboxTypeOK'
    BY <2>1, <2>2 DEF OutboxInvariant, OutboxTypeOK, Committed
  <2>5. HandedOverIsRecorded'
    BY <2>1, <2>3 DEF OutboxInvariant, HandedOverIsRecorded, IsNext
  <2>6. NoneForgotten'
    BY <2>2, <2>3 DEF NoneForgotten, OnItsWay
  <2>. QED  BY <2>1, <2>4, <2>5, <2>6 DEF OutboxInvariant, RecordedOnce, MarkedIsRecorded, Committed
<1>3. CASE Drained
  BY <1>3 DEF Drained, OutboxInvariant, OutboxTypeOK, RecordedOnce, MarkedIsRecorded, HandedOverIsRecorded,
     NoneForgotten, OnItsWay, Committed, IsNext
<1>. QED  BY <1>1, <1>2, <1>3

LEMMA OutboxStepKeeps == OutboxInvariant /\ [OutboxNext]_outboxVars => OutboxInvariant'
<1> SUFFICES ASSUME OutboxInvariant, [OutboxNext]_outboxVars PROVE OutboxInvariant'
  OBVIOUS
<1>1. ASSUME NEW t \in Passes, PassStep(t)
      PROVE  OutboxInvariant'
  BY <1>1, ListKeeps, DeliverKeeps, DeliverFailsKeeps, NoteFailureKeeps,
     MarkKeeps DEF PassStep
<1>2. CASE UNCHANGED outboxVars
  BY <1>2 DEF outboxVars, OutboxInvariant, OutboxTypeOK, RecordedOnce, MarkedIsRecorded, HandedOverIsRecorded,
     NoneForgotten, OnItsWay, Committed, IsNext
<1>. QED  BY <1>1, <1>2, CommitKeeps, RestartKeeps DEF OutboxNext

-----------------------------------------------------------------------------
\* The outbox and the task log tell of the same publications: none is recorded
\* twice or marked unrecorded, and once nothing is under way none was forgotten
\* (RecordMatchesOutbox), for any threads, failed deliveries and deaths.
THEOREM OutboxIsCarried == OutboxSpec => []RecordMatchesOutbox
<1>1. OutboxInvariant => RecordMatchesOutbox
  <2> SUFFICES ASSUME OutboxInvariant, process = "up", \A t \in Passes : pass[t].at = "idle",
                      NEW c \in Committed
               PROVE  c \in sent \cup tried
    BY DEF OutboxInvariant, RecordMatchesOutbox, QuietRowsWereTried
  <2>1. \A t \in Passes : pass[t].todo = {}
    BY DEF OutboxInvariant, OutboxTypeOK
  <2>2. ~OnItsWay(c)
    BY <2>1 DEF OnItsWay
  <2>. QED  BY <2>2 DEF OutboxInvariant, NoneForgotten
<1>. QED  BY <1>1, OutboxInitially, OutboxStepKeeps, PTL DEF OutboxSpec
=============================================================================
