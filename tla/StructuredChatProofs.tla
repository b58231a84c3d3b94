------------------------- MODULE StructuredChatProofs -------------------------
(***************************************************************************)
(* The timeline, for any approvals, mergers, provider files and number of  *)
(* restarts: a client whose messages were not overtaken holds the stored   *)
(* timeline when all have come, and the stored revision covers every       *)
(* change.                                                                 *)
(* The handlers, for any connections and pipelines: prompts come one at a  *)
(* time, and stopped readers are quiet (from PipelinesProofs).             *)
(* The transcript, for any number of lines, prompts and new files: a       *)
(* reader that has caught up has shown every line once, results are with   *)
(* their calls, and a prompt that is not echoed has one bubble.            *)
(***************************************************************************)
EXTENDS StructuredChat, DataInduction, SequencesExt, FiniteSetTheorems, TLAPS

\* One row per item id.
Unique(items) == \A i, j \in items : i.id = j.id => i = j

TimelineItems == {items \in SUBSET Items : Unique(items)}

\* A list that removes and upserts nothing is the stored one.
LEMMA NothingToTell ==
  ASSUME NEW old, Unique(old), NEW new,
         Removed(old, new) = {}, Upserted(old, new) = {}
  PROVE  new = old
BY DEF Removed, Upserted, Unique, Ids

\* What is left of the old list without the removed and the upserted ids,
\* together with the upserted items, is the new list.
LEMMA DiffApplies ==
  ASSUME NEW old, Unique(old), NEW new, Unique(new), NEW i
  PROVE  i \in new <=> \/ /\ i \in old /\ i.id \notin Removed(old, new)
                           /\ i.id \notin Ids(Upserted(old, new))
                        \/ i \in Upserted(old, new)
<1>1. ASSUME i \in old, i.id \notin Removed(old, new),
             i.id \notin Ids(Upserted(old, new))
      PROVE  i \in new
  <2>1. PICK j \in new : j.id = i.id
    BY <1>1 DEF Removed, Ids
  <2>2. j \in old
    BY <1>1, <2>1 DEF Upserted, Ids
  <2> QED
    BY <1>1, <2>1, <2>2 DEF Unique
<1>2. ASSUME i \in new, i \in old
      PROVE  /\ i.id \notin Removed(old, new)
             /\ i.id \notin Ids(Upserted(old, new))
  <2>1. i.id \notin Removed(old, new)
    BY <1>2 DEF Removed, Ids
  <2>2. ASSUME i.id \in Ids(Upserted(old, new)) PROVE FALSE
    <3>1. PICK u \in new \ old : u.id = i.id
      BY <2>2 DEF Ids, Upserted
    <3> QED
      BY <1>2, <3>1 DEF Unique
  <2> QED
    BY <2>1, <2>2
<1> QED
  BY <1>1, <1>2 DEF Upserted

LEMMA CurrentCovers ==
  ASSUME TypeOK
  PROVE  CurrentRevision \in Nat /\ CurrentRevision >= store.rev
BY DEF TypeOK, Timeline, CurrentRevision, Later

LEMMA ProviderItemsAre ==
  ASSUME NEW view \in ProviderViews, NEW items \in TimelineItems
  PROVE  ProviderItems(view) \union HostItems(items) \in TimelineItems
<1>1. \A i \in ProviderItems(view) :
        /\ i \in Items /\ i.id \in view /\ i = Item(i.id, "completed")
  BY DEF ProviderItems, Items, Item, Providers
<1>2. \A i \in HostItems(items) : i \in items /\ i.id \in Approvals
  BY DEF HostItems
<1>3. \A id \in view : id \notin Approvals
  BY PartitionAssumption
<1> DEFINE both == ProviderItems(view) \union HostItems(items)
<1>4. both \in SUBSET Items
  BY <1>1, <1>2 DEF TimelineItems
<1>5. Unique(both)
  <2> SUFFICES ASSUME NEW i \in both, NEW j \in both, i.id = j.id PROVE i = j
    BY DEF Unique
  <2>1. CASE i \in ProviderItems(view)
    <3>1. j \in ProviderItems(view)
      BY <1>1, <1>2, <1>3, <2>1
    <3> QED
      BY <1>1, <2>1, <3>1, Zenon
  <2>2. CASE i \in HostItems(items)
    <3>1. j \in HostItems(items)
      BY <1>1, <1>2, <1>3, <2>2
    <3> QED
      BY <1>2, <2>2, <3>1 DEF TimelineItems, Unique
  <2> QED
    BY <2>1, <2>2
<1> QED
  BY <1>4, <1>5 DEF TimelineItems

LEMMA UpsertIs ==
  ASSUME NEW items \in TimelineItems, NEW item \in Items
  PROVE  Upsert(items, item) \in TimelineItems
BY DEF TimelineItems, Unique, Upsert

LEMMA StoreIsTimeline ==
  ASSUME TypeOK PROVE store.items \in TimelineItems /\ store.rev \in Nat
BY DEF TypeOK, Timeline, TimelineItems, Unique


-----------------------------------------------------------------------------
(* A write, for the clients: the contents by revision.                     *)

Past == [Nat -> SUBSET Items]

\* What every revision held, after the write of `items` under `final`.
PastWith(past, items, final) ==
  [r \in Nat |-> IF r <= store.rev THEN past[r]
                 ELSE IF r <= CurrentRevision THEN store.items
                 ELSE IF r < final
                 THEN {i \in store.items :
                         i.id \notin Removed(store.items, items)}
                 ELSE items]

Diff(w, items) == DiffMessages(w, store.items, items, CurrentRevision)
Final(items) == FinalRevision(store.items, items, CurrentRevision)

\* A write that changes nothing sends nothing; another one numbers its one or
\* two messages beyond everything before, and takes the number of the last.
LEMMA DiffIs ==
  ASSUME TypeOK, NEW w, NEW items \in TimelineItems
  PROVE  /\ CurrentRevision \in Nat /\ CurrentRevision >= store.rev
         /\ Final(items) \in Nat /\ Final(items) >= CurrentRevision
         /\ items = store.items =>
              Diff(w, items) = {} /\ Final(items) = CurrentRevision
         /\ items # store.items => Final(items) > CurrentRevision
         /\ \A m \in Diff(w, items) :
              /\ m.rev \in CurrentRevision + 1..Final(items)
              /\ m.by = w /\ m.kind = "change"
         /\ \A m, o \in Diff(w, items) : m.rev = o.rev => m = o
         /\ \A r \in CurrentRevision + 1..Final(items) :
              \E m \in Diff(w, items) : m.rev = r
<1> DEFINE old == store.items
           cur == CurrentRevision
           remove == Removed(old, items)
           upsert == Upserted(old, items)
<1>1. cur \in Nat /\ cur >= store.rev /\ Unique(old)
  BY CurrentCovers, StoreIsTimeline DEF TimelineItems
<1>2. remove = {} /\ upsert = {} <=> items = old
  BY <1>1, NothingToTell DEF Removed, Upserted
<1>3. /\ RemoveRevision(old, items, cur) = cur + (IF remove = {} THEN 0 ELSE 1)
      /\ Final(items) = RemoveRevision(old, items, cur)
                          + (IF upsert = {} THEN 0 ELSE 1)
  BY DEF RemoveRevision, FinalRevision, Final
<1> DEFINE a == Message(w, "change", RemoveRevision(old, items, cur), remove, {})
           b == Message(w, "change", Final(items), {}, upsert)
<1>4. \A m : m \in Diff(w, items) <=>
               \/ m = a /\ remove # {}
               \/ m = b /\ upsert # {}
  <2>1. Diff(w, items) = {m \in {a, b} : m.remove \union m.upsert # {}}
    BY DEF Diff, DiffMessages, Final
  <2>2. a.remove \union a.upsert = remove /\ b.remove \union b.upsert = upsert
    BY DEF Message
  <2> QED BY <2>1, <2>2
<1>5. /\ a.rev = RemoveRevision(old, items, cur) /\ b.rev = Final(items)
      /\ a.by = w /\ b.by = w /\ a.kind = "change" /\ b.kind = "change"
  BY DEF Message
<1> HIDE DEF a, b, remove, upsert, cur, old
<1>6. Final(items) \in Nat /\ Final(items) >= cur
  BY <1>1, <1>3
<1>7. /\ items = old => Diff(w, items) = {} /\ Final(items) = cur
      /\ items # old => Final(items) > cur
  BY <1>1, <1>2, <1>3, <1>4
<1>8. \A m \in Diff(w, items) : m.rev \in cur + 1..Final(items)
                                /\ m.by = w /\ m.kind = "change"
  BY <1>1, <1>3, <1>4, <1>5
<1>9. \A m, o \in Diff(w, items) : m.rev = o.rev => m = o
  BY <1>1, <1>3, <1>4, <1>5
<1>10. \A r \in cur + 1..Final(items) : \E m \in Diff(w, items) : m.rev = r
  <2> SUFFICES ASSUME NEW r \in cur + 1..Final(items)
               PROVE  \E m \in Diff(w, items) : m.rev = r
    OBVIOUS
  <2>1. \/ remove # {} /\ r = RemoveRevision(old, items, cur)
        \/ upsert # {} /\ r = Final(items)
    BY <1>1, <1>3
  <2> QED BY <1>4, <1>5, <2>1
<1> QED BY <1>1, <1>6, <1>7, <1>8, <1>9, <1>10 DEF cur, old

\* The messages lead from one revision's content to the next one's.
LEMMA PastIs ==
  ASSUME TypeOK, NEW w, NEW items \in TimelineItems, items # store.items,
         NEW past \in Past, past[store.rev] = store.items,
         NEW next, next = PastWith(past, items, Final(items))
  PROVE  /\ next \in Past
         /\ \A r \in 0..store.rev : next[r] = past[r]
         /\ \A r \in store.rev..CurrentRevision : next[r] = store.items
         /\ next[Final(items)] = items
         /\ \A m \in Diff(w, items) : next[m.rev] = Patch(next[m.rev - 1], m)
<1> DEFINE old == store.items
           cur == CurrentRevision
           fin == Final(items)
           remove == Removed(old, items)
           upsert == Upserted(old, items)
           left == {i \in old : i.id \notin remove}
<1>1. /\ cur \in Nat /\ cur >= store.rev /\ store.rev \in Nat
      /\ fin \in Nat /\ fin > cur
      /\ Unique(old) /\ Unique(items) /\ old \in SUBSET Items
      /\ items \in SUBSET Items
  BY DiffIs, StoreIsTimeline DEF TimelineItems
<1>2. next = [r \in Nat |-> IF r <= store.rev THEN past[r]
                            ELSE IF r <= cur THEN old
                            ELSE IF r < fin THEN left ELSE items]
  BY DEF PastWith
<1>3. /\ fin = cur + (IF remove = {} THEN 0 ELSE 1)
                   + (IF upsert = {} THEN 0 ELSE 1)
      /\ RemoveRevision(old, items, cur) = cur + (IF remove = {} THEN 0 ELSE 1)
  BY DEF RemoveRevision, FinalRevision, Final
<1>4. \A i : i \in items <=> \/ /\ i \in old /\ i.id \notin remove
                                /\ i.id \notin Ids(upsert)
                             \/ i \in upsert
  BY <1>1, DiffApplies
<1>5. \A m \in Diff(w, items) :
        \/ /\ m.rev = RemoveRevision(old, items, cur)
           /\ m.remove = remove /\ m.upsert = {} /\ remove # {}
        \/ /\ m.rev = fin /\ m.remove = {} /\ m.upsert = upsert /\ upsert # {}
  BY DEF Diff, DiffMessages, Message, Final
<1>6. left \in SUBSET Items /\ Ids({}) = {}
  BY <1>1 DEF Ids
<1> HIDE DEF old, cur, fin, remove, upsert
<1>7. next \in Past
  BY <1>1, <1>2, <1>6 DEF Past
<1>8. next[cur] = old /\ next[fin] = items /\ (fin = cur + 2 => next[cur + 1] = left)
  BY <1>1, <1>2 DEF old
<1>9. ASSUME NEW m \in Diff(w, items)
      PROVE  next[m.rev] = Patch(next[m.rev - 1], m)
  <2>1. CASE /\ m.rev = RemoveRevision(old, items, cur)
             /\ m.remove = remove /\ m.upsert = {} /\ remove # {}
    <3>1. m.rev - 1 = cur /\ m.rev = cur + 1
      BY <1>1, <1>3, <2>1
    <3>2. next[m.rev] = left
      <4>1. CASE upsert = {}
        <5>1. items = left
          BY <1>4, <1>6, <4>1
        <5> QED BY <1>1, <1>3, <1>8, <2>1, <3>1, <4>1, <5>1
      <4>2. CASE upsert # {}
        BY <1>1, <1>3, <1>8, <2>1, <3>1, <4>2
      <4> QED BY <4>1, <4>2
    <3>3. Patch(old, m) = left
      BY <1>6, <2>1 DEF Patch
    <3> QED BY <1>8, <3>1, <3>2, <3>3
  <2>2. CASE /\ m.rev = fin /\ m.remove = {} /\ m.upsert = upsert
             /\ upsert # {}
    <3>1. next[m.rev - 1] = left
      <4>1. CASE remove = {}
        <5>1. left = old
          BY <4>1
        <5> QED BY <1>1, <1>3, <1>8, <2>2, <4>1, <5>1
      <4>2. CASE remove # {}
        BY <1>1, <1>3, <1>8, <2>2, <4>2
      <4> QED BY <4>1, <4>2
    <3>2. Patch(left, m) = items
      BY <1>4, <2>2 DEF Patch
    <3> QED BY <1>8, <2>2, <3>1, <3>2
  <2> QED BY <1>5, <2>1, <2>2
<1>10. /\ \A r \in 0..store.rev : next[r] = past[r]
       /\ \A r \in store.rev..cur : next[r] = old
  BY <1>1, <1>2 DEF old
<1> QED BY <1>7, <1>8, <1>9, <1>10 DEF fin, cur, old

LEMMA DiffTyped ==
  ASSUME TypeOK, NEW w \in Writers, NEW items \in TimelineItems
  PROVE  Diff(w, items) \subseteq Messages
<1>1. \A i \in Items : i.id \in Providers \union Approvals
  BY DEF Items, Item
<1>2. /\ Removed(store.items, items) \in SUBSET (Providers \union Approvals)
      /\ Upserted(store.items, items) \in SUBSET Items
  BY <1>1, StoreIsTimeline DEF TimelineItems, Removed, Upserted, Ids
<1>3. /\ CurrentRevision \in Nat
      /\ RemoveRevision(store.items, items, CurrentRevision) \in Nat
      /\ FinalRevision(store.items, items, CurrentRevision) \in Nat
  BY CurrentCovers DEF RemoveRevision, FinalRevision
<1> QED BY <1>2, <1>3 DEF Diff, DiffMessages, Message, Messages

-----------------------------------------------------------------------------
(* The inductive invariant.                                                *)

\* What a hook loaded is a timeline too: Replace would otherwise store two
\* rows of one item, and the messages would not rebuild them.
LoadsAreTimelines == \A a \in Approvals : Unique(hook[a].seen)

Changes == {m \in sending : m.kind = "change"}

\* No two changes share a revision, and none that is on its way has that of
\* the change the copy was given last.
Numbered ==
  /\ \A m \in Changes : m.rev \in 1..store.rev
  /\ \A m, o \in Changes : m.rev = o.rev => m = o
  /\ \A m \in Changes : m.rev <= held.snapshot \/ m.rev # held.change

\* A snapshot that holds revision r is on its way, or will be.
Due(r) ==
  \/ \E m \in Mergers :
       \/ batch[m].stage \in {"begun", "merged"}
       \/ batch[m].stage = "loaded" /\ batch[m].snapshot.rev >= r
  \/ \E o \in sending : o.kind = "snapshot" /\ o.rev >= r

NothingDue ==
  /\ \A m \in Mergers : batch[m].stage = "live"
  /\ \A o \in sending : o.kind = "change"

HeldBounds ==
  /\ held.snapshot <= held.change /\ held.change <= store.rev
  /\ NothingDue => held.change <= replica.rev

NothingYet == store.rev = 0 => store.items = {} /\ replica.items = {}

\* A reset or an empty snapshot is the beginning of a batch.
Opening ==
  \A o \in sending : o.kind \in {"reset", "opened"} =>
    o.by \in Mergers /\ batch[o.by].stage = "begun"

\* Where the change of revision r is, if there is one: on its way, missed, in
\* a snapshot to come, or in the copy.
Explained(r) ==
  (\E m \in Changes : m.rev = r) \/ r <= missed \/ Due(r) \/ r <= held.change

\* Every change is somewhere.
AllExplained(past) ==
  \A p, q \in 0..store.rev :
    p < q /\ past[p] # past[q] => \E r \in p + 1..q : Explained(r)

\* Nothing of what is on its way comes too late.
Clean ==
  /\ missed = 0 /\ NothingDue
  /\ \A m \in Changes : m.rev <= held.snapshot \/ m.rev > replica.rev

\* The stored timeline, the messages and the copy are of one history.
Account(past) ==
  /\ past[store.rev] = store.items
  /\ \A m \in Changes : past[m.rev] = Patch(past[m.rev - 1], m)
  /\ \A m \in Mergers : batch[m].stage = "loaded" =>
       /\ batch[m].snapshot.rev \in 1..store.rev
       /\ batch[m].snapshot.items = past[batch[m].snapshot.rev]
  /\ \A o \in sending : o.kind = "snapshot" =>
       o.rev \in 1..store.rev /\ o.upsert = past[o.rev]
  /\ AllExplained(past)
  /\ Clean => replica.items = past[held.change]

Delivery ==
  /\ Numbered /\ HeldBounds /\ NothingYet /\ Opening
  /\ \E past \in Past : Account(past)

TimelineInv == TypeOK /\ LoadsAreTimelines /\ Delivery

\* The part of the types that the deliveries need.
DeliveryTypes ==
  /\ store \in Timeline
  /\ batch \in [Mergers -> [stage : {"live", "begun", "merged", "loaded"},
                            snapshot : Timeline]]
  /\ sending \subseteq Messages
  /\ replica \in [rev : Nat, items : SUBSET Items]
  /\ held \in [snapshot : Nat, change : Nat]
  /\ missed \in Nat

LEMMA DeliveryTyped == ASSUME TypeOK PROVE DeliveryTypes /\ store.rev \in Nat
BY DEF TypeOK, DeliveryTypes, Timeline

LEMMA FollowsFromDelivery ==
  ASSUME TimelineInv
  PROVE  ReplicaFollowsStore
<1> SUFFICES ASSUME Quiet, missed = 0 PROVE replica.items = store.items
  BY DEF ReplicaFollowsStore
<1>1. DeliveryTypes /\ store.rev \in Nat
  BY DeliveryTyped DEF TimelineInv
<1>2. PICK past \in Past : Account(past)
  BY DEF TimelineInv, Delivery
<1>3. Clean /\ Changes = {} /\ \A r \in Nat \ {0} : ~Due(r)
  BY DEF Quiet, Clean, NothingDue, Changes, Due
<1>4. replica.items = past[held.change] /\ past[store.rev] = store.items
  BY <1>2, <1>3 DEF Account
<1>5. held.change \in 0..store.rev
  BY <1>1 DEF TimelineInv, Delivery, HeldBounds, DeliveryTypes
<1>6. ASSUME held.change < store.rev, past[held.change] # past[store.rev]
      PROVE  FALSE
  <2>1. PICK r \in held.change + 1..store.rev : Explained(r)
    BY <1>1, <1>2, <1>5, <1>6 DEF Account, AllExplained
  <2> QED BY <1>1, <1>3, <1>5, <2>1 DEF Explained
<1> QED BY <1>1, <1>4, <1>5, <1>6

\* The deliveries are about the store, the batches, the messages, the copy.
LEMMA DeliveryFrame ==
  ASSUME Delivery, UNCHANGED <<store, batch, sending, copyVars>>
  PROVE  Delivery'
BY DEF Delivery, Numbered, HeldBounds, NothingYet, Opening, Account,
       AllExplained, Explained, Due, NothingDue, Clean, Changes, copyVars

-----------------------------------------------------------------------------
(* The writes.                                                             *)

\* What a write does to the store.
LEMMA ReplaceIs ==
  ASSUME TypeOK, NEW items \in TimelineItems, Replace(items)
  PROVE  /\ cached' = Final(items) /\ cached' \in Nat /\ issued' \in Nat
         /\ store' = IF items = store.items THEN store
                     ELSE [rev |-> Final(items), items |-> items]
         /\ store' \in Timeline
         /\ store'.rev >= store.rev
         /\ store'.items # store.items => store'.rev > store.rev
<1>1. /\ CurrentRevision \in Nat /\ CurrentRevision >= store.rev
      /\ Final(items) \in Nat /\ store.rev \in Nat
      /\ items # store.items => Final(items) > CurrentRevision
  BY DiffIs, StoreIsTimeline
<1>2. /\ cached' = Final(items)
      /\ store' = IF items = store.items THEN store
                  ELSE [rev |-> Final(items), items |-> items]
      /\ issued' = IF items = store.items THEN issued
                   ELSE Later(issued, Final(items))
  BY DEF Replace, Final
<1>3. issued' \in Nat
  BY <1>1, <1>2 DEF Later, TypeOK
<1>4. store' \in Timeline
  BY <1>1, <1>2 DEF Timeline, TypeOK, TimelineItems, Unique
<1>5. items # store.items => store'.rev = Final(items)
  BY <1>2
<1> QED BY <1>1, <1>2, <1>3, <1>4, <1>5

\* A write whose messages are sent.
LEMMA AnnouncedWrite ==
  ASSUME TypeOK, Delivery, NEW w \in Writers, NEW items \in TimelineItems,
         Replace(items), Announce(w, items), UNCHANGED <<batch, copyVars>>
  PROVE  Delivery'
<1>1. /\ DeliveryTypes /\ store.rev \in Nat
      /\ CurrentRevision \in Nat /\ CurrentRevision >= store.rev
  BY DeliveryTyped, CurrentCovers
<1>2. /\ batch' = batch /\ replica' = replica /\ held' = held
      /\ missed' = missed /\ sending' = sending \union Diff(w, items)
  BY DEF copyVars, Announce, Diff
<1>3. PICK past \in Past : Account(past)
  BY DEF Delivery
<1>4. CASE items = store.items
  <2>1. store' = store /\ sending' = sending
    BY <1>2, <1>4, DiffIs, ReplaceIs
  <2> QED BY <1>2, <2>1, DeliveryFrame
<1>5. CASE items # store.items
  <2> DEFINE fin == Final(items)
             new == Diff(w, items)
  <2>1. /\ fin \in Nat /\ fin > CurrentRevision
        /\ \A m \in new : m.rev \in CurrentRevision + 1..fin
                          /\ m.kind = "change"
        /\ \A m, o \in new : m.rev = o.rev => m = o
        /\ \A r \in CurrentRevision + 1..fin : \E m \in new : m.rev = r
    BY <1>5, DiffIs
  <2>2. store'.rev = fin /\ store'.items = items
    BY <1>5, ReplaceIs
  <2>3. PICK next : next = PastWith(past, items, Final(items))
    OBVIOUS
  <2>4. /\ next \in Past
        /\ \A r \in 0..store.rev : next[r] = past[r]
        /\ \A r \in store.rev..CurrentRevision : next[r] = store.items
        /\ next[fin] = items
        /\ \A m \in new : next[m.rev] = Patch(next[m.rev - 1], m)
    BY <1>3, <1>5, <2>3, PastIs DEF Account
  <2> HIDE DEF fin, new
  <2>5. Changes' = Changes \union new
    BY <1>2, <2>1 DEF Changes, new
  <2>6. /\ \A r : Due(r) => Due(r)'
        /\ NothingDue' <=> NothingDue
        /\ \A o \in sending' : o.kind # "change" => o \in sending
    BY <1>2, <2>1 DEF Due, NothingDue, new
  <2>7. \A m \in Changes : m.rev \in 1..store.rev
    BY DEF Delivery, Numbered
  <2>8. held.change \in 0..store.rev /\ held.snapshot \in Nat
        /\ held.snapshot <= held.change
    BY <1>1 DEF Delivery, HeldBounds, DeliveryTypes
  <2>9. Numbered'
    <3>1. \A m \in Changes' : m.rev \in 1..fin
      BY <1>1, <2>1, <2>5, <2>7
    <3>2. ASSUME NEW m \in Changes', NEW o \in Changes', m.rev = o.rev
          PROVE  m = o
      <4>1. CASE m \in Changes /\ o \in Changes
        BY <3>2, <4>1 DEF Delivery, Numbered
      <4>2. CASE m \in new /\ o \in new
        BY <2>1, <3>2, <4>2
      <4>3. CASE (m \in Changes /\ o \in new) \/ (m \in new /\ o \in Changes)
        BY <1>1, <2>1, <2>7, <3>2, <4>3
      <4> QED BY <2>5, <4>1, <4>2, <4>3
    <3>3. \A m \in Changes' : m.rev <= held.snapshot \/ m.rev # held.change
      <4>1. \A m \in new : m.rev # held.change
        BY <1>1, <2>1, <2>8
      <4> QED BY <2>5, <4>1 DEF Delivery, Numbered
    <3> QED BY <1>2, <2>2, <3>1, <3>2, <3>3 DEF Numbered
  <2>10. HeldBounds' /\ NothingYet' /\ Opening'
    <3>1. HeldBounds'
      BY <1>1, <1>2, <2>1, <2>2, <2>6, <2>8 DEF Delivery, HeldBounds
    <3>2. NothingYet'
      BY <1>1, <2>1, <2>2 DEF NothingYet
    <3>3. Opening'
      BY <1>2, <2>6 DEF Delivery, Opening
    <3> QED BY <3>1, <3>2, <3>3
  <2>11. Account(next)'
    <3>1. \A m \in Changes' : next[m.rev] = Patch(next[m.rev - 1], m)
      <4>1. ASSUME NEW m \in Changes
            PROVE  next[m.rev] = Patch(next[m.rev - 1], m)
        <5>1. m.rev \in 0..store.rev /\ m.rev - 1 \in 0..store.rev
          BY <1>1, <2>7
        <5>2. past[m.rev] = Patch(past[m.rev - 1], m)
          BY <1>3 DEF Account
        <5> QED BY <2>4, <5>1, <5>2
      <4> QED BY <2>4, <2>5, <4>1
    <3>2. \A m \in Mergers : batch'[m].stage = "loaded" =>
            /\ batch'[m].snapshot.rev \in 1..fin
            /\ batch'[m].snapshot.items = next[batch'[m].snapshot.rev]
      <4> SUFFICES ASSUME NEW m \in Mergers, batch[m].stage = "loaded"
                   PROVE  /\ batch[m].snapshot.rev \in 1..fin
                          /\ batch[m].snapshot.items = next[batch[m].snapshot.rev]
        BY <1>2
      <4>1. /\ batch[m].snapshot.rev \in 1..store.rev
            /\ batch[m].snapshot.items = past[batch[m].snapshot.rev]
        BY <1>3 DEF Account
      <4> QED BY <1>1, <2>1, <2>4, <4>1
    <3>3. \A o \in sending' : o.kind = "snapshot" =>
            o.rev \in 1..fin /\ o.upsert = next[o.rev]
      <4> SUFFICES ASSUME NEW o \in sending, o.kind = "snapshot"
                   PROVE  o.rev \in 1..fin /\ o.upsert = next[o.rev]
        BY <2>6
      <4>1. o.rev \in 1..store.rev /\ o.upsert = past[o.rev]
        BY <1>3 DEF Account
      <4> QED BY <1>1, <2>1, <2>4, <4>1
    <3>4. AllExplained(next)'
      <4> SUFFICES ASSUME NEW p \in 0..fin, NEW q \in 0..fin, p < q,
                          next[p] # next[q]
                   PROVE  \E r \in p + 1..q : Explained(r)'
        BY <2>2 DEF AllExplained
      <4>1. \A r : Explained(r) => Explained(r)'
        BY <1>2, <2>5, <2>6 DEF Explained
      <4>2. CASE q <= store.rev
        <5>1. p \in 0..store.rev /\ q \in 0..store.rev
          BY <1>1, <4>2
        <5>2. past[p] # past[q]
          BY <2>4, <5>1
        <5> QED BY <1>3, <4>1, <5>1, <5>2 DEF Account, AllExplained
      <4>3. CASE q > store.rev /\ q <= CurrentRevision
        <5>1. next[q] = store.items /\ p < store.rev
          BY <1>1, <2>4, <4>3
        <5>2. past[p] # past[store.rev] /\ p \in 0..store.rev
          BY <1>1, <1>3, <2>4, <5>1 DEF Account
        <5>3. PICK r \in p + 1..store.rev : Explained(r)
          BY <1>1, <1>3, <5>1, <5>2 DEF Account, AllExplained
        <5>4. r \in p + 1..q
          BY <1>1, <4>3, <5>3
        <5> QED BY <4>1, <5>3, <5>4
      <4>4. CASE q > CurrentRevision
        <5>1. q \in CurrentRevision + 1..fin /\ q \in p + 1..q
          BY <1>1, <2>1, <4>4
        <5>2. \E m \in Changes' : m.rev = q
          BY <2>1, <2>5, <5>1
        <5> QED BY <5>1, <5>2 DEF Explained
      <4> QED BY <1>1, <2>1, <4>2, <4>3, <4>4
    <3>5. Clean' => replica'.items = next[held'.change]
      <4>1. Clean' => Clean
        BY <1>2, <2>5, <2>6 DEF Clean
      <4> QED BY <1>2, <1>3, <2>4, <2>8, <4>1 DEF Account
    <3> QED BY <2>2, <2>4, <3>1, <3>2, <3>3, <3>4, <3>5 DEF Account
  <2> QED BY <2>4, <2>9, <2>10, <2>11 DEF Delivery
<1> QED BY <1>4, <1>5

\* A write whose messages are dropped: a snapshot is due.
LEMMA SilentWrite ==
  ASSUME TypeOK, Delivery, NEW items \in TimelineItems, Replace(items),
         NEW m \in Mergers, batch[m].stage = "begun", HasSent(m),
         batch' = [batch EXCEPT ![m].stage = "merged"],
         UNCHANGED <<sending, copyVars>>
  PROVE  Delivery'
<1>1. /\ DeliveryTypes /\ store.rev \in Nat
      /\ CurrentRevision \in Nat /\ CurrentRevision >= store.rev
  BY DeliveryTyped, CurrentCovers
<1>2. /\ replica' = replica /\ held' = held
      /\ missed' = missed /\ sending' = sending
  BY DEF copyVars
<1>3. PICK past \in Past : Account(past)
  BY DEF Delivery
<1>4. /\ batch'[m].stage = "merged"
      /\ \A n \in Mergers : n # m => batch'[n] = batch[n]
  BY <1>1 DEF DeliveryTypes
<1>5. (\A r : Due(r)') /\ ~NothingDue' /\ Changes' = Changes
  BY <1>2, <1>4 DEF Due, NothingDue, Changes
<1>6. Opening'
  BY <1>2, <1>4 DEF Delivery, Opening, HasSent
<1>7. \E next \in Past :
        /\ \A r \in 0..store.rev : next[r] = past[r]
        /\ next[store'.rev] = store'.items
  <2>1. CASE items = store.items
    BY <1>3, <2>1, ReplaceIs DEF Account
  <2>2. CASE items # store.items
    <3>1. PICK next : next = PastWith(past, items, Final(items))
      OBVIOUS
    <3>2. /\ next \in Past /\ \A r \in 0..store.rev : next[r] = past[r]
          /\ next[Final(items)] = items
      BY <1>3, <2>2, <3>1, PastIs DEF Account
    <3>3. store'.rev = Final(items) /\ store'.items = items
      BY <2>2, ReplaceIs
    <3> QED BY <3>2, <3>3
  <2> QED BY <2>1, <2>2
<1>8. PICK next \in Past : /\ \A r \in 0..store.rev : next[r] = past[r]
                           /\ next[store'.rev] = store'.items
  BY <1>7
<1>9. /\ store'.rev \in Nat /\ store'.rev >= store.rev
      /\ store'.items # store.items => store'.rev > store.rev
  BY ReplaceIs DEF Timeline
<1>10. \A c \in Changes : c.rev \in 1..store.rev
  BY DEF Delivery, Numbered
<1>11. Numbered' /\ HeldBounds' /\ NothingYet'
  <2>1. Numbered'
    <3>1. \A c \in Changes : c.rev \in 1..store'.rev
      BY <1>1, <1>9, <1>10
    <3> QED BY <1>2, <1>5, <3>1 DEF Delivery, Numbered
  <2>2. HeldBounds'
    <3>1. held.change \in Nat /\ held.change <= store.rev
      BY <1>1 DEF Delivery, HeldBounds, DeliveryTypes
    <3>2. held.change <= store'.rev
      BY <1>1, <1>9, <3>1
    <3> QED BY <1>2, <1>5, <3>2 DEF Delivery, HeldBounds
  <2>3. NothingYet'
    BY <1>1, <1>2, <1>9 DEF Delivery, NothingYet
  <2> QED BY <2>1, <2>2, <2>3
<1>12. Account(next)'
  <2>1. \A c \in Changes' : next[c.rev] = Patch(next[c.rev - 1], c)
    <3> SUFFICES ASSUME NEW c \in Changes
                 PROVE  next[c.rev] = Patch(next[c.rev - 1], c)
      BY <1>5
    <3>1. c.rev \in 0..store.rev /\ c.rev - 1 \in 0..store.rev
      BY <1>1, <1>10
    <3>2. past[c.rev] = Patch(past[c.rev - 1], c)
      BY <1>3 DEF Account
    <3> QED BY <1>8, <3>1, <3>2
  <2>2. \A n \in Mergers : batch'[n].stage = "loaded" =>
          /\ batch'[n].snapshot.rev \in 1..store'.rev
          /\ batch'[n].snapshot.items = next[batch'[n].snapshot.rev]
    <3> SUFFICES ASSUME NEW n \in Mergers, batch'[n].stage = "loaded"
                 PROVE  /\ batch'[n].snapshot.rev \in 1..store'.rev
                        /\ batch'[n].snapshot.items
                             = next[batch'[n].snapshot.rev]
      OBVIOUS
    <3>1. batch'[n] = batch[n]
      BY <1>4
    <3>2. /\ batch[n].snapshot.rev \in 1..store.rev
          /\ batch[n].snapshot.items = past[batch[n].snapshot.rev]
      BY <1>3, <3>1 DEF Account
    <3> QED BY <1>1, <1>8, <1>9, <3>1, <3>2
  <2>3. \A o \in sending' : o.kind = "snapshot" =>
          o.rev \in 1..store'.rev /\ o.upsert = next[o.rev]
    <3> SUFFICES ASSUME NEW o \in sending, o.kind = "snapshot"
                 PROVE  o.rev \in 1..store'.rev /\ o.upsert = next[o.rev]
      BY <1>2
    <3>1. o.rev \in 1..store.rev /\ o.upsert = past[o.rev]
      BY <1>3 DEF Account
    <3> QED BY <1>1, <1>8, <1>9, <3>1
  <2>4. AllExplained(next)'
    <3> SUFFICES ASSUME NEW p \in 0..store'.rev, NEW q \in 0..store'.rev, p < q
                 PROVE  \E r \in p + 1..q : Explained(r)'
      BY DEF AllExplained
    <3>1. q \in p + 1..q
      BY <1>9
    <3> QED BY <1>5, <3>1 DEF Explained
  <2>5. ~Clean'
    BY <1>5 DEF Clean
  <2> QED BY <1>8, <2>1, <2>2, <2>3, <2>4, <2>5 DEF Account
<1> QED BY <1>6, <1>8, <1>11, <1>12 DEF Delivery

-----------------------------------------------------------------------------
(* The batches.                                                            *)

\* While a batch is open nothing is claimed of the copy.
LEMMA BatchBegins ==
  ASSUME TypeOK, Delivery, NEW m \in Mergers, NEW kind \in {"reset", "opened"},
         BeginBatch(m, kind)
  PROVE  Delivery'
<1> DEFINE message == Message(m, kind, NextRevision, {}, {})
<1>1. /\ DeliveryTypes /\ store' = store /\ replica' = replica /\ held' = held
      /\ missed' = missed /\ sending' = sending \union {message}
      /\ batch' = [batch EXCEPT ![m].stage = "begun"] /\ HasSent(m)
  BY DeliveryTyped DEF BeginBatch, copyVars
<1>2. message.kind = kind /\ message.by = m
  BY DEF Message
<1> HIDE DEF message
<1>3. /\ batch'[m].stage = "begun"
      /\ \A n \in Mergers : n # m => batch'[n] = batch[n]
  BY <1>1 DEF DeliveryTypes
<1>4. /\ Changes' = Changes /\ (\A r : Due(r)') /\ ~NothingDue'
      /\ \A o \in sending' : o.kind = "snapshot" => o \in sending
  BY <1>1, <1>2, <1>3 DEF Changes, Due, NothingDue
<1>5. Numbered' /\ HeldBounds' /\ NothingYet' /\ Opening'
  BY <1>1, <1>2, <1>3, <1>4
  DEF Delivery, Numbered, HeldBounds, NothingYet, Opening, HasSent
<1>6. PICK past \in Past : Account(past)
  BY DEF Delivery
<1>7. Account(past)'
  <2>1. AllExplained(past)'
    BY <1>1, <1>4, <1>6 DEF Account, AllExplained, Explained
  <2>2. \A n \in Mergers : batch'[n].stage = "loaded" => batch'[n] = batch[n]
    BY <1>3
  <2>3. ~Clean'
    BY <1>4 DEF Clean
  <2> QED BY <1>1, <1>4, <1>6, <2>1, <2>2, <2>3 DEF Account
<1> QED BY <1>5, <1>7 DEF Delivery

\* The snapshot that is loaded is the stored one, and holds every change.
LEMMA BatchLoads ==
  ASSUME TypeOK, Delivery, NEW m \in Mergers, LoadBatch(m)
  PROVE  Delivery'
<1>1. /\ DeliveryTypes /\ store' = store /\ replica' = replica /\ held' = held
      /\ missed' = missed /\ sending' = sending /\ batch[m].stage = "merged"
      /\ batch' = [batch EXCEPT ![m] =
                     IF store.rev = 0 THEN Live
                     ELSE [stage |-> "loaded", snapshot |-> store]]
      /\ store.rev \in Nat
  BY DeliveryTyped DEF LoadBatch, copyVars
<1>2. /\ batch'[m] = IF store.rev = 0 THEN Live
                     ELSE [stage |-> "loaded", snapshot |-> store]
      /\ \A n \in Mergers : n # m => batch'[n] = batch[n]
  BY <1>1 DEF DeliveryTypes
<1>3. Live.stage = "live"
  BY DEF Live
<1>4. Changes' = Changes /\ ~NothingDue
  BY <1>1 DEF Changes, NothingDue
<1>5. held.change \in 0..store.rev /\ replica.rev \in Nat
  BY <1>1 DEF Delivery, HeldBounds, DeliveryTypes
<1>6. NothingDue' => store.rev = 0
  BY <1>2 DEF NothingDue
<1>7. Numbered' /\ HeldBounds' /\ NothingYet' /\ Opening'
  <2>1. Numbered' /\ NothingYet'
    BY <1>1, <1>4 DEF Delivery, Numbered, NothingYet
  <2>2. HeldBounds'
    BY <1>1, <1>5, <1>6 DEF Delivery, HeldBounds
  <2>3. Opening'
    BY <1>1, <1>2 DEF Delivery, Opening
  <2> QED BY <2>1, <2>2, <2>3
<1>8. PICK past \in Past : Account(past)
  BY DEF Delivery
<1>9. Account(past)'
  <2>1. AllExplained(past)'
    <3> SUFFICES ASSUME NEW p \in 0..store.rev, NEW q \in 0..store.rev, p < q
                 PROVE  \E r \in p + 1..q : Explained(r)'
      BY <1>1 DEF AllExplained
    <3>1. store.rev # 0 /\ q \in p + 1..q /\ q <= store.rev
      BY <1>1
    <3>2. batch'[m].stage = "loaded" /\ batch'[m].snapshot.rev >= q
      BY <1>1, <1>2, <3>1
    <3> QED BY <3>1, <3>2 DEF Explained, Due
  <2>2. \A n \in Mergers : batch'[n].stage = "loaded" =>
          /\ batch'[n].snapshot.rev \in 1..store.rev
          /\ batch'[n].snapshot.items = past[batch'[n].snapshot.rev]
    BY <1>1, <1>2, <1>3, <1>8 DEF Account
  <2>3. Clean' => replica.items = past[held.change]
    <3> SUFFICES ASSUME NothingDue' PROVE replica.items = past[held.change]
      BY DEF Clean
    <3>1. store.rev = 0 /\ held.change = 0
      BY <1>1, <1>5, <1>6
    <3>2. past[0] = store.items /\ store.items = {} /\ replica.items = {}
      BY <1>8, <3>1 DEF Account, Delivery, NothingYet
    <3> QED BY <3>1, <3>2
  <2> QED BY <1>1, <1>4, <1>8, <2>1, <2>2, <2>3 DEF Account
<1> QED BY <1>7, <1>9 DEF Delivery

LEMMA BatchSends ==
  ASSUME TypeOK, Delivery, NEW m \in Mergers, SendBatch(m)
  PROVE  Delivery'
<1> DEFINE message == Message(m, "snapshot", batch[m].snapshot.rev, {},
                              batch[m].snapshot.items)
<1>1. /\ DeliveryTypes /\ store' = store /\ replica' = replica /\ held' = held
      /\ missed' = missed /\ batch[m].stage = "loaded"
      /\ sending' = sending \union {message}
      /\ batch' = [batch EXCEPT ![m] = Live]
  BY DeliveryTyped DEF SendBatch, copyVars
<1>2. /\ message.kind = "snapshot" /\ message.rev = batch[m].snapshot.rev
      /\ message.upsert = batch[m].snapshot.items
  BY DEF Message
<1> HIDE DEF message
<1>3. /\ batch'[m].stage = "live"
      /\ \A n \in Mergers : n # m => batch'[n] = batch[n]
  BY <1>1 DEF DeliveryTypes, Live
<1>4. Changes' = Changes /\ ~NothingDue'
  BY <1>1, <1>2 DEF Changes, NothingDue
<1>5. \A r : Due(r) => Due(r)'
  BY <1>1, <1>2, <1>3 DEF Due
<1>6. Numbered' /\ HeldBounds' /\ NothingYet' /\ Opening'
  BY <1>1, <1>2, <1>3, <1>4
  DEF Delivery, Numbered, HeldBounds, NothingYet, Opening
<1>7. PICK past \in Past : Account(past)
  BY DEF Delivery
<1>8. Account(past)'
  <2>1. AllExplained(past)'
    BY <1>1, <1>4, <1>5, <1>7 DEF Account, AllExplained, Explained
  <2>2. \A n \in Mergers : batch'[n].stage = "loaded" => batch'[n] = batch[n]
    BY <1>3
  <2>3. ~Clean'
    BY <1>4 DEF Clean
  <2>4. /\ message.rev \in 1..store.rev
        /\ message.upsert = past[message.rev]
    BY <1>1, <1>2, <1>7 DEF Account
  <2>5. \A o \in sending' : o.kind = "snapshot" =>
          o.rev \in 1..store.rev /\ o.upsert = past[o.rev]
    BY <1>1, <1>7, <2>4 DEF Account
  <2> QED BY <1>1, <1>4, <1>7, <2>1, <2>2, <2>3, <2>5 DEF Account
<1> QED BY <1>6, <1>8 DEF Delivery

-----------------------------------------------------------------------------
(* The client.                                                             *)

LEMMA ChangeTaken ==
  ASSUME TypeOK, Delivery, NEW m \in sending, TakeChange(m)
  PROVE  Delivery'
<1>1. /\ DeliveryTypes /\ store' = store /\ batch' = batch
      /\ sending' = sending \ {m} /\ m.kind = "change" /\ store.rev \in Nat
  BY DeliveryTyped DEF TakeChange, Broadcast
<1>2. /\ m.rev \in 1..store.rev /\ replica.rev \in Nat /\ missed \in Nat
      /\ held.change \in 0..store.rev /\ held.snapshot \in Nat
      /\ held.snapshot <= held.change /\ m \in Changes
  BY <1>1 DEF Delivery, HeldBounds, DeliveryTypes, Numbered, Changes
<1>3. /\ Changes' = Changes \ {m}
      /\ \A r : Due(r)' <=> Due(r)
      /\ NothingDue' <=> NothingDue
  BY <1>1 DEF Changes, Due, NothingDue
<1>4. CASE Accepts(m)
  <2>1. /\ replica'.rev = m.rev /\ replica'.items = Patch(replica.items, m)
        /\ held'.snapshot = held.snapshot
        /\ held'.change = Later(held.change, m.rev) /\ missed' = missed
        /\ m.rev > replica.rev
    BY <1>1, <1>4 DEF TakeChange, Accepts, DeliveryTypes
  <2>2. /\ held'.change \in held.change..store.rev /\ m.rev <= held'.change
        /\ held'.change = m.rev \/ held'.change = held.change
    BY <1>2, <2>1 DEF Later
  <2>3. Numbered' /\ HeldBounds' /\ NothingYet' /\ Opening'
    <3>1. Numbered'
      <4>1. \A o \in Changes' : o.rev # m.rev
        BY <1>2, <1>3 DEF Delivery, Numbered
      <4> QED BY <1>1, <1>3, <2>1, <2>2, <4>1 DEF Delivery, Numbered
    <3>2. HeldBounds'
      <4>1. NothingDue => held.change <= replica.rev
        BY DEF Delivery, HeldBounds
      <4>2. NothingDue => held'.change <= m.rev
        BY <1>2, <2>1, <4>1 DEF Later
      <4>3. held.snapshot <= held'.change /\ held'.change <= store.rev
        BY <1>2, <2>2
      <4> QED BY <1>1, <1>3, <2>1, <4>2, <4>3 DEF HeldBounds
    <3>3. NothingYet' /\ Opening'
      BY <1>1, <1>2 DEF Delivery, NothingYet, Opening
    <3> QED BY <3>1, <3>2, <3>3
  <2>4. PICK past \in Past : Account(past)
    BY DEF Delivery
  <2>5. \A r \in Nat : Explained(r) => Explained(r)'
    <3> SUFFICES ASSUME NEW r \in Nat, Explained(r) PROVE Explained(r)'
      OBVIOUS
    <3>1. CASE r = m.rev \/ r <= held.change
      <4>1. r <= held'.change
        BY <1>2, <2>2, <3>1
      <4> QED BY <4>1 DEF Explained
    <3>2. CASE r # m.rev /\ ~(r <= held.change)
      BY <1>3, <2>1, <3>2 DEF Explained
    <3> QED BY <3>1, <3>2
  <2>6. AllExplained(past)'
    BY <1>1, <1>2, <2>4, <2>5 DEF Account, AllExplained
  <2>7. Clean' => replica'.items = past[held'.change]
    <3> SUFFICES ASSUME Clean' PROVE replica'.items = past[held'.change]
      OBVIOUS
    <3>1. /\ missed = 0 /\ NothingDue
          /\ \A o \in Changes' : o.rev <= held.snapshot \/ o.rev > m.rev
      BY <1>3, <2>1 DEF Clean
    <3>2. held.change <= replica.rev
      BY <3>1 DEF Delivery, HeldBounds
    <3>3. Clean
      <4>1. ASSUME NEW o \in Changes
            PROVE  o.rev <= held.snapshot \/ o.rev > replica.rev
        <5>1. o.rev \in Nat
          BY <1>1 DEF Changes, DeliveryTypes, Messages
        <5> QED BY <1>2, <1>3, <2>1, <3>1, <5>1
      <4> QED BY <3>1, <4>1 DEF Clean
    <3>4. replica.items = past[held.change] /\ held'.change = m.rev
      BY <1>2, <2>1, <2>4, <3>2, <3>3 DEF Account, Later
    <3>5. held.change <= m.rev - 1 /\ m.rev - 1 \in 0..store.rev
      BY <1>1, <1>2, <2>1, <3>2
    <3>6. past[held.change] = past[m.rev - 1]
      <4> SUFFICES ASSUME past[held.change] # past[m.rev - 1] PROVE FALSE
        OBVIOUS
      <4>1. held.change < m.rev - 1
        BY <1>2, <3>5
      <4>2. PICK r \in held.change + 1..m.rev - 1 : Explained(r)
        BY <1>2, <2>4, <3>5, <4>1 DEF Account, AllExplained
      <4>3. r \in Nat /\ r > 0 /\ r < m.rev /\ r > held.change
        BY <1>2, <4>2
      <4>4. ~Due(r)
        BY <3>1, <4>3 DEF NothingDue, Due
      <4>5. PICK o \in Changes : o.rev = r
        <5>1. ~(r <= missed) /\ ~(r <= held.change)
          BY <1>2, <3>1, <4>3
        <5> QED BY <4>2, <4>4, <5>1 DEF Explained
      <4>6. o \in Changes'
        BY <1>2, <1>3, <4>3, <4>5
      <4> QED BY <1>2, <3>1, <4>3, <4>5, <4>6
    <3>7. past[m.rev] = Patch(past[m.rev - 1], m)
      BY <1>2, <2>4 DEF Account
    <3> QED BY <2>1, <3>4, <3>6, <3>7
  <2>8. Account(past)'
    BY <1>1, <1>3, <2>4, <2>6, <2>7 DEF Account
  <2> QED BY <2>3, <2>8 DEF Delivery
<1>5. CASE ~Accepts(m)
  <2>1. /\ replica' = replica /\ held' = held
        /\ missed' = IF m.rev <= held.snapshot \/ m.rev = held.change
                     THEN missed ELSE Later(missed, m.rev)
        /\ ~(m.rev > replica.rev)
    BY <1>5 DEF TakeChange, Accepts
  <2>2. /\ missed' \in Nat /\ missed' >= missed
        /\ m.rev <= held.change \/ m.rev <= missed'
    BY <1>2, <2>1 DEF Later
  <2>3. Numbered' /\ HeldBounds' /\ NothingYet' /\ Opening'
    BY <1>1, <1>3, <2>1
    DEF Delivery, Numbered, HeldBounds, NothingYet, Opening
  <2>4. PICK past \in Past : Account(past)
    BY DEF Delivery
  <2>5. \A r \in Nat : Explained(r) => Explained(r)'
    <3> SUFFICES ASSUME NEW r \in Nat, Explained(r) PROVE Explained(r)'
      OBVIOUS
    <3>1. CASE r = m.rev
      BY <2>1, <2>2, <3>1 DEF Explained
    <3>2. CASE r <= missed
      <4>1. r <= missed'
        BY <1>2, <2>2, <3>2
      <4> QED BY <4>1 DEF Explained
    <3>3. CASE r # m.rev /\ ~(r <= missed)
      BY <1>3, <2>1, <3>3 DEF Explained
    <3> QED BY <3>1, <3>2, <3>3
  <2>6. AllExplained(past)'
    BY <1>1, <1>2, <2>4, <2>5 DEF Account, AllExplained
  <2>7. Clean' => Clean
    <3> SUFFICES ASSUME Clean' PROVE Clean
      OBVIOUS
    <3>1. missed' = 0 /\ NothingDue /\ missed = 0
      BY <1>2, <1>3, <2>2 DEF Clean
    <3>2. m.rev <= held.snapshot
      <4>1. m.rev <= held.snapshot \/ m.rev = held.change
        BY <1>2, <2>1, <3>1 DEF Later
      <4> QED BY <1>2, <4>1 DEF Delivery, Numbered
    <3>3. \A o \in Changes : o.rev <= held.snapshot \/ o.rev > replica.rev
      BY <1>3, <2>1, <3>2 DEF Clean
    <3> QED BY <3>1, <3>3 DEF Clean
  <2>8. Account(past)'
    BY <1>1, <1>3, <2>1, <2>4, <2>6, <2>7 DEF Account
  <2> QED BY <2>3, <2>8 DEF Delivery
<1> QED BY <1>4, <1>5

LEMMA ResetTaken ==
  ASSUME TypeOK, Delivery, NEW m \in sending, TakeReset(m)
  PROVE  Delivery'
<1>1. /\ DeliveryTypes /\ store' = store /\ batch' = batch /\ held' = held
      /\ missed' = missed /\ sending' = sending \ {m}
      /\ m.kind \in {"reset", "opened"}
      /\ replica'.items = {} \/ replica' = replica
  BY DeliveryTyped DEF TakeReset, Broadcast
<1>2. m.by \in Mergers /\ batch[m.by].stage = "begun"
  BY <1>1 DEF Delivery, Opening
<1>3. Changes' = Changes /\ (\A r : Due(r)') /\ ~NothingDue'
  BY <1>1, <1>2 DEF Changes, Due, NothingDue
<1>4. Numbered' /\ HeldBounds' /\ NothingYet' /\ Opening'
  BY <1>1, <1>3 DEF Delivery, Numbered, HeldBounds, NothingYet, Opening
<1>5. PICK past \in Past : Account(past)
  BY DEF Delivery
<1>6. Account(past)'
  <2>1. AllExplained(past)'
    BY <1>1, <1>3, <1>5 DEF Account, AllExplained, Explained
  <2>2. ~Clean'
    BY <1>3 DEF Clean
  <2> QED BY <1>1, <1>3, <1>5, <2>1, <2>2 DEF Account
<1> QED BY <1>4, <1>6 DEF Delivery

LEMMA SnapshotTaken ==
  ASSUME TypeOK, Delivery, NEW m \in sending, TakeSnapshot(m)
  PROVE  Delivery'
<1>1. /\ DeliveryTypes /\ store' = store /\ batch' = batch
      /\ sending' = sending \ {m} /\ m.kind = "snapshot" /\ store.rev \in Nat
      /\ replica'.rev = m.rev /\ replica'.items = m.upsert
      /\ held'.snapshot = m.rev /\ held'.change = m.rev
      /\ missed' = IF Later(missed, held.change) > m.rev
                   THEN Later(missed, held.change) ELSE 0
  BY DeliveryTyped DEF TakeSnapshot, Broadcast
<1>2. PICK past \in Past : Account(past)
  BY DEF Delivery
<1>3. m.rev \in 1..store.rev /\ m.upsert = past[m.rev]
  BY <1>1, <1>2 DEF Account
<1>4. missed \in Nat /\ held.change \in Nat
  BY <1>1 DEF DeliveryTypes
<1>5. Changes' = Changes
  BY <1>1 DEF Changes
<1>6. Numbered' /\ HeldBounds' /\ NothingYet' /\ Opening'
  <2>1. Numbered'
    BY <1>1, <1>3, <1>5 DEF Delivery, Numbered
  <2>2. HeldBounds' /\ NothingYet'
    BY <1>1, <1>3 DEF HeldBounds, NothingYet
  <2>3. Opening'
    BY <1>1 DEF Delivery, Opening
  <2> QED BY <2>1, <2>2, <2>3
<1>7. \A r \in Nat : Explained(r) => Explained(r)'
  <2> SUFFICES ASSUME NEW r \in Nat, Explained(r) PROVE Explained(r)'
    OBVIOUS
  <2>1. CASE r <= m.rev
    BY <1>1, <2>1 DEF Explained
  <2>2. CASE r > m.rev /\ (r <= missed \/ r <= held.change)
    <3>1. r <= missed'
      BY <1>1, <1>3, <1>4, <2>2 DEF Later
    <3> QED BY <3>1 DEF Explained
  <2>3. CASE r > m.rev /\ Due(r)
    <3>1. Due(r)'
      BY <1>1, <1>3, <2>3 DEF Due
    <3> QED BY <3>1 DEF Explained
  <2>4. CASE \E o \in Changes : o.rev = r
    BY <1>5, <2>4 DEF Explained
  <2> QED BY <1>3, <2>1, <2>2, <2>3, <2>4 DEF Explained
<1>8. Account(past)'
  <2>1. AllExplained(past)'
    BY <1>1, <1>2, <1>7 DEF Account, AllExplained
  <2> QED BY <1>1, <1>2, <1>3, <1>5, <2>1 DEF Account
<1> QED BY <1>6, <1>8 DEF Delivery

\* Nothing is on its way and the copy is the stored timeline.
Fresh ==
  /\ store \in Timeline /\ (store.rev = 0 => store.items = {})
  /\ \E past \in Past : past[store.rev] = store.items
  /\ sending = {} /\ \A m \in Mergers : batch[m].stage = "live"
  /\ replica = store /\ missed = 0
  /\ held = [snapshot |-> store.rev, change |-> store.rev]

LEMMA FreshCopy == Fresh => Delivery
<1> SUFFICES ASSUME Fresh PROVE Delivery
  OBVIOUS
<1> USE DEF Fresh
<1>1. store.rev \in Nat /\ held.snapshot = store.rev /\ held.change = store.rev
  BY DEF Timeline
<1>2. Numbered /\ HeldBounds /\ NothingYet /\ Opening
  BY <1>1 DEF Numbered, HeldBounds, NothingYet, Opening, Changes
<1>3. PICK past \in Past : past[store.rev] = store.items
  OBVIOUS
<1>4. AllExplained(past)
  <2> SUFFICES ASSUME NEW p \in 0..store.rev, NEW q \in 0..store.rev, p < q
               PROVE  \E r \in p + 1..q : Explained(r)
    BY DEF AllExplained
  <2>1. q \in p + 1..q /\ q <= held.change
    BY <1>1
  <2> QED BY <2>1 DEF Explained
<1>5. Account(past)
  BY <1>1, <1>3, <1>4 DEF Account, Changes
<1> QED BY <1>2, <1>3, <1>5 DEF Delivery

-----------------------------------------------------------------------------
(* The steps.                                                              *)

LEMMA InitInv == Init => TimelineInv
<1> SUFFICES ASSUME Init PROVE TimelineInv
  OBVIOUS
<1>1. Empty \in Timeline /\ Unique({})
  BY DEF Timeline, Empty, Unique
<1>2. TypeOK
  <2>1. boot \in 1..MaxBoots
    BY BoundAssumption DEF Init
  <2>2. batch \in [Mergers -> [stage : {"live", "begun", "merged", "loaded"},
                               snapshot : Timeline]]
    BY <1>1 DEF Init, Live
  <2>3. replica \in [rev : Nat, items : SUBSET Items]
    BY DEF Init, Empty
  <2>4. /\ hook \in [Approvals -> [stage : {"new", "loaded", "pending",
                                            "reloaded", "done"},
                                   seen : SUBSET Items]]
        /\ written \in [Approvals -> {"none", "pending", "resolved"}]
    BY DEF Init
  <2> QED BY <1>1, <2>1, <2>2, <2>3, <2>4 DEF Init, TypeOK
<1>3. LoadsAreTimelines
  BY <1>1 DEF Init, LoadsAreTimelines
<1>4. Delivery
  <2>1. [r \in Nat |-> {}] \in Past
    BY DEF Past
  <2>2. store.rev = 0 /\ store.items = {}
    BY DEF Init, Empty
  <2>3. \E past \in Past : past[store.rev] = store.items
    BY <2>1, <2>2
  <2>4. /\ \A m \in Mergers : batch[m].stage = "live"
        /\ replica = store /\ sending = {} /\ missed = 0
        /\ held = [snapshot |-> store.rev, change |-> store.rev]
    BY <2>2 DEF Init, Live
  <2> QED BY <1>1, <2>2, <2>3, <2>4, FreshCopy DEF Init, Fresh
<1> QED BY <1>2, <1>3, <1>4 DEF TimelineInv

\* The stored revision covers the change of a step.
Covered ==
  /\ store'.rev >= store.rev
  /\ store'.items # store.items => store'.rev > store.rev

HooksTyped ==
  /\ hook \in [Approvals -> [stage : {"new", "loaded", "pending",
                                      "reloaded", "done"},
                             seen : SUBSET Items]]
  /\ written \in [Approvals -> {"none", "pending", "resolved"}]
  /\ LoadsAreTimelines

\* A hook that moves to another stage with a timeline it loaded, or with none.
LEMMA HookMoves ==
  ASSUME HooksTyped, NEW a \in Approvals, NEW seen \in TimelineItems,
         NEW stage \in {"new", "loaded", "pending", "reloaded", "done"},
         hook' = [hook EXCEPT ![a] = [stage |-> stage, seen |-> seen]],
         \/ written' = written
         \/ \E status \in {"pending", "resolved"} :
              written' = [written EXCEPT ![a] = status]
  PROVE  HooksTyped'
<1>1. hook' \in [Approvals -> [stage : {"new", "loaded", "pending",
                                        "reloaded", "done"},
                               seen : SUBSET Items]]
  BY DEF HooksTyped, TimelineItems
<1>2. written' \in [Approvals -> {"none", "pending", "resolved"}]
  BY DEF HooksTyped
<1>3. \A b \in Approvals : hook'[b].seen = IF b = a THEN seen
                                                    ELSE hook[b].seen
  BY DEF HooksTyped
<1>4. LoadsAreTimelines'
  BY <1>3 DEF HooksTyped, LoadsAreTimelines, TimelineItems
<1> QED
  BY <1>1, <1>2, <1>4 DEF HooksTyped

\* The copy keeps its type when a message is taken.
LEMMA TakenTyped ==
  ASSUME DeliveryTypes, NEW m \in sending,
         TakeChange(m) \/ TakeReset(m) \/ TakeSnapshot(m)
  PROVE  DeliveryTypes'
<1>1. /\ store' = store /\ batch' = batch /\ sending' \subseteq Messages
      /\ m.rev \in Nat /\ m.upsert \in SUBSET Items
  BY DEF TakeChange, TakeReset, TakeSnapshot, Broadcast, DeliveryTypes, Messages
<1>2. /\ replica.items \in SUBSET Items /\ held.change \in Nat
      /\ held.snapshot \in Nat /\ missed \in Nat
  BY DEF DeliveryTypes
<1>3. Patch(replica.items, m) \in SUBSET Items
  BY <1>1, <1>2 DEF Patch
<1>4. /\ Later(held.change, m.rev) \in Nat /\ Later(missed, m.rev) \in Nat
      /\ Later(missed, held.change) \in Nat
  BY <1>1, <1>2 DEF Later
<1>5. CASE TakeChange(m)
  BY <1>1, <1>2, <1>3, <1>4, <1>5 DEF TakeChange, DeliveryTypes
<1>6. CASE TakeReset(m)
  BY <1>1, <1>2, <1>6 DEF TakeReset, DeliveryTypes
<1>7. CASE TakeSnapshot(m)
  BY <1>1, <1>2, <1>4, <1>7 DEF TakeSnapshot, DeliveryTypes
<1> QED BY <1>5, <1>6, <1>7

LEMMA StepKeeps ==
  ASSUME TimelineInv, [Next]_vars
  PROVE  TimelineInv' /\ Covered
<1>0. /\ TypeOK /\ LoadsAreTimelines /\ Delivery /\ HooksTyped
      /\ DeliveryTypes /\ store.rev \in Nat
      /\ store.items \in TimelineItems /\ {} \in TimelineItems
  BY StoreIsTimeline, DeliveryTyped
  DEF TimelineInv, TypeOK, HooksTyped, TimelineItems, Unique
<1>1. ASSUME DeliveryTypes', HooksTyped', Delivery', Covered,
             cached' \in Nat \union {None}, reading' \in Nat \union {None},
             issued' \in Nat, boot' \in 1..MaxBoots
      PROVE  TimelineInv' /\ Covered
  BY <1>1 DEF TimelineInv, TypeOK, DeliveryTypes, HooksTyped
<1>2. /\ cached \in Nat \union {None} /\ reading \in Nat \union {None}
      /\ issued \in Nat /\ boot \in 1..MaxBoots
  BY <1>0 DEF TypeOK
<1>3. store' = store => Covered
  BY <1>0 DEF Covered
<1>4. ASSUME NEW items \in TimelineItems, Replace(items)
      PROVE  /\ store' \in Timeline /\ Covered
             /\ cached' \in Nat /\ issued' \in Nat
  BY <1>0, <1>4, ReplaceIs DEF Covered
<1>5. \A view \in ProviderViews : Merged(view) \in TimelineItems
  BY <1>0, ProviderItemsAre DEF Merged
<1>6. UNCHANGED <<hook, written>> => HooksTyped'
  BY <1>0 DEF HooksTyped, LoadsAreTimelines
<1>7. ASSUME NEW m \in Mergers, NEW view \in ProviderViews,
             MergeProvider(m, view)
      PROVE  TimelineInv' /\ Covered
  <2>1. /\ Replace(Merged(view)) /\ Announce(m, Merged(view))
        /\ m \in Writers /\ Merged(view) \in TimelineItems
        /\ UNCHANGED <<hook, written, batch, reading, boot, copyVars>>
    BY <1>5, <1>7 DEF MergeProvider, Writers
  <2>2. Delivery'
    BY <1>0, <2>1, AnnouncedWrite
  <2>3. DeliveryTypes'
    <3>1. sending' \subseteq Messages
      BY <1>0, <2>1, DiffTyped DEF Announce, Diff, DeliveryTypes
    <3> QED BY <1>0, <1>4, <2>1, <3>1 DEF DeliveryTypes, copyVars
  <2> QED BY <1>1, <1>2, <1>4, <1>6, <2>1, <2>2, <2>3
<1>8. ASSUME NEW m \in Mergers, NEW view \in ProviderViews, MergeBatch(m, view)
      PROVE  TimelineInv' /\ Covered
  <2>1. /\ Replace(Merged(view)) /\ Merged(view) \in TimelineItems
        /\ batch[m].stage = "begun" /\ HasSent(m)
        /\ batch' = [batch EXCEPT ![m].stage = "merged"]
        /\ UNCHANGED <<hook, written, reading, sending, boot, copyVars>>
    BY <1>5, <1>8 DEF MergeBatch
  <2>2. Delivery'
    BY <1>0, <2>1, SilentWrite
  <2>3. DeliveryTypes'
    <3>1. batch' \in [Mergers -> [stage : {"live", "begun", "merged", "loaded"},
                                  snapshot : Timeline]]
      BY <1>0, <2>1 DEF DeliveryTypes
    <3> QED BY <1>0, <1>4, <2>1, <3>1 DEF DeliveryTypes, copyVars
  <2> QED BY <1>1, <1>2, <1>4, <1>6, <2>1, <2>2, <2>3
<1>9. ASSUME NEW m \in Mergers, NEW kind \in {"reset", "opened"},
             BeginBatch(m, kind)
      PROVE  TimelineInv' /\ Covered
  <2>1. /\ cached' = NextRevision /\ issued' = Later(issued, NextRevision)
        /\ sending' = sending \union {Message(m, kind, NextRevision, {}, {})}
        /\ batch' = [batch EXCEPT ![m].stage = "begun"]
        /\ UNCHANGED <<store, hook, written, reading, boot, copyVars>>
    BY <1>9 DEF BeginBatch
  <2>2. NextRevision \in Nat
    BY <1>0, <1>2 DEF NextRevision
  <2>3. issued' \in Nat
    BY <1>2, <2>1, <2>2 DEF Later
  <2>4. DeliveryTypes'
    <3>1. Message(m, kind, NextRevision, {}, {}) \in Messages
      BY <2>2 DEF Message, Messages, Writers
    <3>2. batch' \in [Mergers -> [stage : {"live", "begun", "merged", "loaded"},
                                  snapshot : Timeline]]
      BY <1>0, <2>1 DEF DeliveryTypes
    <3> QED BY <1>0, <2>1, <3>1, <3>2 DEF DeliveryTypes, copyVars
  <2> QED BY <1>0, <1>1, <1>2, <1>3, <1>6, <1>9, <2>1, <2>2, <2>3, <2>4,
             BatchBegins
<1>10. ASSUME NEW m \in Mergers, LoadBatch(m)
       PROVE  TimelineInv' /\ Covered
  <2>1. /\ batch' = [batch EXCEPT ![m] =
                       IF store.rev = 0 THEN Live
                       ELSE [stage |-> "loaded", snapshot |-> store]]
        /\ UNCHANGED <<store, cached, hook, written, reading, sending, issued,
                       boot, copyVars>>
    BY <1>10 DEF LoadBatch
  <2>2. DeliveryTypes'
    <3>1. batch' \in [Mergers -> [stage : {"live", "begun", "merged", "loaded"},
                                  snapshot : Timeline]]
      BY <1>0, <2>1 DEF DeliveryTypes, Live, Empty, Timeline
    <3> QED BY <1>0, <2>1, <3>1 DEF DeliveryTypes, copyVars
  <2> QED BY <1>0, <1>1, <1>2, <1>3, <1>6, <1>10, <2>1, <2>2, BatchLoads
<1>11. ASSUME NEW m \in Mergers, SendBatch(m)
       PROVE  TimelineInv' /\ Covered
  <2>1. /\ cached' = batch[m].snapshot.rev
        /\ sending' = sending \union
                        {Message(m, "snapshot", batch[m].snapshot.rev, {},
                                 batch[m].snapshot.items)}
        /\ batch' = [batch EXCEPT ![m] = Live]
        /\ UNCHANGED <<store, hook, written, reading, issued, boot, copyVars>>
    BY <1>11 DEF SendBatch
  <2>2. /\ batch[m].snapshot.rev \in Nat
        /\ batch[m].snapshot.items \in SUBSET Items
    BY <1>0 DEF DeliveryTypes, Timeline
  <2>3. DeliveryTypes'
    <3>1. Message(m, "snapshot", batch[m].snapshot.rev, {},
                  batch[m].snapshot.items) \in Messages
      BY <2>2 DEF Message, Messages, Writers
    <3>2. batch' \in [Mergers -> [stage : {"live", "begun", "merged", "loaded"},
                                  snapshot : Timeline]]
      BY <1>0, <2>1 DEF DeliveryTypes, Live, Empty, Timeline
    <3> QED BY <1>0, <2>1, <3>1, <3>2 DEF DeliveryTypes, copyVars
  <2> QED BY <1>0, <1>1, <1>2, <1>3, <1>6, <1>11, <2>1, <2>2, <2>3, BatchSends
<1>12. ASSUME NEW m \in sending,
              TakeChange(m) \/ TakeReset(m) \/ TakeSnapshot(m)
       PROVE  TimelineInv' /\ Covered
  <2>1. UNCHANGED <<store, cached, hook, written, batch, reading, issued, boot>>
    BY <1>12 DEF TakeChange, TakeReset, TakeSnapshot, Broadcast
  <2>2. Delivery'
    BY <1>0, <1>12, ChangeTaken, ResetTaken, SnapshotTaken
  <2> QED BY <1>0, <1>1, <1>2, <1>3, <1>6, <1>12, <2>1, <2>2, TakenTyped
<1>13. ASSUME UNCHANGED <<store, batch, sending, copyVars>>, HooksTyped',
              cached' \in Nat \union {None}, reading' \in Nat \union {None},
              issued' = issued, boot' = boot
       PROVE  TimelineInv' /\ Covered
  <2>1. DeliveryTypes'
    BY <1>0, <1>13 DEF DeliveryTypes, copyVars
  <2> QED BY <1>0, <1>1, <1>2, <1>3, <1>13, <2>1, DeliveryFrame
<1>14. CASE ReadSnapshot
  BY <1>0, <1>2, <1>6, <1>13, <1>14 DEF ReadSnapshot
<1>15. CASE RememberSnapshot
  BY <1>2, <1>6, <1>13, <1>15 DEF RememberSnapshot
<1>16. ASSUME NEW a \in Approvals, LoadForPending(a) \/ LoadForDecision(a)
       PROVE  TimelineInv' /\ Covered
  <2>1. /\ \E stage \in {"loaded", "reloaded"} :
             hook' = [hook EXCEPT ![a] = [stage |-> stage,
                                          seen |-> store.items]]
        /\ UNCHANGED <<store, cached, written, batch, reading, sending, issued,
                       boot, copyVars>>
    BY <1>16 DEF LoadForPending, LoadForDecision, LoadTimeline
  <2>2. HooksTyped'
    BY <1>0, <2>1, HookMoves
  <2> QED BY <1>2, <1>13, <2>1, <2>2
<1>17. ASSUME NEW a \in Approvals, NEW status \in {"pending", "resolved"},
              NEW stage \in {"pending", "done"}, Apply(a, status),
              hook' = [hook EXCEPT ![a] = [stage |-> stage, seen |-> {}]],
              UNCHANGED <<batch, reading, boot, copyVars>>
       PROVE  TimelineInv' /\ Covered
  <2> DEFINE items == Upsert(hook[a].seen, Item(a, status))
  <2>1. hook[a].seen \in TimelineItems /\ Item(a, status) \in Items
    BY <1>0 DEF TypeOK, LoadsAreTimelines, TimelineItems, Items
  <2>2. items \in TimelineItems
    BY <2>1, UpsertIs
  <2>3. /\ Replace(items) /\ Announce(<<a, status>>, items)
        /\ written' = [written EXCEPT ![a] = status]
    BY <1>17 DEF Apply
  <2>4. <<a, status>> \in Writers
    BY DEF Writers
  <2> HIDE DEF items
  <2>5. Delivery'
    BY <1>0, <1>17, <2>2, <2>3, <2>4, AnnouncedWrite
  <2>6. DeliveryTypes'
    <3>1. sending' \subseteq Messages
      BY <1>0, <2>2, <2>3, <2>4, DiffTyped DEF Announce, Diff, DeliveryTypes
    <3> QED BY <1>0, <1>4, <1>17, <2>2, <2>3, <3>1 DEF DeliveryTypes, copyVars
  <2>7. HooksTyped'
    BY <1>0, <1>17, <2>3, HookMoves
  <2> QED BY <1>1, <1>2, <1>4, <1>17, <2>2, <2>3, <2>5, <2>6, <2>7
<1>18. ASSUME NEW a \in Approvals, ApplyPending(a)
       PROVE  TimelineInv' /\ Covered
  BY <1>17, <1>18 DEF ApplyPending
<1>19. ASSUME NEW a \in Approvals, ApplyDecision(a)
       PROVE  TimelineInv' /\ Covered
  <2>1. CASE a \in Ids(hook[a].seen)
    BY <1>17, <1>19, <2>1 DEF ApplyDecision
  <2>2. CASE a \notin Ids(hook[a].seen)
    <3>1. HooksTyped'
      BY <1>0, <1>19, <2>2, HookMoves DEF ApplyDecision
    <3> QED BY <1>2, <1>13, <1>19, <2>2, <3>1 DEF ApplyDecision
  <2> QED BY <2>1, <2>2
<1>20. CASE Restart
  <2>1. /\ store' = store /\ replica' = store /\ sending' = {} /\ missed' = 0
        /\ held' = [snapshot |-> store.rev, change |-> store.rev]
        /\ cached' = None /\ reading' = None /\ issued' = 0
        /\ boot' \in 1..MaxBoots /\ batch' = [m \in Mergers |-> Live]
    BY <1>0, <1>20, BoundAssumption DEF Restart, TypeOK
  <2>2. HooksTyped'
    BY <1>0, <1>20 DEF Restart, HooksTyped, LoadsAreTimelines, Unique
  <2>3. DeliveryTypes'
    BY <1>0, <2>1 DEF DeliveryTypes, Live, Empty, Timeline
  <2>4. \A m \in Mergers : batch'[m].stage = "live"
    BY <2>1 DEF Live
  <2>5. (\E past \in Past : past[store.rev] = store.items)'
    BY <1>0, <2>1 DEF Delivery, Account
  <2>6. Delivery'
    <3>1. (store.rev = 0 => store.items = {})'
      BY <1>0, <2>1 DEF Delivery, NothingYet
    <3>2. (store \in Timeline)' /\ (replica = store)'
          /\ (held = [snapshot |-> store.rev, change |-> store.rev])'
      BY <1>0, <2>1 DEF DeliveryTypes
    <3>3. Fresh'
      BY <2>1, <2>4, <2>5, <3>1, <3>2 DEF Fresh
    <3> QED BY <3>3, FreshCopy, PTL
  <2> QED BY <1>1, <1>3, <2>1, <2>2, <2>3, <2>6
<1>21. CASE UNCHANGED vars
  BY <1>2, <1>6, <1>13, <1>21 DEF vars
<1> QED
  BY <1>7, <1>8, <1>9, <1>10, <1>11, <1>12, <1>14, <1>15, <1>16, <1>18, <1>19,
     <1>20, <1>21 DEF Next

\* The state has its types, no list holds an item twice, and every stored
\* change is in the copy, on its way, in a snapshot to come, or accounted
\* missed.
THEOREM TimelineInvariant == Spec => []TimelineInv
<1>1. TimelineInv /\ [Next]_vars => TimelineInv'
  BY StepKeeps
<1> QED
  BY <1>1, InitInv, PTL DEF Spec

\* Types, with one row for each item.
THEOREM TypeInvariant == Spec => []TypeOK
<1>1. TimelineInv => TypeOK
  BY DEF TimelineInv
<1> QED
  BY <1>1, TimelineInvariant, PTL

\* When nothing is on its way, a client that no message of another writer
\* overtook holds exactly the stored timeline.
THEOREM RevisionOrderIsWriteOrder == Spec => []ReplicaFollowsStore
<1>1. TimelineInv => ReplicaFollowsStore
  BY FollowsFromDelivery
<1> QED
  BY <1>1, TimelineInvariant, PTL

\* The stored revision never goes back, and every change moves it on.
THEOREM ChangesAreCovered == Spec => RevisionCoversChange
<1>1. TimelineInv /\ [Next]_vars => [Covered]_vars
  BY StepKeeps
<1> QED
  BY <1>1, TimelineInvariant, PTL DEF Spec, RevisionCoversChange, Covered

\* What a step of one of the parts does to the timeline.
LEMMA TimelineSteps == ASSUME [ChatNext]_chatVars PROVE [Next]_vars
BY DEF ChatNext, TimelineStep, HandlersStep, RestartsStep, TranscriptStep,
       chatVars

LEMMA TimelineRuns == ChatSpec => Spec
<1>1. ChatInit => Init
  BY DEF ChatInit
<1>2. [ChatNext]_chatVars => [Next]_vars
  BY TimelineSteps
<1> QED
  BY <1>1, <1>2, PTL DEF ChatSpec, Spec

\* The same of the chat with all its parts.
THEOREM CopiesFollowTheStore ==
  ChatSpec => []ReplicaFollowsStore /\ RevisionCoversChange
BY TimelineRuns, RevisionOrderIsWriteOrder, ChangesAreCovered, PTL

-----------------------------------------------------------------------------
(* The handlers and the restarts are pipelines, and keep their invariant.  *)

HP == INSTANCE PipelinesProofs WITH
  flagged <- hFlagged, open <- hOpen, structured <- hStructured,
  entry <- hEntry, prompt <- hPrompt, pipes <- hPipes, watchers <- hWatchers,
  readers <- hReaders, thread <- hThread, cleared <- hCleared,
  overlapped <- hOverlapped, late <- hLate

RP == INSTANCE PipelinesProofs WITH
  Conns <- RestartConns, Requests <- RestartRequests,
  MaxPipes <- RestartPipes, flagged <- rFlagged,
  open <- rOpen, structured <- rStructured, entry <- rEntry,
  prompt <- rPrompt, pipes <- rPipes, watchers <- rWatchers,
  readers <- rReaders, thread <- rThread, cleared <- rCleared,
  overlapped <- rOverlapped, late <- rLate

LEMMA HandlersApart == HP!ThreadsAreApart
BY ConnectionsAssumption DEF HP!ThreadsAreApart

LEMMA HandlersInit == ASSUME H!Init PROVE HP!PipelinesInv
<1>1. HP!Init
  BY
     DEF H!Init, H!Threads, H!Rest, H!NoPrompt, HP!Init,
         HP!Threads, HP!Rest, HP!NoPrompt
<1> QED
  BY <1>1, HP!StartIs

LEMMA HandlersNext ==
  ASSUME HP!PipelinesInv, H!Next
  PROVE  HP!PipelinesInv'
<1>1. HP!Next
  BY
     DEF H!NoPrompt, HP!NoPrompt,
         H!Next, H!Ensure, H!Insert, H!StopStep, H!BeginSessionPrompt,
         H!HandlerStep, H!Disconnect, H!Observe, H!Close, H!Take,
         H!WatcherStep, H!Deliver, H!MergeProvider, H!EndReader, H!Threads,
         H!Rest, H!At, H!Pipe, H!GoTo, H!Watcher, H!Downgraded, H!InFlight,
         H!Others, H!Return, H!Stop, H!HaltReader, H!AwaitReader,
         H!HaltWatcher, H!AwaitWatcher, H!End, H!GetPipeline, H!Seed,
         H!AwaitOld, H!Watch, H!StartWatcher, H!Bubble, H!Write, H!Enter,
         H!Quit, H!Bind, H!SetReader, H!StartReader, H!Fail, H!EndWatcher,
         H!Passes, H!session, H!objects, H!ghosts, HP!Next, HP!Ensure,
         HP!Insert, HP!StopStep, HP!BeginSessionPrompt, HP!HandlerStep,
         HP!Disconnect, HP!Observe, HP!Close, HP!Take, HP!WatcherStep,
         HP!Deliver, HP!MergeProvider, HP!EndReader, HP!Threads, HP!Rest,
         HP!At, HP!Pipe, HP!GoTo, HP!Watcher, HP!Downgraded, HP!InFlight,
         HP!Others, HP!Return, HP!Stop, HP!HaltReader, HP!AwaitReader,
         HP!HaltWatcher, HP!AwaitWatcher, HP!End, HP!GetPipeline, HP!Seed,
         HP!AwaitOld, HP!Watch, HP!StartWatcher, HP!Bubble, HP!Write, HP!Enter,
         HP!Quit, HP!Bind, HP!SetReader, HP!StartReader, HP!Fail,
         HP!EndWatcher, HP!Passes, HP!session, HP!objects, HP!ghosts
<1> QED
  BY <1>1, HandlersApart, HP!NextKeeps

LEMMA HandlersStay ==
  ASSUME HP!PipelinesInv, UNCHANGED hVars
  PROVE  HP!PipelinesInv'
<1>1. UNCHANGED HP!vars
  BY DEF hVars, HP!vars, HP!session, HP!objects, HP!ghosts
<1> QED
  BY <1>1, HP!StutterKeeps

LEMMA RestartsApart == RP!ThreadsAreApart
BY ConnectionsAssumption DEF RP!ThreadsAreApart

LEMMA RestartsInit == ASSUME R!Init PROVE RP!PipelinesInv
<1>1. RP!Init
  BY
     DEF R!Init, R!Threads, R!Rest, R!NoPrompt, RP!Init,
         RP!Threads, RP!Rest, RP!NoPrompt
<1> QED
  BY <1>1, RP!StartIs

LEMMA RestartsNext ==
  ASSUME RP!PipelinesInv, R!Next
  PROVE  RP!PipelinesInv'
<1>1. RP!Next
  BY
     DEF R!NoPrompt, RP!NoPrompt,
         R!Next, R!Ensure, R!Insert, R!StopStep, R!BeginSessionPrompt,
         R!HandlerStep, R!Disconnect, R!Observe, R!Close, R!Take,
         R!WatcherStep, R!Deliver, R!MergeProvider, R!EndReader, R!Threads,
         R!Rest, R!At, R!Pipe, R!GoTo, R!Watcher, R!Downgraded, R!InFlight,
         R!Others, R!Return, R!Stop, R!HaltReader, R!AwaitReader,
         R!HaltWatcher, R!AwaitWatcher, R!End, R!GetPipeline, R!Seed,
         R!AwaitOld, R!Watch, R!StartWatcher, R!Bubble, R!Write, R!Enter,
         R!Quit, R!Bind, R!SetReader, R!StartReader, R!Fail, R!EndWatcher,
         R!Passes, R!session, R!objects, R!ghosts, RP!Next, RP!Ensure,
         RP!Insert, RP!StopStep, RP!BeginSessionPrompt, RP!HandlerStep,
         RP!Disconnect, RP!Observe, RP!Close, RP!Take, RP!WatcherStep,
         RP!Deliver, RP!MergeProvider, RP!EndReader, RP!Threads, RP!Rest,
         RP!At, RP!Pipe, RP!GoTo, RP!Watcher, RP!Downgraded, RP!InFlight,
         RP!Others, RP!Return, RP!Stop, RP!HaltReader, RP!AwaitReader,
         RP!HaltWatcher, RP!AwaitWatcher, RP!End, RP!GetPipeline, RP!Seed,
         RP!AwaitOld, RP!Watch, RP!StartWatcher, RP!Bubble, RP!Write, RP!Enter,
         RP!Quit, RP!Bind, RP!SetReader, RP!StartReader, RP!Fail,
         RP!EndWatcher, RP!Passes, RP!session, RP!objects, RP!ghosts
<1> QED
  BY <1>1, RestartsApart, RP!NextKeeps

LEMMA RestartsStay ==
  ASSUME RP!PipelinesInv, UNCHANGED rVars
  PROVE  RP!PipelinesInv'
<1>1. UNCHANGED RP!vars
  BY DEF rVars, RP!vars, RP!session, RP!objects, RP!ghosts
<1> QED
  BY <1>1, RP!StutterKeeps

\* Both keep the invariant of PipelinesProofs, in every behaviour.
PipelinesInv == HP!PipelinesInv /\ RP!PipelinesInv

THEOREM PipelinesInvariant == ChatSpec => []PipelinesInv
<1>1. ChatInit => PipelinesInv
  BY HandlersInit, RestartsInit DEF ChatInit, PipelinesInv
<1>2. PipelinesInv /\ [ChatNext]_chatVars => PipelinesInv'
  BY HandlersNext, HandlersStay, RestartsNext, RestartsStay
     DEF ChatNext, TimelineStep, HandlersStep, RestartsStep, TranscriptStep,
         chatVars, PipelinesInv
<1> QED
  BY <1>1, <1>2, PTL DEF ChatSpec

\* Prompts of a session overlap only when the record of one was removed.
THEOREM PromptsComeOneAtATime == ChatSpec => []OnePromptAtATime
<1>1. PipelinesInv => OnePromptAtATime
  <2>1. PipelinesInv => HP!OnePromptAtATime /\ RP!OnePromptAtATime
    BY HP!OnePromptFollows, RP!OnePromptFollows DEF PipelinesInv
  <2> QED
    BY <2>1 DEF OnePromptAtATime, H!OnePromptAtATime, HP!OnePromptAtATime,
                R!OnePromptAtATime, RP!OnePromptAtATime, H!InFlight,
                HP!InFlight, R!InFlight, RP!InFlight
<1> QED
  BY <1>1, PipelinesInvariant, PTL

\* While they do not, a reader bound before Stop is quiet once it returned.
THEOREM StoppedReadersStayQuiet == ChatSpec => []StoppedReadersAreQuiet
<1>1. PipelinesInv => StoppedReadersAreQuiet
  <2>1. PipelinesInv => /\ HP!StoppedReadersAreQuiet
                        /\ RP!StoppedReadersAreQuiet
    BY HP!QuietFollows, RP!QuietFollows DEF PipelinesInv
  <2> QED
    BY <2>1 DEF StoppedReadersAreQuiet, H!StoppedReadersAreQuiet,
                HP!StoppedReadersAreQuiet, R!StoppedReadersAreQuiet,
                RP!StoppedReadersAreQuiet
<1> QED
  BY <1>1, PipelinesInvariant, PTL

-----------------------------------------------------------------------------
(* The transcript.  Sequences of items, and how a step edits them.         *)

\* At place i there is x now, which has the id of what it took the place of.
Edit(old, new, i, x) ==
  /\ DOMAIN new = DOMAIN old \cup {i} /\ new[i] = x
  /\ \A j \in DOMAIN old : j # i => new[j] = old[j]
  /\ i \in DOMAIN old => old[i].id = x.id

\* Each way to change a list of items is an Edit: one place is set, which
\* may be the first after the end.
LEMMA AppendEdits ==
  ASSUME NEW S, NEW old \in Seq(S), NEW x \in S
  PROVE  /\ Append(old, x) \in Seq(S) /\ Len(old) + 1 \notin DOMAIN old
         /\ Edit(old, Append(old, x), Len(old) + 1, x)
BY DEF Edit

LEMMA ExceptEdits ==
  ASSUME NEW S, NEW old \in Seq(S), NEW i \in DOMAIN old, NEW x \in S,
         old[i].id = x.id
  PROVE  /\ [old EXCEPT ![i] = x] \in Seq(S)
         /\ Edit(old, [old EXCEPT ![i] = x], i, x)
<1> DEFINE new == [old EXCEPT ![i] = x]
<1>1. /\ DOMAIN new = DOMAIN old /\ new[i] = x
      /\ \A j \in DOMAIN old : j # i => new[j] = old[j]
  OBVIOUS
<1>2. \A j \in DOMAIN old : new[j] \in S
  OBVIOUS
<1>3. DOMAIN old = 1..Len(old) /\ Len(old) \in Nat
  OBVIOUS
<1>4. new \in [1..Len(old) -> S]
  BY <1>2, <1>3
<1> HIDE DEF new
<1>5. new \in Seq(S)
  BY <1>3, <1>4
<1>6. DOMAIN old \cup {i} = DOMAIN old
  OBVIOUS
<1> QED
  BY <1>1, <1>5, <1>6 DEF Edit, new

LEMMA AddOrReplaceEdits ==
  ASSUME NEW items \in Seq(T!Item), NEW x \in T!Item,
         NEW new, new = T!AddOrReplace(items, x)
  PROVE  /\ new \in Seq(T!Item)
         /\ \E i \in DOMAIN new : /\ Edit(items, new, i, x)
                                  /\ i \in 1..(Len(items) + 1)
<1> DEFINE M == {i \in DOMAIN items : items[i].id = x.id}
<1>1. CASE M = {}
  <2>1. new = Append(items, x)
    BY <1>1 DEF T!AddOrReplace
  <2> QED
    BY <2>1, AppendEdits
<1>2. CASE M # {}
  <2>0. M \in SUBSET Nat
    OBVIOUS
  <2>1. PICK m \in M : \A k \in M : m <= k
    BY <1>2, <2>0, LeastExists, Zenon
  <2>2. \A j \in 1..(m - 1) : items[j].id # x.id
    BY <2>1
  <2>3. PICK i \in DOMAIN items : /\ items[i].id = x.id
                                  /\ new = [items EXCEPT ![i] = x]
    BY <1>2, <2>1, <2>2 DEF T!AddOrReplace
  <2>4. /\ [items EXCEPT ![i] = x] \in Seq(T!Item)
        /\ Edit(items, [items EXCEPT ![i] = x], i, x)
    BY <2>3, ExceptEdits
  <2> QED
    <3>1. i \in DOMAIN new /\ i \in 1..(Len(items) + 1)
      BY <2>3
    <3> QED
      BY <2>3, <2>4, <3>1
<1> QED
  BY <1>1, <1>2

LEMMA ConcatIs ==
  ASSUME NEW S, NEW a \in Seq(S), NEW c \in Seq(S), NEW new, new = a \o c
  PROVE  /\ new \in Seq(S) /\ Len(new) = Len(a) + Len(c)
         /\ \A j \in DOMAIN new :
              new[j] = IF j <= Len(a) THEN a[j] ELSE c[j - Len(a)]
OBVIOUS

\* Without the item at one place, those after it move up.
LEMMA RemoveIs ==
  ASSUME NEW S, NEW old \in Seq(S), NEW i \in DOMAIN old,
         NEW new, new = T!RemoveAt(old, i)
  PROVE  /\ new \in Seq(S) /\ Len(new) = Len(old) - 1
         /\ \A j \in DOMAIN new : new[j] = old[IF j < i THEN j ELSE j + 1]
<1>1. /\ SubSeq(old, 1, i - 1) \in Seq(S)
      /\ SubSeq(old, i + 1, Len(old)) \in Seq(S)
      /\ Len(SubSeq(old, 1, i - 1)) = i - 1
      /\ Len(SubSeq(old, i + 1, Len(old))) = Len(old) - i
  OBVIOUS
<1>2. /\ \A j \in 1..(i - 1) : SubSeq(old, 1, i - 1)[j] = old[j]
      /\ \A j \in 1..(Len(old) - i) :
           SubSeq(old, i + 1, Len(old))[j] = old[i + j]
  OBVIOUS
<1> DEFINE a == SubSeq(old, 1, i - 1)
           c == SubSeq(old, i + 1, Len(old))
<1>3. new = a \o c
  BY DEF T!RemoveAt
<1> HIDE DEF a, c
<1>4. a \in Seq(S) /\ c \in Seq(S) /\ Len(a) = i - 1 /\ Len(c) = Len(old) - i
  BY <1>1 DEF a, c
<1>5. /\ new \in Seq(S) /\ Len(new) = Len(a) + Len(c)
      /\ \A j \in DOMAIN new :
           new[j] = IF j <= Len(a) THEN a[j] ELSE c[j - Len(a)]
  BY <1>3, <1>4, ConcatIs
<1>6. ASSUME NEW j \in DOMAIN new
      PROVE  new[j] = old[IF j < i THEN j ELSE j + 1]
  <2>1. j \in 1..(Len(old) - 1) /\ i \in 1..Len(old) /\ Len(old) \in Nat
    BY <1>4, <1>5
  <2>2. CASE j < i
    <3>1. a[j] = old[j]
      BY <1>2, <2>1, <2>2 DEF a
    <3>2. j <= Len(a)
      BY <1>4, <2>1, <2>2
    <3> QED
      BY <1>5, <2>2, <3>1, <3>2
  <2>3. CASE ~(j < i)
    <3>1. j - Len(a) \in 1..(Len(old) - i) /\ ~(j <= Len(a))
      BY <1>4, <2>1, <2>3
    <3>2. c[j - Len(a)] = old[i + (j - Len(a))]
      BY <1>2, <3>1 DEF c
    <3>3. i + (j - Len(a)) = j + 1
      BY <1>4, <2>1
    <3> QED
      BY <1>5, <2>3, <3>1, <3>2, <3>3
  <2> QED
    BY <2>2, <2>3
<1>7. Len(new) = Len(old) - 1
  BY <1>4, <1>5
<1> QED
  BY <1>5, <1>6, <1>7

-----------------------------------------------------------------------------
(* The parsers.                                                            *)

Kind(n) == tEvents[n].kind
CallOf(n) == tEvents[n].call

EventType == [kind : T!Kinds, echo : BOOLEAN, call : 0..MaxEvents]

EventsTyped == tEvents \in Seq(EventType) /\ Len(tEvents) <= MaxEvents

\* What the agent writes: echoes are messages, a result is of an earlier
\* call, and only a result is of a call.
EchoesAreMessages ==
  \A n \in DOMAIN tEvents : tEvents[n].echo => Kind(n) = "message"

ResultsHaveCalls ==
  \A n \in DOMAIN tEvents :
    Kind(n) = "result" => /\ CallOf(n) \in DOMAIN tEvents
                          /\ Kind(CallOf(n)) = "call"

OthersHaveNone ==
  \A n \in DOMAIN tEvents : Kind(n) # "result" => CallOf(n) = 0

EventsInv ==
  /\ EventsTyped /\ EchoesAreMessages /\ ResultsHaveCalls /\ OthersHaveNone

LEMMA EventIs ==
  ASSUME EventsInv, NEW n \in DOMAIN tEvents
  PROVE  /\ n \in 1..MaxEvents /\ n \in 1..Len(tEvents)
         /\ Kind(n) \in T!Kinds /\ tEvents[n].echo \in BOOLEAN
         /\ CallOf(n) \in 0..MaxEvents
<1>1. /\ tEvents \in Seq(EventType)
      /\ Len(tEvents) <= MaxEvents /\ MaxEvents \in Nat
  BY LimitsAssumption DEF EventsInv, EventsTyped
<1>2. tEvents[n] \in EventType
  BY <1>1
<1>3. n \in 1..Len(tEvents) /\ Len(tEvents) \in Nat
  BY <1>1
<1> QED
  BY <1>1, <1>2, <1>3 DEF Kind, CallOf, EventType

Tools == UNION {[D -> Nat \ {0}] : D \in SUBSET (1..MaxEvents)}
Seeds == [prompt : 0..MaxPrompts, from : Nat, after : Nat]
Parsers == [items : Seq(T!Item), tools : Tools, seed : Seeds,
            started : BOOLEAN]

\* What a parser makes of a line: nothing, the echo of the seeded prompt, an
\* item of its own, a call it remembers, or the result of a call.
Skips(p, n, q) == q = p /\ tProvider = "codex" /\ Kind(n) = "message"

EchoItem(p, n) == [id |-> -p.seed.prompt, of |-> n, result |-> 0]
OwnItem(n) == [id |-> n, of |-> n, result |-> 0]

Echoes(p, n, q) ==
  /\ p.seed # T!NoSeed /\ Kind(n) = "message"
  /\ q.seed = T!NoSeed /\ q.tools = p.tools
  /\ \E i \in 1..(Len(p.items) + 1) :
       Edit(p.items, q.items, i, EchoItem(p, n))

Adds(p, n, q) ==
  /\ q.seed = p.seed /\ q.tools = p.tools
  /\ \E i \in 1..(Len(p.items) + 1) :
       /\ Edit(p.items, q.items, i, OwnItem(n))
       /\ \/ i = Len(p.items) + 1 /\ Kind(n) = "task"
          \/ Kind(n) = "message"

Calls(p, n, q) ==
  /\ q.seed = p.seed /\ Kind(n) = "call"
  /\ DOMAIN q.tools = DOMAIN p.tools \cup {n}
  /\ \A c \in DOMAIN q.tools :
       q.tools[c] = IF c = n THEN Len(p.items) + 1 ELSE p.tools[c]
  /\ Edit(p.items, q.items, Len(p.items) + 1, OwnItem(n))

Results(p, n, q) ==
  /\ q.seed = p.seed /\ q.tools = p.tools /\ Kind(n) = "result"
  /\ \E i \in 1..(Len(p.items) + 1) :
       \/ /\ CallOf(n) \in DOMAIN p.tools /\ i = p.tools[CallOf(n)]
          /\ i \in DOMAIN p.items
          /\ Edit(p.items, q.items, i, [p.items[i] EXCEPT !.result = n])
       \/ /\ i = Len(p.items) + 1
          /\ Edit(p.items, q.items, i,
                  [id |-> CallOf(n), of |-> n, result |-> n])

\* Each case of ParseEvent is one of these.
LEMMA MessageIs ==
  ASSUME EventsInv, NEW p \in Parsers, NEW n \in DOMAIN tEvents,
         Kind(n) = "message", NEW q, q = T!Message(p, n)
  PROVE  /\ q \in Parsers
         /\ Skips(p, n, q) \/ Echoes(p, n, q) \/ Adds(p, n, q)
<1>0. /\ n \in 1..MaxEvents /\ p.items \in Seq(T!Item) /\ p.tools \in Tools
      /\ p.seed \in Seeds /\ p.started \in BOOLEAN
      /\ OwnItem(n) \in T!Item /\ EchoItem(p, n) \in T!Item
  BY EventIs, LimitsAssumption DEF Parsers, Seeds, T!Item, OwnItem, EchoItem
<1>1. CASE p.seed # T!NoSeed /\ tEvents[n].echo
  <2> DEFINE new == T!AddOrReplace(p.items, EchoItem(p, n))
  <2>1. q = [p EXCEPT !.seed = T!NoSeed, !.items = new]
    BY <1>1 DEF T!Message, EchoItem
  <2>2. /\ new \in Seq(T!Item)
        /\ \E i \in DOMAIN new : /\ Edit(p.items, new, i, EchoItem(p, n))
                                 /\ i \in 1..(Len(p.items) + 1)
    BY <1>0, AddOrReplaceEdits
  <2> HIDE DEF new
  <2>3. T!NoSeed \in Seeds
    BY LimitsAssumption DEF T!NoSeed, Seeds
  <2>4. /\ q \in Parsers /\ q.seed = T!NoSeed /\ q.tools = p.tools
        /\ q.items = new
    BY <2>1, <2>2, <2>3 DEF Parsers
  <2> QED
    BY <1>1, <2>2, <2>4 DEF Echoes
<1>2. CASE /\ ~(p.seed # T!NoSeed /\ tEvents[n].echo)
           /\ tProvider = "codex" /\ ~p.started
  BY <1>2 DEF T!Message, Skips
<1>3. CASE /\ ~(p.seed # T!NoSeed /\ tEvents[n].echo)
           /\ ~(tProvider = "codex" /\ ~p.started)
  <2> DEFINE new == T!AddOrReplace(p.items, OwnItem(n))
  <2>1. q = [p EXCEPT !.items = new]
    BY <1>3 DEF T!Message, OwnItem
  <2>2. /\ new \in Seq(T!Item)
        /\ \E i \in DOMAIN new : /\ Edit(p.items, new, i, OwnItem(n))
                                 /\ i \in 1..(Len(p.items) + 1)
    BY <1>0, AddOrReplaceEdits
  <2> HIDE DEF new
  <2>3. /\ q \in Parsers /\ q.seed = p.seed /\ q.tools = p.tools
        /\ q.items = new
    BY <2>1, <2>2 DEF Parsers
  <2> QED
    BY <2>2, <2>3 DEF Adds
<1> QED
  BY <1>1, <1>2, <1>3

LEMMA ResultIs ==
  ASSUME EventsInv, NEW p \in Parsers, NEW n \in DOMAIN tEvents,
         Kind(n) = "result", NEW q, q = T!ToolResult(p, n)
  PROVE  q \in Parsers /\ Results(p, n, q)
<1> DEFINE c == CallOf(n)
           L == Len(p.items)
           x == [id |-> c, of |-> n, result |-> n]
<1>0. /\ n \in 1..MaxEvents /\ p.items \in Seq(T!Item) /\ p.tools \in Tools
      /\ c \in 0..MaxEvents /\ x \in T!Item /\ L \in Nat
  BY EventIs, LimitsAssumption DEF Parsers, T!Item
<1>1. CASE c \in DOMAIN p.tools /\ p.tools[c] <= L
  <2> DEFINE i == p.tools[c]
             y == [p.items[i] EXCEPT !.result = n]
  <2>1. i \in 1..L /\ i \in DOMAIN p.items
    BY <1>0, <1>1 DEF Tools
  <2>2. q = [p EXCEPT !.items = [p.items EXCEPT ![i] = y]]
    BY <1>1 DEF T!ToolResult, CallOf, Parsers
  <2>3. y \in T!Item /\ p.items[i].id = y.id
    <3>1. p.items[i] \in T!Item /\ n \in 0..MaxEvents
      BY <1>0, <2>1, LimitsAssumption
    <3> QED
      BY <3>1 DEF T!Item
  <2> HIDE DEF y
  <2> DEFINE new == [p.items EXCEPT ![i] = y]
  <2>4. new \in Seq(T!Item) /\ Edit(p.items, new, i, y)
    BY <1>0, <2>1, <2>3, ExceptEdits
  <2>5. q = [p EXCEPT !.items = new]
    BY <2>2
  <2> HIDE DEF new
  <2>6. /\ q \in Parsers /\ q.seed = p.seed /\ q.tools = p.tools
        /\ q.items = new
    BY <2>4, <2>5 DEF Parsers
  <2> QED
    BY <1>1, <2>1, <2>4, <2>6 DEF Results, y
<1>2. CASE ~(c \in DOMAIN p.tools /\ p.tools[c] <= L)
  <2> DEFINE new == Append(p.items, x)
  <2>1. q = [p EXCEPT !.items = new]
    BY <1>2 DEF T!ToolResult, CallOf
  <2>2. new \in Seq(T!Item) /\ Edit(p.items, new, L + 1, x)
    BY <1>0, AppendEdits
  <2> HIDE DEF new
  <2>3. /\ q \in Parsers /\ q.seed = p.seed /\ q.tools = p.tools
        /\ q.items = new
    BY <2>1, <2>2 DEF Parsers
  <2>4. L + 1 \in 1..(L + 1)
    BY <1>0
  <2> QED
    BY <2>2, <2>3, <2>4 DEF Results
<1> QED
  BY <1>1, <1>2

LEMMA ParseIs ==
  ASSUME EventsInv, NEW p \in Parsers, NEW n \in DOMAIN tEvents,
         NEW q, q = T!ParseEvent(p, n)
  PROVE  /\ q \in Parsers
         /\ \/ Skips(p, n, q) \/ Echoes(p, n, q) \/ Adds(p, n, q)
            \/ Calls(p, n, q) \/ Results(p, n, q)
<1>0. /\ n \in 1..MaxEvents /\ p.items \in Seq(T!Item) /\ p.tools \in Tools
      /\ OwnItem(n) \in T!Item /\ Len(p.items) \in Nat
      /\ Kind(n) \in {"message", "call", "result", "task"}
  BY EventIs, LimitsAssumption DEF Parsers, T!Item, OwnItem, T!Kinds
<1> DEFINE new == Append(p.items, OwnItem(n))
           L == Len(p.items)
<1>1. new \in Seq(T!Item) /\ Edit(p.items, new, L + 1, OwnItem(n))
      /\ Len(new) = L + 1
  BY <1>0, AppendEdits
<1>2. CASE Kind(n) = "message"
  <2>1. q = T!Message(p, n)
    BY <1>2 DEF T!ParseEvent, Kind
  <2> QED
    BY <1>2, <2>1, MessageIs
<1>3. CASE Kind(n) = "result"
  <2>1. q = T!ToolResult(p, n)
    BY <1>3 DEF T!ParseEvent, Kind
  <2> QED
    BY <1>3, <2>1, ResultIs
<1>4. CASE Kind(n) = "task"
  <2>1. q = [p EXCEPT !.items = new, !.started = TRUE]
    BY <1>4 DEF T!ParseEvent, Kind, OwnItem
  <2> HIDE DEF new
  <2>2. /\ q \in Parsers /\ q.seed = p.seed /\ q.tools = p.tools
        /\ q.items = new
    BY <1>1, <2>1 DEF Parsers
  <2>3. L + 1 \in 1..(L + 1)
    BY <1>0
  <2> QED
    BY <1>1, <1>4, <2>2, <2>3 DEF Adds
<1>5. CASE Kind(n) = "call"
  <2> DEFINE tools == [c \in DOMAIN p.tools \cup {n} |->
                         IF c = n THEN L + 1 ELSE p.tools[c]]
  <2>1. q = [p EXCEPT !.items = new, !.tools = tools]
    BY <1>1, <1>5 DEF T!ParseEvent, Kind, OwnItem
  <2>2. tools \in Tools
    <3>1. PICK D \in SUBSET (1..MaxEvents) : p.tools \in [D -> Nat \ {0}]
      BY <1>0 DEF Tools
    <3>2. tools \in [D \cup {n} -> Nat \ {0}]
      <4>1. L + 1 \in Nat \ {0} /\ DOMAIN p.tools = D
        BY <1>0, <3>1
      <4>2. \A c \in D : p.tools[c] \in Nat \ {0}
        BY <3>1
      <4> HIDE DEF L
      <4> QED
        BY <4>1, <4>2
    <3>3. D \cup {n} \in SUBSET (1..MaxEvents)
      BY <1>0
    <3> QED
      BY <3>2, <3>3 DEF Tools
  <2>3. /\ DOMAIN tools = DOMAIN p.tools \cup {n}
        /\ \A c \in DOMAIN tools : tools[c] = IF c = n THEN L + 1
                                                       ELSE p.tools[c]
    OBVIOUS
  <2> HIDE DEF new, tools
  <2>4. /\ q \in Parsers /\ q.seed = p.seed /\ q.tools = tools
        /\ q.items = new
    BY <1>1, <2>1, <2>2 DEF Parsers
  <2> QED
    BY <1>1, <1>5, <2>3, <2>4 DEF Calls
<1> QED
  BY <1>0, <1>2, <1>3, <1>4, <1>5

\* What holds of a parser: the pending seed is of a prompt that was made,
\* items are of lines and prompts begun.
SeedKnown(p) == p.seed # T!NoSeed => p.seed.prompt \in 1..tPrompts

ItemsKnown(p) ==
  \A i \in DOMAIN p.items :
    /\ p.items[i].id >= -tPrompts
    /\ p.items[i].of <= Len(tEvents) /\ p.items[i].result <= Len(tEvents)

\* A result is in the item of its call, and a remembered index is the place
\* of its call.
Landed(p) ==
  \A i \in DOMAIN p.items :
    \/ p.items[i].result = 0
    \/ CallOf(p.items[i].result) = p.items[i].id

Pointed(p) ==
  \A c \in DOMAIN p.tools :
    p.tools[c] \in DOMAIN p.items /\ p.items[p.tools[c]].id = c

\* The pending seed has one item, which shows no line unless the file was
\* rebuilt.
HasBubble(p) ==
  p.seed # T!NoSeed =>
    \E i \in DOMAIN p.items : p.items[i].id = -p.seed.prompt

OneBubble(p) ==
  p.seed # T!NoSeed =>
    \A i, j \in DOMAIN p.items :
      /\ p.items[i].id = -p.seed.prompt
      /\ p.items[j].id = -p.seed.prompt
      => i = j

EmptyBubble(p) ==
  p.seed # T!NoSeed =>
    \A i \in DOMAIN p.items :
      p.items[i].id = -p.seed.prompt => p.items[i].of = 0

\* An item that is no prompt's is named for its line, or for the call its
\* line is the result of.
IdsAreLines(p) ==
  \A i \in DOMAIN p.items :
    p.items[i].id > 0 =>
      \/ p.items[i].id = p.items[i].of
      \/ /\ p.items[i].of # 0 /\ Kind(p.items[i].of) = "result"
         /\ CallOf(p.items[i].of) = p.items[i].id

Known(p) == p \in Parsers /\ SeedKnown(p) /\ ItemsKnown(p)
Good(p) == Known(p) /\ HasBubble(p) /\ OneBubble(p)

LEMMA ItemFields ==
  ASSUME NEW items \in Seq(T!Item), NEW j \in DOMAIN items
  PROVE  /\ items[j].id \in Int /\ items[j].of \in Nat
         /\ items[j].result \in Nat /\ items[j] \in T!Item
<1>1. items[j] \in T!Item
  OBVIOUS
<1> QED
  BY <1>1, LimitsAssumption DEF T!Item

Parse(p, n, q) ==
  /\ EventsInv /\ Known(p) /\ n \in DOMAIN tEvents
  /\ q = T!ParseEvent(p, n) /\ tPrompts \in 0..MaxPrompts

\* What a parser does with one line, in the terms above.
LEMMA ParseFacts ==
  ASSUME NEW p, NEW n, NEW q, Parse(p, n, q)
  PROVE  /\ p \in Parsers /\ q \in Parsers /\ n \in DOMAIN tEvents
         /\ p.items \in Seq(T!Item) /\ q.items \in Seq(T!Item)
         /\ p.seed # T!NoSeed => p.seed.prompt \in Nat /\ p.seed.prompt # 0
         /\ n \in Nat /\ n # 0 /\ n <= Len(tEvents) /\ CallOf(n) \in Nat
         /\ tPrompts \in Nat /\ Len(p.items) \in Nat
         /\ \A j \in DOMAIN p.items : /\ p.items[j].id \in Int
                                      /\ p.items[j].of \in Nat
                                      /\ p.items[j].result \in Nat
<1>1. /\ EventsInv /\ p \in Parsers /\ n \in DOMAIN tEvents
      /\ q = T!ParseEvent(p, n) /\ tPrompts \in Nat /\ SeedKnown(p)
  BY LimitsAssumption DEF Parse, Known
<1>2. q \in Parsers
  BY <1>1, ParseIs
<1>3. p.items \in Seq(T!Item) /\ q.items \in Seq(T!Item)
  BY <1>1, <1>2 DEF Parsers
<1>4. n \in Nat /\ n # 0 /\ n <= Len(tEvents) /\ CallOf(n) \in Nat
  <2>1. /\ n \in 1..MaxEvents /\ n \in 1..Len(tEvents)
        /\ CallOf(n) \in 0..MaxEvents
    BY <1>1, EventIs
  <2>2. Len(tEvents) \in Nat
    BY <1>1 DEF EventsInv, EventsTyped
  <2> QED
    BY <2>1, <2>2, LimitsAssumption
<1>5. p.seed # T!NoSeed => p.seed.prompt \in Nat /\ p.seed.prompt # 0
  BY <1>1 DEF SeedKnown
<1> QED
  BY <1>1, <1>2, <1>3, <1>4, <1>5, ItemFields

LEMMA ParseCases ==
  ASSUME NEW p, NEW n, NEW q, Parse(p, n, q)
  PROVE  \/ Skips(p, n, q) \/ Echoes(p, n, q) \/ Adds(p, n, q)
         \/ Calls(p, n, q) \/ Results(p, n, q)
BY ParseIs DEF Parse, Known


\* The item x a line makes or changes, at place i.
Made(p, n, q, i, x) ==
  \/ /\ p.seed # T!NoSeed /\ q.seed = T!NoSeed /\ q.tools = p.tools
     /\ x.id = -p.seed.prompt /\ x.of = n /\ x.result = 0
     /\ Kind(n) = "message"
  \/ /\ q.seed = p.seed /\ x.id = n /\ x.of = n /\ x.result = 0
     /\ q.tools = p.tools /\ Kind(n) \in {"message", "task"}
     /\ i \in DOMAIN p.items => Kind(n) = "message"
  \/ /\ q.seed = p.seed /\ x.id = n /\ x.of = n /\ x.result = 0
     /\ i \notin DOMAIN p.items /\ Kind(n) = "call"
     /\ DOMAIN q.tools = DOMAIN p.tools \cup {n}
     /\ \A c \in DOMAIN q.tools : q.tools[c] = IF c = n THEN i
                                               ELSE p.tools[c]
  \/ /\ q.seed = p.seed /\ q.tools = p.tools /\ Kind(n) = "result"
     /\ CallOf(n) \in DOMAIN p.tools /\ i = p.tools[CallOf(n)]
     /\ i \in DOMAIN p.items /\ x.id = p.items[i].id
     /\ x.of = p.items[i].of /\ x.result = n
  \/ /\ q.seed = p.seed /\ q.tools = p.tools /\ Kind(n) = "result"
     /\ i \notin DOMAIN p.items
     /\ x.id = CallOf(n) /\ x.of = n /\ x.result = n

Placed(p, q, i, x) ==
  \A j \in DOMAIN q.items :
    \/ j = i /\ q.items[j] = x
    \/ j # i /\ j \in DOMAIN p.items /\ q.items[j] = p.items[j]

LEMMA ParseEdits ==
  ASSUME NEW p, NEW n, NEW q, Parse(p, n, q), ~Skips(p, n, q)
  PROVE  \E i \in 1..(Len(p.items) + 1) : \E x \in T!Item :
           /\ Edit(p.items, q.items, i, x) /\ Made(p, n, q, i, x)
           /\ Placed(p, q, i, x)
<1>1. ASSUME NEW i, NEW x, Edit(p.items, q.items, i, x)
      PROVE  Placed(p, q, i, x) /\ x \in T!Item
  <2>1. i \in DOMAIN q.items /\ q.items[i] = x
    BY <1>1 DEF Edit
  <2>2. x \in T!Item
    BY <2>1, ParseFacts, ItemFields
  <2> QED
    BY <1>1, <2>2 DEF Edit, Placed
<1>2. Len(p.items) \in Nat /\ DOMAIN p.items = 1..Len(p.items)
  BY ParseFacts
<1>3. CASE Echoes(p, n, q)
  <2>1. PICK i \in 1..(Len(p.items) + 1) :
          Edit(p.items, q.items, i, EchoItem(p, n))
    BY <1>3 DEF Echoes
  <2>2. Made(p, n, q, i, EchoItem(p, n))
    BY <1>3 DEF Echoes, EchoItem, Made
  <2> QED
    BY <1>1, <2>1, <2>2, Zenon
<1>4. CASE Adds(p, n, q)
  <2>1. PICK i \in 1..(Len(p.items) + 1) :
          /\ Edit(p.items, q.items, i, OwnItem(n))
          /\ \/ i = Len(p.items) + 1 /\ Kind(n) = "task"
             \/ Kind(n) = "message"
    BY <1>4 DEF Adds
  <2>2. i \in DOMAIN p.items => Kind(n) = "message"
    BY <1>2, <2>1
  <2>3. Made(p, n, q, i, OwnItem(n))
    BY <1>4, <2>1, <2>2 DEF Adds, OwnItem, Made
  <2> QED
    BY <1>1, <2>1, <2>3, Zenon
<1>5. CASE Calls(p, n, q)
  <2>1. /\ Len(p.items) + 1 \in 1..(Len(p.items) + 1)
        /\ Len(p.items) + 1 \notin DOMAIN p.items
    BY <1>2
  <2>2. Made(p, n, q, Len(p.items) + 1, OwnItem(n))
    BY <1>5, <2>1 DEF Calls, OwnItem, Made
  <2>3. Edit(p.items, q.items, Len(p.items) + 1, OwnItem(n))
    BY <1>5 DEF Calls
  <2> QED
    BY <1>1, <2>1, <2>2, <2>3, Zenon
<1>6. CASE Results(p, n, q)
  <2>1. PICK i \in 1..(Len(p.items) + 1) :
          \/ /\ CallOf(n) \in DOMAIN p.tools /\ i = p.tools[CallOf(n)]
             /\ i \in DOMAIN p.items
             /\ Edit(p.items, q.items, i, [p.items[i] EXCEPT !.result = n])
          \/ /\ i = Len(p.items) + 1
             /\ Edit(p.items, q.items, i,
                     [id |-> CallOf(n), of |-> n, result |-> n])
    BY <1>6, Zenon DEF Results
  <2>2. CASE /\ CallOf(n) \in DOMAIN p.tools /\ i = p.tools[CallOf(n)]
             /\ i \in DOMAIN p.items
             /\ Edit(p.items, q.items, i, [p.items[i] EXCEPT !.result = n])
    <3>1. p.items[i] \in T!Item
      BY <2>2, ParseFacts, ItemFields
    <3> DEFINE x == [p.items[i] EXCEPT !.result = n]
    <3>2. x.id = p.items[i].id /\ x.of = p.items[i].of /\ x.result = n
      BY <3>1 DEF T!Item
    <3> HIDE DEF x
    <3>3. Made(p, n, q, i, x)
      BY <1>6, <2>2, <3>2 DEF Results, Made
    <3>4. Edit(p.items, q.items, i, x)
      BY <2>2 DEF x
    <3> QED
      BY <1>1, <3>3, <3>4, Zenon
  <2>3. CASE /\ i = Len(p.items) + 1
             /\ Edit(p.items, q.items, i,
                     [id |-> CallOf(n), of |-> n, result |-> n])
    <3>1. i \notin DOMAIN p.items
      BY <1>2, <2>3
    <3> DEFINE x == [id |-> CallOf(n), of |-> n, result |-> n]
    <3>2. Made(p, n, q, i, x)
      BY <1>6, <3>1 DEF Results, Made
    <3> QED
      BY <1>1, <2>3, <3>2, Zenon
  <2> QED
    BY <2>1, <2>2, <2>3, Zenon
<1> QED
  BY <1>3, <1>4, <1>5, <1>6, ParseCases

LEMMA ParseKnown ==
  ASSUME NEW p, NEW n, NEW q, Parse(p, n, q)
  PROVE  Known(q)
<1>1. SeedKnown(p) /\ ItemsKnown(p) /\ CallOf(n) <= Len(tEvents)
  <2>1. CallOf(n) <= Len(tEvents)
    <3>1. CallOf(n) \in DOMAIN tEvents \/ CallOf(n) = 0
      BY DEF Parse, EventsInv, ResultsHaveCalls, OthersHaveNone
    <3>2. DOMAIN tEvents = 1..Len(tEvents) /\ Len(tEvents) \in Nat
      BY DEF Parse, EventsInv, EventsTyped
    <3> QED
      BY <3>1, <3>2
  <2> QED
    BY <2>1 DEF Parse, Known
<1>2. SeedKnown(q)
  BY <1>1, ParseCases
  DEF Skips, Echoes, Adds, Calls, Results, SeedKnown
<1>3. ItemsKnown(q)
  <2>1. CASE Skips(p, n, q)
    BY <1>1, <2>1 DEF Skips
  <2>2. CASE ~Skips(p, n, q)
    <3>1. PICK i \in 1..(Len(p.items) + 1), x \in T!Item :
            Made(p, n, q, i, x) /\ Placed(p, q, i, x)
      BY <2>2, ParseEdits
    <3>2. p.seed # T!NoSeed => -p.seed.prompt >= -tPrompts
      BY <1>1, ParseFacts DEF SeedKnown
    <3>3. /\ x.id >= -tPrompts /\ x.of <= Len(tEvents)
          /\ x.result <= Len(tEvents)
      <4>1. n >= -tPrompts /\ CallOf(n) >= -tPrompts /\ 0 <= Len(tEvents)
            /\ n <= Len(tEvents)
        BY ParseFacts
      <4>2. i \in DOMAIN p.items =>
              p.items[i].id >= -tPrompts /\ p.items[i].of <= Len(tEvents)
        BY <1>1 DEF ItemsKnown
      <4> QED
        BY <1>1, <3>1, <3>2, <4>1, <4>2, Zenon DEF Made
    <3> QED
      BY <1>1, <3>1, <3>3 DEF Placed, ItemsKnown
  <2> QED
    BY <2>1, <2>2
<1> QED
  BY <1>2, <1>3, ParseFacts DEF Known

\* A line that is parsed leaves results and indices at their calls.
LEMMA ParseLands ==
  ASSUME NEW p, NEW n, NEW q, Parse(p, n, q), Landed(p), Pointed(p)
  PROVE  Landed(q) /\ Pointed(q)
<1>1. CASE Skips(p, n, q)
  BY <1>1 DEF Skips
<1>2. CASE ~Skips(p, n, q)
  <2>1. PICK i \in 1..(Len(p.items) + 1), x \in T!Item :
          /\ Edit(p.items, q.items, i, x)
          /\ Made(p, n, q, i, x) /\ Placed(p, q, i, x)
    BY <1>2, ParseEdits
  <2>2. x.result = 0 \/ CallOf(x.result) = x.id
    BY <2>1, Zenon DEF Made, Pointed
  <2>3. Landed(q)
    BY <2>1, <2>2 DEF Placed, Landed
  <2>4. \A j \in DOMAIN p.items :
          j \in DOMAIN q.items /\ q.items[j].id = p.items[j].id
    BY <2>1 DEF Edit
  <2>5. \/ q.tools = p.tools
        \/ /\ DOMAIN q.tools = DOMAIN p.tools \cup {n} /\ x.id = n
           /\ \A c \in DOMAIN q.tools : q.tools[c] = IF c = n THEN i
                                                     ELSE p.tools[c]
    BY <2>1, Zenon DEF Made
  <2>6. i \in DOMAIN q.items /\ q.items[i].id = x.id
    BY <2>1 DEF Edit
  <2>7. Pointed(q)
    BY <2>4, <2>5, <2>6 DEF Pointed
  <2> QED
    BY <2>3, <2>7
<1> QED
  BY <1>1, <1>2

\* The item of a line is the bubble only where the bubble was.
LEMMA MadeBubble ==
  ASSUME NEW p, NEW n, NEW q, Parse(p, n, q), NEW i, NEW x,
         Made(p, n, q, i, x), q.seed # T!NoSeed
  PROVE  /\ q.seed = p.seed
         /\ x.id = -p.seed.prompt =>
              i \in DOMAIN p.items /\ x.of = p.items[i].of
<1>1. p.seed # T!NoSeed => p.seed.prompt \in Nat /\ p.seed.prompt # 0
  BY ParseFacts
<1>2. n \in Nat /\ CallOf(n) \in Nat
  BY ParseFacts
<1>3. p.seed # T!NoSeed => n # -p.seed.prompt /\ CallOf(n) # -p.seed.prompt
  BY <1>1, <1>2
<1> QED
  BY <1>3, Zenon DEF Made

\* The bubble of the pending seed stays the only one.
LEMMA ParseKeepsBubble ==
  ASSUME NEW p, NEW n, NEW q, Parse(p, n, q), HasBubble(p), OneBubble(p)
  PROVE  HasBubble(q) /\ OneBubble(q)
<1>1. CASE Skips(p, n, q)
  BY <1>1 DEF Skips
<1>2. CASE ~Skips(p, n, q)
  <2>1. PICK i \in 1..(Len(p.items) + 1), x \in T!Item :
          /\ Edit(p.items, q.items, i, x)
          /\ Made(p, n, q, i, x) /\ Placed(p, q, i, x)
    BY <1>2, ParseEdits
  <2> SUFFICES ASSUME q.seed # T!NoSeed PROVE HasBubble(q) /\ OneBubble(q)
    BY DEF HasBubble, OneBubble
  <2>2. q.seed = p.seed /\ (x.id = -p.seed.prompt => i \in DOMAIN p.items)
    BY <2>1, MadeBubble
  <2>3. \A j \in DOMAIN p.items :
          j \in DOMAIN q.items /\ q.items[j].id = p.items[j].id
    BY <2>1 DEF Edit
  <2>4. \A j \in DOMAIN q.items :
          q.items[j].id = -p.seed.prompt => j \in DOMAIN p.items
    BY <2>1, <2>2 DEF Placed
  <2>5. HasBubble(q)
    BY <2>2, <2>3 DEF HasBubble
  <2>6. OneBubble(q)
    BY <2>2, <2>3, <2>4 DEF OneBubble
  <2> QED
    BY <2>5, <2>6
<1> QED
  BY <1>1, <1>2

LEMMA ParseKeepsIds ==
  ASSUME NEW p, NEW n, NEW q, Parse(p, n, q), EmptyBubble(p), IdsAreLines(p)
  PROVE  EmptyBubble(q) /\ IdsAreLines(q)
<1>1. CASE Skips(p, n, q)
  BY <1>1 DEF Skips
<1>2. CASE ~Skips(p, n, q)
  <2>1. PICK i \in 1..(Len(p.items) + 1), x \in T!Item :
          /\ Edit(p.items, q.items, i, x)
          /\ Made(p, n, q, i, x) /\ Placed(p, q, i, x)
    BY <1>2, ParseEdits
  <2>2. x.id > 0 => \/ x.id = x.of
                    \/ /\ x.of # 0 /\ Kind(x.of) = "result"
                       /\ CallOf(x.of) = x.id
    <3>1. p.seed # T!NoSeed => ~(-p.seed.prompt > 0)
      BY ParseFacts
    <3>2. n # 0
      BY ParseFacts
    <3>3. i \in DOMAIN p.items =>
            (p.items[i].id > 0 =>
               \/ p.items[i].id = p.items[i].of
               \/ /\ p.items[i].of # 0 /\ Kind(p.items[i].of) = "result"
                  /\ CallOf(p.items[i].of) = p.items[i].id)
      BY DEF IdsAreLines
    <3> QED
      BY <2>1, <3>1, <3>2, <3>3 DEF Made
  <2>3. IdsAreLines(q)
    BY <2>1, <2>2 DEF Placed, IdsAreLines
  <2>4. ASSUME q.seed # T!NoSeed, NEW j \in DOMAIN q.items,
               q.items[j].id = -q.seed.prompt
        PROVE  q.items[j].of = 0
    <3>1. /\ q.seed = p.seed
          /\ x.id = -p.seed.prompt =>
               i \in DOMAIN p.items /\ x.of = p.items[i].of
      BY <2>1, <2>4, MadeBubble
    <3>2. i \in DOMAIN p.items => p.items[i].id = x.id
      BY <2>1 DEF Edit
    <3> QED
      BY <2>1, <2>4, <3>1, <3>2 DEF Placed, EmptyBubble
  <2>5. EmptyBubble(q)
    BY <2>4 DEF EmptyBubble
  <2> QED
    BY <2>3, <2>5
<1> QED
  BY <1>1, <1>2

\* Items are those of lines in L, one for each; only results, and with Codex
\* messages, have none of their own.
OfLines(items, L) == \A i \in DOMAIN items : items[i].of \in L \cup {0}

OnceEach(items) ==
  \A i, j \in DOMAIN items :
    items[i].of = items[j].of /\ items[i].of # 0 => i = j

AllShown(items, L) ==
  \A n \in L : \/ Kind(n) = "result"
               \/ tProvider = "codex" /\ Kind(n) = "message"
               \/ \E i \in DOMAIN items : items[i].of = n

\* A line that is parsed is shown once, beside those shown before.
LEMMA ParseShows ==
  ASSUME NEW p, NEW n, NEW q, Parse(p, n, q), EmptyBubble(p),
         IdsAreLines(p), NEW L, {0, n} \cap L = {}, OfLines(p.items, L),
         OnceEach(p.items)
  PROVE  /\ OfLines(q.items, L \cup {n}) /\ OnceEach(q.items)
         /\ AllShown(p.items, L) => AllShown(q.items, L \cup {n})
<1>0. \A j \in DOMAIN p.items : p.items[j].of # n
  BY ParseFacts DEF OfLines
<1>1. CASE Skips(p, n, q)
  BY <1>1 DEF Skips, OfLines, AllShown
<1>2. CASE ~Skips(p, n, q)
  <2>1. PICK i \in 1..(Len(p.items) + 1), x \in T!Item :
          /\ Edit(p.items, q.items, i, x)
          /\ Made(p, n, q, i, x) /\ Placed(p, q, i, x)
    BY <1>2, ParseEdits
  <2>2. /\ i \in DOMAIN p.items => p.items[i].id = x.id
        /\ i \in DOMAIN q.items /\ q.items[i] = x
    BY <2>1 DEF Edit
  <2>3. ASSUME i \in DOMAIN p.items, x.id = n, Kind(n) = "message"
        PROVE  FALSE
    <3>1. /\ p.items[i].id = n /\ n > 0 /\ p.items[i].of # n
          /\ p.items[i].of \in Nat
      BY <1>0, <2>2, <2>3, ParseFacts
    <3>2. /\ p.items[i].of # 0 /\ Kind(p.items[i].of) = "result"
          /\ CallOf(p.items[i].of) = n
      BY <2>3, <3>1 DEF IdsAreLines
    <3>3. p.items[i].of \in DOMAIN tEvents
      <4>1. p.items[i].of <= Len(tEvents)
        BY <2>3 DEF Parse, Known, ItemsKnown
      <4>2. DOMAIN tEvents = 1..Len(tEvents) /\ Len(tEvents) \in Nat
        BY DEF Parse, EventsInv, EventsTyped
      <4> QED
        BY <3>1, <3>2, <4>1, <4>2
    <3>4. Kind(n) = "call"
      BY <3>2, <3>3 DEF Parse, EventsInv, ResultsHaveCalls
    <3> QED
      BY <2>3, <3>4
  <2>4. \/ x.of = n /\ (i \in DOMAIN p.items => p.items[i].of = 0)
        \/ /\ i \in DOMAIN p.items /\ x.of = p.items[i].of
           /\ Kind(n) = "result"
    BY <2>1, <2>2, <2>3, Zenon DEF Made, EmptyBubble
  <2>5. OfLines(q.items, L \cup {n})
    BY <2>1, <2>4 DEF Placed, OfLines
  <2>6. OnceEach(q.items)
    BY <1>0, <2>1, <2>4 DEF Placed, OnceEach
  <2>7. ASSUME AllShown(p.items, L) PROVE AllShown(q.items, L \cup {n})
    <3>1. \/ Kind(n) = "result"
          \/ \E j \in DOMAIN q.items : q.items[j].of = n
      BY <2>2, <2>4
    <3>2. ASSUME NEW m \in L, NEW j \in DOMAIN p.items, p.items[j].of = m
          PROVE  \/ Kind(m) = "result"
                 \/ \E k \in DOMAIN q.items : q.items[k].of = m
      <4>1. j # i => j \in DOMAIN q.items /\ q.items[j] = p.items[j]
        BY <2>1 DEF Edit
      <4>2. CASE j # i
        BY <3>2, <4>1, <4>2
      <4>3. CASE j = i /\ m # 0
        BY <2>2, <2>4, <3>2, <4>3
      <4> QED
        BY <3>2, <4>2, <4>3
    <3> QED
      BY <2>7, <3>1, <3>2 DEF AllShown
  <2> QED
    BY <2>5, <2>6, <2>7
<1> QED
  BY <1>1, <1>2

-----------------------------------------------------------------------------
(* The Gemini parser: a whole file at once.                                *)

Increasing(lines) ==
  \A i, j \in DOMAIN lines : i < j => lines[i] < lines[j]

\* Of the first n lines, s has those that are no results, each once.
FromLines(s, lines, n) ==
  \A i \in DOMAIN s :
    \E k \in 1..n : s[i] = lines[k] /\ Kind(lines[k]) # "result"

AllLines(s, lines, n) ==
  \A k \in 1..n :
    Kind(lines[k]) # "result" => \E i \in DOMAIN s : s[i] = lines[k]

NoneTwice(s) == \A i, j \in DOMAIN s : s[i] = s[j] => i = j

Owns(s, lines, n) ==
  /\ s \in Seq(Nat) /\ FromLines(s, lines, n) /\ AllLines(s, lines, n)
  /\ NoneTwice(s)

LEMMA OwnsNext ==
  ASSUME NEW lines \in Seq(Nat), Increasing(lines), NEW n \in Nat,
         n + 1 <= Len(lines), NEW s, Owns(s, lines, n), NEW t,
         t = IF Kind(lines[n + 1]) = "result" THEN s
             ELSE Append(s, lines[n + 1])
  PROVE  Owns(t, lines, n + 1)
<1> DEFINE m == lines[n + 1]
<1>1. s \in Seq(Nat) /\ n + 1 \in DOMAIN lines /\ m \in Nat
  BY DEF Owns
<1>2. 1..(n + 1) = 1..n \cup {n + 1} /\ 1..n \subseteq DOMAIN lines
  OBVIOUS
<1>3. CASE Kind(m) = "result"
  <2>1. t = s
    BY <1>3
  <2>2. FromLines(s, lines, n + 1)
    BY <1>2 DEF Owns, FromLines
  <2>3. AllLines(s, lines, n + 1)
    BY <1>2, <1>3 DEF Owns, AllLines
  <2> QED
    BY <2>1, <2>2, <2>3 DEF Owns
<1>4. CASE Kind(m) # "result"
  <2>1. t = Append(s, m)
    BY <1>4
  <2>2. /\ t \in Seq(Nat) /\ DOMAIN t = DOMAIN s \cup {Len(s) + 1}
        /\ Len(s) + 1 \notin DOMAIN s /\ t[Len(s) + 1] = m
        /\ \A i \in DOMAIN s : t[i] = s[i]
    BY <1>1, <2>1
  <2>3. \A i \in DOMAIN s : s[i] # m
    <3> SUFFICES ASSUME NEW i \in DOMAIN s PROVE s[i] # m
      OBVIOUS
    <3>1. PICK k \in 1..n : s[i] = lines[k]
      BY DEF Owns, FromLines
    <3>2. k \in DOMAIN lines /\ k < n + 1 /\ lines[k] \in Nat
      BY <1>2, <3>1
    <3>3. lines[k] < m
      BY <1>1, <3>2 DEF Increasing
    <3> QED
      BY <1>1, <3>1, <3>2, <3>3
  <2> HIDE DEF m
  <2>4. FromLines(t, lines, n + 1)
    <3> SUFFICES ASSUME NEW i \in DOMAIN t
                 PROVE  \E k \in 1..(n + 1) :
                          t[i] = lines[k] /\ Kind(lines[k]) # "result"
      BY DEF FromLines
    <3>1. CASE i \in DOMAIN s
      BY <1>2, <2>2, <3>1 DEF Owns, FromLines
    <3>2. CASE i = Len(s) + 1
      BY <1>2, <1>4, <2>2, <3>2 DEF m
    <3> QED
      BY <2>2, <3>1, <3>2
  <2>5. AllLines(t, lines, n + 1)
    <3> SUFFICES ASSUME NEW k \in 1..(n + 1), Kind(lines[k]) # "result"
                 PROVE  \E i \in DOMAIN t : t[i] = lines[k]
      BY DEF AllLines
    <3>1. CASE k \in 1..n
      <4>1. PICK i \in DOMAIN s : s[i] = lines[k]
        BY <3>1 DEF Owns, AllLines
      <4> QED
        BY <2>2, <4>1
    <3>2. CASE k = n + 1
      BY <2>2, <3>2 DEF m
    <3> QED
      BY <1>2, <3>1, <3>2
  <2>6. NoneTwice(t)
    BY <2>2, <2>3 DEF Owns, NoneTwice
  <2> QED
    BY <2>2, <2>4, <2>5, <2>6 DEF Owns
<1> QED
  BY <1>3, <1>4

\* OwnLines, defined by recursion, has every line that is no result, once.
LEMMA OwnLinesAre ==
  ASSUME NEW lines \in Seq(Nat), Increasing(lines)
  PROVE  Owns(T!OwnLines(lines), lines, Len(lines))
<1> DEFINE N == Len(lines)
           Own(own) == own = [n \in 0..N |->
                                IF n = 0 THEN <<>>
                                ELSE IF tEvents[lines[n]].kind = "result"
                                     THEN own[n - 1]
                                ELSE Append(own[n - 1], lines[n])]
<1>1. T!OwnLines(lines) = (CHOOSE own : Own(own))[N]
  BY Zenon DEF T!OwnLines
<1>2. \E own : Own(own)
  <2> DEFINE zero == <<>>
             next == [a \in (1..N) \X Seq(Nat) |->
                        IF tEvents[lines[a[1]]].kind = "result" THEN a[2]
                        ELSE Append(a[2], lines[a[1]])]
             before == [k \in 1..N |-> k - 1]
  <2>1. N \in Nat /\ zero \in Seq(Nat)
    OBVIOUS
  <2>2. next \in [(1..N) \X Seq(Nat) -> Seq(Nat)]
    <3> SUFFICES ASSUME NEW a \in (1..N) \X Seq(Nat)
                 PROVE  (IF tEvents[lines[a[1]]].kind = "result" THEN a[2]
                         ELSE Append(a[2], lines[a[1]])) \in Seq(Nat)
      OBVIOUS
    <3>1. a[1] \in 1..N /\ a[2] \in Seq(Nat) /\ lines[a[1]] \in Nat
      OBVIOUS
    <3> QED
      BY <3>1
  <2>3. /\ before \in [1..N -> Nat]
        /\ \A k \in 1..N : before[k] < k /\ before[k] = k - 1
    BY <2>1
  <2>4. \A k \in 1..N, s \in Seq(Nat) :
          next[<<k, s>>] = IF tEvents[lines[k]].kind = "result" THEN s
                           ELSE Append(s, lines[k])
    OBVIOUS
  <2> HIDE DEF zero, next, before, N
  <2>5. PICK g \in [0..N -> Seq(Nat)] : Recursive(g, N, zero, next, before)
    BY <2>1, <2>2, <2>3, RecursionDefines
  <2>6. ASSUME NEW k \in 0..N
        PROVE  (IF k = 0 THEN zero ELSE next[<<k, g[before[k]]>>])
                 = IF k = 0 THEN <<>>
                   ELSE IF tEvents[lines[k]].kind = "result" THEN g[k - 1]
                   ELSE Append(g[k - 1], lines[k])
    <3>1. CASE k = 0
      BY <3>1 DEF zero
    <3>2. CASE k # 0
      <4>1. k \in 1..N /\ k - 1 \in 0..N
        BY <2>1, <3>2
      <4>2. g[k - 1] \in Seq(Nat) /\ before[k] = k - 1
        BY <2>3, <2>5, <4>1
      <4> QED
        BY <2>4, <3>2, <4>1, <4>2
    <3> QED
      BY <3>1, <3>2
  <2>7. Own(g)
    BY <2>5, <2>6 DEF Recursive
  <2> QED
    BY <2>7
<1>3. PICK own : Own(own) /\ T!OwnLines(lines) = own[N]
  BY <1>1, <1>2, Zenon
<1> HIDE DEF Own
<1> DEFINE S == {n \in Nat : n <= N => Owns(own[n], lines, n)}
<1>4. N \in Nat /\ DOMAIN lines = 1..N
  OBVIOUS
<1>5. \A n \in 0..N :
        own[n] = IF n = 0 THEN <<>>
                 ELSE IF Kind(lines[n]) = "result" THEN own[n - 1]
                 ELSE Append(own[n - 1], lines[n])
  BY <1>3 DEF Own, Kind
<1>6. 0 \in S
  <2>1. own[0] = <<>>
    BY <1>4, <1>5
  <2>2. /\ <<>> \in Seq(Nat) /\ DOMAIN <<>> = {} /\ 1..0 = {}
    OBVIOUS
  <2>3. Owns(<<>>, lines, 0)
    BY <2>2, Zenon DEF Owns, FromLines, AllLines, NoneTwice
  <2> QED
    BY <2>1, <2>3
<1>7. ASSUME NEW n \in S PROVE n + 1 \in S
  <2>1. n \in Nat /\ (n <= N => Owns(own[n], lines, n))
    OBVIOUS
  <2>2. ASSUME n + 1 <= N PROVE Owns(own[n + 1], lines, n + 1)
    <3>1. n + 1 \in 0..N /\ n + 1 # 0 /\ n <= N /\ n + 1 - 1 = n
      BY <1>4, <2>1, <2>2
    <3>2. own[n + 1] = IF Kind(lines[n + 1]) = "result" THEN own[n]
                       ELSE Append(own[n], lines[n + 1])
      BY <1>5, <3>1
    <3>3. Owns(own[n], lines, n)
      BY <2>1, <3>1
    <3> QED
      BY <2>1, <2>2, <3>2, <3>3, OwnsNext
  <2> QED
    BY <2>1, <2>2
<1>8. S = Nat
  <2> HIDE DEF S
  <2>1. S \in SUBSET Nat
    BY DEF S
  <2> QED
    BY <1>6, <1>7, <2>1, SetInduction
<1> QED
  BY <1>3, <1>4, <1>8

LinesOK(lines) ==
  /\ lines \in Seq(Nat) /\ Increasing(lines)
  /\ \A i \in DOMAIN lines : lines[i] \in DOMAIN tEvents

LEMMA LinesSet ==
  ASSUME EventsInv, NEW lines, LinesOK(lines), NEW k \in T!ToSet(lines)
  PROVE  k \in DOMAIN tEvents /\ k \in 1..MaxEvents /\ k <= Len(tEvents)
<1>1. k \in DOMAIN tEvents
  BY DEF LinesOK, T!ToSet
<1>2. k \in 1..MaxEvents /\ k \in 1..Len(tEvents)
  BY <1>1, EventIs
<1>3. Len(tEvents) \in Nat
  BY DEF EventsInv, EventsTyped
<1> QED
  BY <1>1, <1>2, <1>3

LEMMA EchoIs ==
  ASSUME EventsInv, NEW lines, LinesOK(lines), NEW seed, NEW e,
         e = T!Echo(seed, lines)
  PROVE  \/ e = 0
         \/ /\ e \in T!ToSet(lines) /\ Kind(e) = "message"
            /\ seed # T!NoSeed /\ e # 0
<1> DEFINE M == {n \in T!ToSet(lines) : /\ seed # T!NoSeed
                                        /\ tEvents[n].echo
                                        /\ n >= seed.from}
<1>1. e = IF M = {} THEN 0 ELSE CHOOSE n \in M : \A k \in M : n <= k
  BY DEF T!Echo, T!Nothing
<1>2. \A k \in M : /\ k \in T!ToSet(lines) /\ seed # T!NoSeed
                   /\ tEvents[k].echo
  OBVIOUS
<1>3. \A k \in T!ToSet(lines) : k \in 1..MaxEvents /\ k \in DOMAIN tEvents
  BY LinesSet
<1>4. M \in SUBSET Nat
  BY <1>3, LimitsAssumption
<1> HIDE DEF M
<1>5. CASE M # {}
  <2>1. \E n \in M : \A k \in M : n <= k
    BY <1>4, <1>5, LeastExists
  <2>2. e \in M
    BY <1>1, <1>5, <2>1
  <2>3. /\ e \in T!ToSet(lines) /\ seed # T!NoSeed /\ tEvents[e].echo
        /\ e \in 1..MaxEvents /\ e \in DOMAIN tEvents
    BY <1>2, <1>3, <2>2
  <2>4. Kind(e) = "message"
    BY <2>3 DEF EventsInv, EchoesAreMessages
  <2> QED
    BY <2>3, <2>4
<1> QED
  BY <1>1, <1>5

\* The items of a file show its lines; a result is the last one of its call.
Shown(m, seed, lines) ==
  \A i \in DOMAIN m :
    /\ m[i].of \in T!ToSet(lines) /\ Kind(m[i].of) # "result"
    /\ m[i].id = IF m[i].of = T!Echo(seed, lines) THEN -seed.prompt
                                                  ELSE m[i].of
    /\ \/ m[i].result = 0
       \/ /\ m[i].result \in T!ToSet(lines)
          /\ CallOf(m[i].result) = m[i].of

\* The items of a whole file: one for each line that is no result.
LEMMA MessagesAre ==
  ASSUME EventsInv, NEW lines, LinesOK(lines), NEW seed \in Seeds, NEW m,
         m = T!Messages(seed, lines)
  PROVE  /\ m \in Seq(T!Item) /\ Shown(m, seed, lines) /\ OnceEach(m)
         /\ \A n \in T!ToSet(lines) :
              Kind(n) # "result" => \E i \in DOMAIN m : m[i].of = n
<1> DEFINE own == T!OwnLines(lines)
           e == T!Echo(seed, lines)
           K(n) == {k \in T!ToSet(lines) : tEvents[k].call = n}
           res(n) == IF K(n) = {} THEN 0
                     ELSE CHOOSE k \in K(n) : \A j \in K(n) : j <= k
           item(n) == [id |-> IF n = e THEN -seed.prompt ELSE n, of |-> n,
                       result |-> res(n)]
<1>1. m = [i \in DOMAIN own |-> item(own[i])]
  BY DEF T!Messages
<1>2. Owns(own, lines, Len(lines))
  BY OwnLinesAre DEF LinesOK
<1>3. \A k \in T!ToSet(lines) : k \in 1..MaxEvents /\ k \in DOMAIN tEvents
  BY LinesSet
<1>4. \A n : \/ res(n) = 0
             \/ /\ res(n) \in T!ToSet(lines) /\ CallOf(res(n)) = n
                /\ res(n) \in 1..MaxEvents
  <2> SUFFICES ASSUME NEW n, K(n) # {}
               PROVE  /\ res(n) \in T!ToSet(lines) /\ CallOf(res(n)) = n
                      /\ res(n) \in 1..MaxEvents
    OBVIOUS
  <2>1. K(n) \in SUBSET (0..MaxEvents)
    BY <1>3, LimitsAssumption
  <2>2. \A k \in K(n) : k \in T!ToSet(lines) /\ tEvents[k].call = n
    OBVIOUS
  <2> HIDE DEF K
  <2>3. \E k \in K(n) : \A j \in K(n) : j <= k
    BY <2>1, GreatestExists, LimitsAssumption
  <2>4. res(n) \in K(n)
    BY <2>3
  <2> HIDE DEF res
  <2> QED
    BY <1>3, <2>2, <2>4 DEF CallOf
<1> HIDE DEF own, res, e
<1>5. /\ own \in Seq(Nat) /\ DOMAIN m = DOMAIN own
      /\ \A i \in DOMAIN m :
           /\ m[i] = item(own[i]) /\ m[i].of = own[i]
           /\ m[i].id = IF own[i] = e THEN -seed.prompt ELSE own[i]
           /\ m[i].result = res(own[i])
  BY <1>1, <1>2 DEF Owns
<1>6. \A i \in DOMAIN own : own[i] \in T!ToSet(lines)
                            /\ Kind(own[i]) # "result"
  <2> TAKE i \in DOMAIN own
  <2>1. PICK k \in 1..Len(lines) : /\ own[i] = lines[k]
                                    /\ Kind(lines[k]) # "result"
    BY <1>2 DEF Owns, FromLines
  <2>2. lines[k] \in T!ToSet(lines)
    BY DEF LinesOK, T!ToSet
  <2> QED
    BY <2>1, <2>2
<1>7. Shown(m, seed, lines)
  BY <1>4, <1>5, <1>6 DEF Shown, e
<1>8. OnceEach(m)
  BY <1>2, <1>5 DEF OnceEach, Owns, NoneTwice
<1>9. ASSUME NEW n \in T!ToSet(lines), Kind(n) # "result"
      PROVE  \E i \in DOMAIN m : m[i].of = n
  <2>1. PICK k \in 1..Len(lines) : n = lines[k]
    BY DEF T!ToSet, LinesOK
  <2>2. PICK i \in DOMAIN own : own[i] = n
    BY <1>2, <1>9, <2>1 DEF Owns, AllLines
  <2> QED
    BY <1>5, <2>2
<1>10. m \in Seq(T!Item)
  <2>1. ASSUME NEW i \in DOMAIN own PROVE item(own[i]) \in T!Item
    <3>1. own[i] \in 1..MaxEvents /\ seed.prompt \in 0..MaxPrompts
      BY <1>3, <1>6 DEF Seeds
    <3>2. res(own[i]) \in 0..MaxEvents
      BY <1>4, LimitsAssumption
    <3> DEFINE x == IF own[i] = e THEN -seed.prompt ELSE own[i]
    <3>3. x \in (-MaxPrompts)..MaxEvents
      BY <3>1, LimitsAssumption
    <3>4. own[i] \in 0..MaxEvents
      BY <3>1, LimitsAssumption
    <3> HIDE DEF x
    <3>5. [id |-> x, of |-> own[i], result |-> res(own[i])] \in T!Item
      BY <3>2, <3>3, <3>4 DEF T!Item
    <3> QED
      BY <3>5 DEF x
  <2>2. DOMAIN own = 1..Len(own) /\ Len(own) \in Nat
    BY <1>5
  <2> HIDE DEF item
  <2>3. m \in [1..Len(own) -> T!Item]
    BY <1>1, <2>1, <2>2
  <2> QED
    BY <2>2, <2>3
<1> QED
  BY <1>7, <1>8, <1>9, <1>10

\* The items of a file, with the bubble x at place i.
With(m, new, i, x) ==
  /\ i \in DOMAIN new /\ new[i] = x
  /\ \A j \in DOMAIN new :
       j # i => /\ (IF j < i THEN j ELSE j - 1) \in DOMAIN m
                /\ new[j] = m[IF j < i THEN j ELSE j - 1]
  /\ \A k \in DOMAIN m :
       /\ (IF k < i THEN k ELSE k + 1) \in DOMAIN new
       /\ new[IF k < i THEN k ELSE k + 1] = m[k]

LEMMA AppendWith ==
  ASSUME NEW m \in Seq(T!Item), NEW x \in T!Item
  PROVE  /\ Append(m, x) \in Seq(T!Item)
         /\ With(m, Append(m, x), Len(m) + 1, x)
BY DEF With

LEMMA InsertWith ==
  ASSUME NEW old \in Seq(T!Item), NEW i \in DOMAIN old, NEW x \in T!Item,
         NEW new, new = T!InsertAt(old, i, x)
  PROVE  new \in Seq(T!Item) /\ With(old, new, i, x)
<1> DEFINE a == SubSeq(old, 1, i - 1)
           c == SubSeq(old, i, Len(old))
<1>1. /\ a \in Seq(T!Item) /\ c \in Seq(T!Item) /\ <<x>> \in Seq(T!Item)
      /\ Len(a) = i - 1 /\ Len(c) = Len(old) - i + 1 /\ Len(<<x>>) = 1
      /\ <<x>>[1] = x
  OBVIOUS
<1>2. /\ \A j \in 1..(i - 1) : a[j] = old[j]
      /\ \A j \in 1..(Len(old) - i + 1) : c[j] = old[i + j - 1]
  OBVIOUS
<1>3. new = a \o <<x>> \o c
  BY DEF T!InsertAt
<1> HIDE DEF a, c
<1>4. /\ a \o <<x>> \in Seq(T!Item) /\ Len(a \o <<x>>) = i
      /\ (a \o <<x>>)[i] = x
      /\ \A j \in 1..(i - 1) : (a \o <<x>>)[j] = old[j]
  BY <1>1, <1>2
<1> DEFINE b == a \o <<x>>
<1> HIDE DEF b
<1>5. b \in Seq(T!Item) /\ new = b \o c /\ Len(b) = i
  BY <1>3, <1>4 DEF b
<1>6. /\ new \in Seq(T!Item) /\ Len(new) = Len(b) + Len(c)
      /\ \A j \in DOMAIN new :
           new[j] = IF j <= Len(b) THEN b[j] ELSE c[j - Len(b)]
  <2>1. c \in Seq(T!Item)
    BY <1>1
  <2>2. b \in Seq(T!Item) /\ new = b \o c
    BY <1>5
  <2> QED
    BY <2>1, <2>2, ConcatIs
<1>7. Len(new) = Len(old) + 1 /\ i \in 1..Len(old) /\ Len(old) \in Nat
  BY <1>1, <1>5, <1>6
<1>8. new[i] = x
  BY <1>4, <1>5, <1>6, <1>7 DEF b
<1>9. ASSUME NEW j \in DOMAIN new, j # i
      PROVE  new[j] = old[IF j < i THEN j ELSE j - 1]
  <2>1. j \in 1..(Len(old) + 1)
    BY <1>6, <1>7
  <2>2. CASE j < i
    <3>1. b[j] = old[j]
      BY <1>4, <1>7, <2>1, <2>2 DEF b
    <3>2. j <= Len(b)
      BY <1>5, <1>7, <2>1, <2>2
    <3> QED
      BY <1>6, <2>2, <3>1, <3>2
  <2>3. CASE ~(j < i)
    <3>1. j - i \in 1..(Len(old) - i + 1) /\ ~(j <= i)
      BY <1>7, <1>9, <2>1, <2>3
    <3>2. c[j - i] = old[i + (j - i) - 1]
      BY <1>2, <3>1 DEF c
    <3>3. i + (j - i) - 1 = j - 1
      BY <1>7, <2>1
    <3> QED
      BY <1>5, <1>6, <2>3, <3>1, <3>2, <3>3
  <2> QED
    BY <2>2, <2>3
<1>12. /\ DOMAIN new = 1..(Len(old) + 1) /\ DOMAIN old = 1..Len(old)
      /\ Len(old) \in Nat /\ i \in 1..Len(old)
  BY <1>6, <1>7
<1>13. i \in DOMAIN new
  BY <1>12
<1>14. ASSUME NEW j \in DOMAIN new, j # i
      PROVE  (IF j < i THEN j ELSE j - 1) \in DOMAIN old
  BY <1>12, <1>14
<1>15. ASSUME NEW k \in DOMAIN old
      PROVE  /\ (IF k < i THEN k ELSE k + 1) \in DOMAIN new
             /\ new[IF k < i THEN k ELSE k + 1] = old[k]
  <2>1. CASE k < i
    <3>1. k \in DOMAIN new /\ k # i
      BY <1>12, <2>1
    <3> QED
      BY <1>9, <2>1, <3>1
  <2>2. CASE ~(k < i)
    <3>1. /\ k + 1 \in DOMAIN new /\ k + 1 # i /\ ~(k + 1 < i)
          /\ k + 1 - 1 = k
      BY <1>12, <2>2
    <3> QED
      BY <1>9, <2>2, <3>1
  <2> QED
    BY <2>1, <2>2
<1> QED
  BY <1>6, <1>8, <1>9, <1>13, <1>14, <1>15 DEF With

Rebuilt(p, lines, q) ==
  /\ EventsInv /\ LinesOK(lines) /\ p \in Parsers /\ SeedKnown(p)
  /\ tPrompts \in 0..MaxPrompts /\ q = T!RebuildTimeline(p, lines)

Bubble(p) == [id |-> -p.seed.prompt, of |-> 0, result |-> 0]

\* A seed that is not echoed has its bubble among the items of the file.
LEMMA RebuildIs ==
  ASSUME NEW p, NEW lines, NEW q, Rebuilt(p, lines, q),
         NEW m, m = T!Messages(p.seed, lines)
  PROVE  /\ q \in Parsers /\ q.seed = p.seed /\ q.tools = p.tools
         /\ \/ /\ p.seed = T!NoSeed \/ T!Echo(p.seed, lines) # 0
               /\ q.items = m
            \/ /\ p.seed # T!NoSeed /\ T!Echo(p.seed, lines) = 0
               /\ \E i : With(m, q.items, i, Bubble(p))
<1> DEFINE later == {i \in DOMAIN m : m[i].of > p.seed.after}
           first == CHOOSE i \in later : \A j \in later : i <= j
<1>1. /\ p \in Parsers /\ EventsInv /\ LinesOK(lines) /\ p.seed \in Seeds
  BY DEF Rebuilt, Parsers
<1>2. m \in Seq(T!Item)
  BY <1>1, MessagesAre
<1>3. CASE p.seed = T!NoSeed \/ T!Echo(p.seed, lines) # 0
  <2>1. q = [p EXCEPT !.items = m]
    BY <1>3 DEF T!RebuildTimeline, Rebuilt, T!Nothing
  <2> QED
    BY <1>1, <1>2, <1>3, <2>1 DEF Parsers
<1>4. CASE ~(p.seed = T!NoSeed \/ T!Echo(p.seed, lines) # 0)
  <2> DEFINE new == IF later = {} THEN Append(m, Bubble(p))
                    ELSE T!InsertAt(m, first, Bubble(p))
  <2>1. q = [p EXCEPT !.items = new]
    BY <1>4 DEF T!RebuildTimeline, Rebuilt, T!Nothing, Bubble
  <2>2. Bubble(p) \in T!Item
    <3>1. /\ -p.seed.prompt \in (-MaxPrompts)..MaxEvents
          /\ 0 \in 0..MaxEvents
      BY <1>1, LimitsAssumption DEF Seeds
    <3> QED
      BY <3>1 DEF Bubble, T!Item
  <2>3. new \in Seq(T!Item) /\ \E i : With(m, new, i, Bubble(p))
    <3>1. CASE later = {}
      BY <1>2, <2>2, <3>1, AppendWith
    <3>2. CASE later # {}
      <4>1. later \in SUBSET Nat /\ later \subseteq DOMAIN m
        BY <1>2
      <4> HIDE DEF later
      <4>2. \E i \in later : \A j \in later : i <= j
        BY <3>2, <4>1, LeastExists
      <4>3. first \in DOMAIN m
        BY <4>1, <4>2
      <4>4. new = T!InsertAt(m, first, Bubble(p))
        BY <3>2
      <4> HIDE DEF first, new
      <4> QED
        BY <1>2, <2>2, <4>3, <4>4, InsertWith
    <3> QED
      BY <3>1, <3>2
  <2> HIDE DEF new
  <2> QED
    BY <1>1, <1>4, <2>1, <2>3 DEF Parsers
<1> QED
  BY <1>3, <1>4

\* What the rebuilt items show.
LEMMA RebuildShows ==
  ASSUME NEW p, NEW lines, NEW q, Rebuilt(p, lines, q)
  PROVE  /\ OfLines(q.items, T!ToSet(lines)) /\ OnceEach(q.items)
         /\ AllShown(q.items, T!ToSet(lines))
<1> DEFINE m == T!Messages(p.seed, lines)
<1>1. /\ EventsInv /\ LinesOK(lines) /\ p.seed \in Seeds
  BY DEF Rebuilt, Parsers
<1>2. /\ Shown(m, p.seed, lines) /\ OnceEach(m)
      /\ \A n \in T!ToSet(lines) :
           Kind(n) # "result" => \E i \in DOMAIN m : m[i].of = n
  BY <1>1, MessagesAre
<1>3. \/ q.items = m
      \/ \E i : With(m, q.items, i, Bubble(p))
  BY RebuildIs
<1> HIDE DEF m
<1>4. CASE q.items = m
  BY <1>2, <1>4 DEF Shown, OfLines, AllShown
<1>5. ASSUME NEW i, With(m, q.items, i, Bubble(p))
      PROVE  /\ OfLines(q.items, T!ToSet(lines)) /\ OnceEach(q.items)
             /\ AllShown(q.items, T!ToSet(lines))
  <2>1. /\ i \in DOMAIN q.items /\ q.items[i].of = 0
        /\ \A j \in DOMAIN q.items :
             j # i => /\ (IF j < i THEN j ELSE j - 1) \in DOMAIN m
                      /\ q.items[j] = m[IF j < i THEN j ELSE j - 1]
        /\ \A k \in DOMAIN m :
             /\ (IF k < i THEN k ELSE k + 1) \in DOMAIN q.items
             /\ q.items[IF k < i THEN k ELSE k + 1] = m[k]
    BY <1>5 DEF With, Bubble
  <2>2. OfLines(q.items, T!ToSet(lines))
    BY <1>2, <2>1 DEF OfLines, Shown
  <2>3. OnceEach(q.items)
    <3> SUFFICES ASSUME NEW j \in DOMAIN q.items, NEW k \in DOMAIN q.items,
                        q.items[j].of = q.items[k].of, q.items[j].of # 0
                 PROVE  j = k
      BY DEF OnceEach
    <3>1. j # i /\ k # i
      BY <2>1
    <3>2. (IF j < i THEN j ELSE j - 1) = (IF k < i THEN k ELSE k - 1)
      BY <1>2, <2>1, <3>1 DEF OnceEach
    <3>3. i \in Nat /\ j \in Nat /\ k \in Nat
      <4>1. q.items \in Seq(T!Item)
        BY RebuildIs DEF Parsers
      <4> QED
        BY <2>1, <4>1
    <3> QED
      BY <3>1, <3>2, <3>3
  <2>4. AllShown(q.items, T!ToSet(lines))
    BY <1>2, <2>1 DEF AllShown
  <2> QED
    BY <2>2, <2>3, <2>4
<1> QED
  BY <1>3, <1>4, <1>5

\* Of the file's own items, one is the seed's where it is echoed, and none
\* otherwise; results are with their calls.
LEMMA MessagesLand ==
  ASSUME NEW p, NEW lines, NEW q, Rebuilt(p, lines, q), NEW m,
         m = T!Messages(p.seed, lines), NEW i \in DOMAIN m
  PROVE  /\ m[i].result = 0 \/ CallOf(m[i].result) = m[i].id
         /\ m[i].id = IF m[i].of = T!Echo(p.seed, lines) THEN -p.seed.prompt
                                                        ELSE m[i].of
         /\ m[i].of \in Nat /\ m[i].of # 0 /\ m[i].of <= Len(tEvents)
         /\ m[i].result <= Len(tEvents)
<1>1. /\ EventsInv /\ LinesOK(lines) /\ p.seed \in Seeds
  BY DEF Rebuilt, Parsers
<1>2. Shown(m, p.seed, lines)
  BY <1>1, MessagesAre
<1>3. /\ m[i].of \in T!ToSet(lines)
      /\ m[i].id = IF m[i].of = T!Echo(p.seed, lines) THEN -p.seed.prompt
                                                     ELSE m[i].of
      /\ \/ m[i].result = 0
         \/ /\ m[i].result \in T!ToSet(lines)
            /\ CallOf(m[i].result) = m[i].of
  BY <1>2 DEF Shown
<1>4. /\ m[i].of \in Nat /\ m[i].of # 0 /\ m[i].of <= Len(tEvents)
  BY <1>1, <1>3, LinesSet
<1>5. m[i].result <= Len(tEvents)
  <2>1. Len(tEvents) \in Nat
    BY <1>1 DEF EventsInv, EventsTyped
  <2> QED
    BY <1>1, <1>3, <2>1, LinesSet
<1>6. ASSUME m[i].result # 0 PROVE CallOf(m[i].result) = m[i].id
  <2> DEFINE r == m[i].result
  <2>1. r \in T!ToSet(lines) /\ CallOf(r) = m[i].of
    BY <1>3, <1>6
  <2>2. r \in DOMAIN tEvents
    BY <1>1, <2>1, LinesSet
  <2>3. Kind(r) = "result"
    BY <1>1, <1>4, <2>1, <2>2 DEF EventsInv, OthersHaveNone
  <2>4. Kind(m[i].of) = "call"
    BY <1>1, <2>1, <2>2, <2>3 DEF EventsInv, ResultsHaveCalls
  <2>5. m[i].of # T!Echo(p.seed, lines)
    <3>1. \/ T!Echo(p.seed, lines) = 0
          \/ Kind(T!Echo(p.seed, lines)) = "message"
      BY <1>1, EchoIs
    <3> QED
      BY <1>4, <2>4, <3>1
  <2> QED
    BY <1>3, <2>1, <2>5
<1> QED
  BY <1>3, <1>4, <1>5, <1>6

\* A rebuilt timeline keeps what holds of a parser.
LEMMA RebuildGood ==
  ASSUME NEW p, NEW lines, NEW q, Rebuilt(p, lines, q)
  PROVE  Good(q) /\ Landed(q)
<1> DEFINE m == T!Messages(p.seed, lines)
           e == T!Echo(p.seed, lines)
<1>1. /\ EventsInv /\ LinesOK(lines) /\ p.seed \in Seeds /\ SeedKnown(p)
      /\ tPrompts \in Nat
  BY LimitsAssumption DEF Rebuilt, Parsers
<1>2. /\ q \in Parsers /\ q.seed = p.seed
      /\ \/ /\ p.seed = T!NoSeed \/ e # 0
            /\ q.items = m
         \/ /\ p.seed # T!NoSeed /\ e = 0
            /\ \E i : With(m, q.items, i, Bubble(p))
  BY RebuildIs
<1>3. \A i \in DOMAIN m :
        /\ m[i].result = 0 \/ CallOf(m[i].result) = m[i].id
        /\ m[i].id = IF m[i].of = e THEN -p.seed.prompt ELSE m[i].of
        /\ m[i].of \in Nat /\ m[i].of # 0 /\ m[i].of <= Len(tEvents)
        /\ m[i].result <= Len(tEvents)
  BY MessagesLand
<1>4. /\ OnceEach(m)
      /\ \A n \in T!ToSet(lines) :
           Kind(n) # "result" => \E i \in DOMAIN m : m[i].of = n
  BY <1>1, MessagesAre
<1>5. \/ e = 0
      \/ e \in T!ToSet(lines) /\ Kind(e) = "message" /\ p.seed # T!NoSeed
  BY <1>1, EchoIs
<1>6. p.seed # T!NoSeed => /\ p.seed.prompt \in Nat /\ p.seed.prompt # 0
                           /\ -p.seed.prompt >= -tPrompts
  BY <1>1 DEF SeedKnown
<1>7. Len(tEvents) \in Nat
  BY <1>1 DEF EventsInv, EventsTyped
<1> HIDE DEF m, e
<1>8. \A i \in DOMAIN m : m[i].id >= -tPrompts
  <2> SUFFICES ASSUME NEW i \in DOMAIN m PROVE m[i].id >= -tPrompts
    OBVIOUS
  <2>1. CASE m[i].of = e
    <3>1. p.seed # T!NoSeed /\ m[i].id = -p.seed.prompt
      BY <1>3, <1>5, <2>1
    <3> QED
      BY <1>6, <3>1
  <2>2. CASE m[i].of # e
    <3>1. m[i].id = m[i].of /\ m[i].of \in Nat
      BY <1>3, <2>2
    <3> QED
      BY <1>1, <3>1
  <2> QED
    BY <2>1, <2>2
<1>9. CASE (p.seed = T!NoSeed \/ e # 0) /\ q.items = m
  <2>1. ItemsKnown(q) /\ Landed(q)
    BY <1>3, <1>8, <1>9 DEF ItemsKnown, Landed
  <2>2. HasBubble(q)
    <3> SUFFICES ASSUME q.seed # T!NoSeed
                 PROVE  \E i \in DOMAIN q.items :
                          q.items[i].id = -q.seed.prompt
      BY DEF HasBubble
    <3>1. e # 0 /\ e \in T!ToSet(lines) /\ Kind(e) # "result"
      BY <1>2, <1>5, <1>9
    <3>2. PICK i \in DOMAIN m : m[i].of = e
      BY <1>4, <3>1
    <3> QED
      BY <1>2, <1>3, <1>9, <3>2
  <2>3. OneBubble(q)
    <3> SUFFICES ASSUME q.seed # T!NoSeed, NEW i \in DOMAIN m,
                        NEW j \in DOMAIN m, m[i].id = -p.seed.prompt,
                        m[j].id = -p.seed.prompt
                 PROVE  i = j
      BY <1>2, <1>9 DEF OneBubble
    <3>1. m[i].of = e /\ m[j].of = e /\ e # 0
      <4>1. /\ p.seed.prompt \in Nat /\ p.seed.prompt # 0
        BY <1>2, <1>6
      <4>2. \A k \in Nat : k # 0 => k # -p.seed.prompt
        BY <4>1
      <4> QED
        BY <1>3, <4>2
    <3> QED
      BY <1>3, <1>4, <3>1 DEF OnceEach
  <2> QED
    BY <1>1, <1>2, <2>1, <2>2, <2>3 DEF Good, Known, SeedKnown
<1>10. ASSUME p.seed # T!NoSeed, e = 0, NEW i,
              With(m, q.items, i, Bubble(p))
       PROVE  Good(q) /\ Landed(q)
  <2>1. /\ i \in DOMAIN q.items /\ q.items[i].of = 0
        /\ q.items[i].result = 0 /\ q.items[i].id = -p.seed.prompt
        /\ \A j \in DOMAIN q.items :
             j # i => \E k \in DOMAIN m : q.items[j] = m[k]
    BY <1>10 DEF With, Bubble
  <2>2. \A k \in DOMAIN m : m[k].id = m[k].of /\ m[k].of \in Nat
                            /\ m[k].of # 0
    BY <1>3, <1>10
  <2>3. ItemsKnown(q)
    BY <1>3, <1>6, <1>7, <1>8, <1>10, <2>1 DEF ItemsKnown
  <2>4. Landed(q)
    BY <1>3, <2>1 DEF Landed
  <2>5. HasBubble(q)
    BY <1>2, <2>1 DEF HasBubble
  <2>6. \A j \in DOMAIN q.items : q.items[j].id = -p.seed.prompt => j = i
    <3>1. \A k \in DOMAIN m : m[k].id # -p.seed.prompt
      BY <1>6, <1>10, <2>2
    <3> QED
      BY <2>1, <3>1
  <2>7. OneBubble(q)
    BY <1>2, <2>6 DEF OneBubble
  <2> QED
    BY <1>1, <1>2, <2>3, <2>4, <2>5, <2>7 DEF Good, Known, SeedKnown
<1> QED
  BY <1>2, <1>9, <1>10

-----------------------------------------------------------------------------
(* Files, readers and prompts: the types of the transcript.                *)

FileType == [inode : Nat \ {0}, session : Nat \ {0}, lines : Seq(Nat),
             half : Nat]

FileInv ==
  /\ tFile \in FileType /\ tFile.half <= Len(tEvents)
  /\ LinesOK(tFile.lines)
  /\ \A i \in DOMAIN tFile.lines :
       tFile.half # 0 => tFile.lines[i] < tFile.half

ReaderType ==
  [at : {"start", "idle", "lines", "merge"}, offset : Nat, inode : Nat,
   session : Nat, buf : Nat, todo : Seq(Nat), batch : BOOLEAN,
   merge : Seq(T!Item)]

TodoKnown == \A i \in DOMAIN tReader.todo : tReader.todo[i] \in DOMAIN tEvents

\* Gemini's reader has no lines on their way; no reader knows a session
\* that is still to come.
ReaderInv ==
  /\ tReader \in ReaderType /\ TodoKnown
  /\ tReader.at \in {"start", "idle"} => tReader.todo = <<>>
  /\ tProvider = "gemini" => tReader.at # "lines" /\ tReader.todo = <<>>
  /\ tProvider = "gemini" /\ tReader.at = "start" => tReader.inode = 0
  /\ tReader.session <= tFile.session

PromptType == [at : {"idle", "seeded", "write", "removed"},
               merge : Seq(T!Item)]

RestInv ==
  /\ tProvider \in Agents /\ tResets \in 0..MaxResets /\ tHidden \in BOOLEAN
  /\ tState \in {"initial", "reset", "live"} /\ tPrompt \in PromptType
  /\ tPrompts \in 0..MaxPrompts /\ tUndone \in BOOLEAN /\ tRaced \in BOOLEAN
  /\ tShown \in Seq(T!Item)

\* Gemini's calls are not remembered: their results are part of them.
ToolsInv == tProvider = "gemini" => DOMAIN tParser.tools = {}

ParserInv == Good(tParser) /\ ToolsInv

TypesInv == EventsInv /\ FileInv /\ ReaderInv /\ RestInv /\ ParserInv

\* Offsets count lines twice, and one more for a half line.
LEMMA Halves ==
  ASSUME NEW n \in Nat
  PROVE  /\ n \div 2 \in Nat /\ n % 2 \in {0, 1}
         /\ n = 2 * (n \div 2) + (n % 2)
<1>1. n \div 2 \in Nat
  OBVIOUS
<1>2. n % 2 \in {0, 1}
  OBVIOUS
<1>3. n = 2 * (n \div 2) + (n % 2)
  OBVIOUS
<1> QED
  BY <1>1, <1>2, <1>3

LEMMA Doubled ==
  ASSUME NEW n \in Nat
  PROVE  /\ (2 * n) \div 2 = n /\ (2 * n) % 2 = 0
         /\ (2 * n + 1) \div 2 = n /\ (2 * n + 1) % 2 = 1
<1>1. (2 * n) \div 2 = n
  OBVIOUS
<1>2. (2 * n) % 2 = 0
  OBVIOUS
<1>3. (2 * n + 1) \div 2 = n
  OBVIOUS
<1>4. (2 * n + 1) % 2 = 1
  OBVIOUS
<1> QED
  BY <1>1, <1>2, <1>3, <1>4

LEMMA SizeIs ==
  ASSUME NEW f \in FileType
  PROVE  /\ T!Size(f) \in Nat /\ T!Size(f) \div 2 = Len(f.lines)
         /\ f.half = 0 => T!Size(f) = 2 * Len(f.lines)
                          /\ T!Size(f) % 2 = 0
         /\ f.half # 0 => T!Size(f) = 2 * Len(f.lines) + 1
                          /\ T!Size(f) % 2 = 1
<1>1. Len(f.lines) \in Nat
  BY DEF FileType
<1>2. /\ f.half = 0 => T!Size(f) = 2 * Len(f.lines)
      /\ f.half # 0 => T!Size(f) = 2 * Len(f.lines) + 1
  <2>1. T!Size(f) = 2 * Len(f.lines) + (IF f.half = 0 THEN 0 ELSE 1)
    BY Zenon DEF T!Size, T!Nothing
  <2>2. 2 * Len(f.lines) + 0 = 2 * Len(f.lines)
    BY <1>1
  <2> QED
    BY <2>1, <2>2, Zenon
<1>3. /\ (2 * Len(f.lines)) \div 2 = Len(f.lines)
      /\ (2 * Len(f.lines)) % 2 = 0
      /\ (2 * Len(f.lines) + 1) \div 2 = Len(f.lines)
      /\ (2 * Len(f.lines) + 1) % 2 = 1
  BY <1>1, Doubled
<1>4. /\ 2 * Len(f.lines) \in Nat /\ 2 * Len(f.lines) + 1 \in Nat
  BY <1>1
<1>5. CASE f.half = 0
  BY <1>2, <1>3, <1>4, <1>5
<1>6. CASE f.half # 0
  BY <1>2, <1>3, <1>4, <1>6
<1> QED
  BY <1>5, <1>6

LEMMA SubSeqIs ==
  ASSUME NEW s \in Seq(Nat), NEW k \in Nat
  PROVE  /\ SubSeq(s, k + 1, Len(s)) \in Seq(Nat)
         /\ k <= Len(s) => Len(SubSeq(s, k + 1, Len(s))) = Len(s) - k
         /\ ~(k <= Len(s)) => SubSeq(s, k + 1, Len(s)) = <<>>
         /\ \A i \in DOMAIN SubSeq(s, k + 1, Len(s)) :
              /\ SubSeq(s, k + 1, Len(s))[i] = s[k + i]
              /\ k + i \in DOMAIN s
OBVIOUS

LEMMA TailIs ==
  ASSUME NEW s \in Seq(Nat), s # <<>>
  PROVE  /\ Tail(s) \in Seq(Nat) /\ Len(Tail(s)) = Len(s) - 1
         /\ \A i \in DOMAIN Tail(s) : /\ Tail(s)[i] = s[i + 1]
                                      /\ i + 1 \in DOMAIN s
         /\ Head(s) = s[1] /\ 1 \in DOMAIN s /\ Head(s) \in Nat
OBVIOUS

\* The lines of the file after the offset, without the first if it is not
\* the one that was kept.
LEMMA NewLinesAre ==
  ASSUME FileInv, ReaderInv, NEW k, k = tReader.offset \div 2
  PROVE  /\ k \in Nat /\ T!NewLines \in Seq(Nat)
         /\ \A i \in DOMAIN T!NewLines : T!NewLines[i] \in DOMAIN tEvents
         /\ (tReader.offset % 2 = 0 \/ k >= Len(tFile.lines)
               \/ tReader.buf = tFile.lines[k + 1]) =>
              T!NewLines = SubSeq(tFile.lines, k + 1, Len(tFile.lines))
<1> DEFINE rest == SubSeq(tFile.lines, k + 1, Len(tFile.lines))
<1>1. /\ tFile.lines \in Seq(Nat) /\ tReader.offset \in Nat
      /\ \A i \in DOMAIN tFile.lines : tFile.lines[i] \in DOMAIN tEvents
  BY DEF FileInv, FileType, ReaderInv, ReaderType, LinesOK
<1>2. k \in Nat /\ (tReader.offset % 2 = 1 => tReader.offset % 2 # 0)
  BY <1>1, Halves
<1>3. /\ rest \in Seq(Nat) /\ (k >= Len(tFile.lines) => rest = <<>>)
      /\ \A i \in DOMAIN rest : rest[i] = tFile.lines[k + i]
                                /\ k + i \in DOMAIN tFile.lines
  <2>1. tFile.lines \in Seq(Nat) /\ k \in Nat /\ Len(tFile.lines) \in Nat
    BY <1>1, <1>2
  <2>2. k >= Len(tFile.lines) => rest = <<>>
    <3>1. \/ k = Len(tFile.lines) \/ ~(k <= Len(tFile.lines))
          \/ k < Len(tFile.lines)
      BY <2>1
    <3>2. k = Len(tFile.lines) => rest = <<>>
      BY <2>1
    <3> QED
      BY <2>1, <3>1, <3>2, SubSeqIs
  <2> QED
    BY <2>1, <2>2, SubSeqIs
<1>4. T!NewLines = IF /\ tReader.offset % 2 = 1 /\ rest # <<>>
                      /\ tReader.buf # Head(rest)
                   THEN Tail(rest) ELSE rest
  BY DEF T!NewLines
<1> HIDE DEF rest
<1>5. \A i \in DOMAIN rest : rest[i] \in DOMAIN tEvents
  BY <1>1, <1>3
<1>6. rest # <<>> => /\ Tail(rest) \in Seq(Nat) /\ Head(rest) = rest[1]
                     /\ 1 \in DOMAIN rest
                     /\ \A i \in DOMAIN Tail(rest) :
                          Tail(rest)[i] = rest[i + 1] /\ i + 1 \in DOMAIN rest
  BY <1>3, TailIs
<1>7. T!NewLines \in Seq(Nat)
  BY <1>3, <1>4, <1>6
<1>8. \A i \in DOMAIN T!NewLines : T!NewLines[i] \in DOMAIN tEvents
  BY <1>4, <1>5, <1>6
<1>9. ASSUME \/ tReader.offset % 2 = 0 \/ k >= Len(tFile.lines)
             \/ tReader.buf = tFile.lines[k + 1]
      PROVE  T!NewLines = rest
  BY <1>2, <1>3, <1>4, <1>6, <1>9
<1> QED
  BY <1>2, <1>7, <1>8, <1>9 DEF rest

\* A line that is begun is a new event.
Grows ==
  /\ tProvider' = tProvider /\ tPrompts' = tPrompts /\ tUndone' = tUndone
  /\ tParser' = tParser
  /\ \/ tEvents' = tEvents
     \/ \E e \in EventType :
          /\ tEvents' = Append(tEvents, e) /\ EventsInv'

LEMMA GrowsIs ==
  ASSUME EventsInv, Grows
  PROVE  /\ EventsInv' /\ Len(tEvents) <= Len(tEvents)'
         /\ DOMAIN tEvents \subseteq DOMAIN tEvents'
         /\ \A n \in DOMAIN tEvents : /\ Kind(n)' = Kind(n)
                                      /\ CallOf(n)' = CallOf(n)
<1>1. CASE tEvents' = tEvents
  <2>1. EventsInv'
    BY <1>1 DEF EventsInv, EventsTyped, EchoesAreMessages, ResultsHaveCalls,
                OthersHaveNone, Kind, CallOf
  <2>2. Len(tEvents) \in Nat
    BY DEF EventsInv, EventsTyped
  <2> QED
    BY <1>1, <2>1, <2>2 DEF Kind, CallOf
<1>2. ASSUME NEW e \in EventType, tEvents' = Append(tEvents, e), EventsInv'
      PROVE  /\ Len(tEvents) <= Len(tEvents)'
             /\ DOMAIN tEvents \subseteq DOMAIN tEvents'
             /\ \A n \in DOMAIN tEvents : tEvents'[n] = tEvents[n]
  <2>1. tEvents \in Seq(EventType)
    BY DEF EventsInv, EventsTyped
  <2> QED
    BY <1>2, <2>1
<1> QED
  BY <1>1, <1>2 DEF Grows, Kind, CallOf

LEMMA BeginGrows ==
  ASSUME EventsInv, T!BeginLine
  PROVE  Grows /\ Len(tEvents)' = Len(tEvents) + 1
<1>1. PICK k \in T!Kinds, echo \in BOOLEAN, call \in 0..Len(tEvents) :
        /\ echo => k = "message"
        /\ IF k = "result" THEN call # 0 /\ tEvents[call].kind = "call"
           ELSE call = 0
        /\ tEvents' = Append(tEvents, [kind |-> k, echo |-> echo,
                                       call |-> call])
  BY DEF T!BeginLine
<1>2. /\ tEvents \in Seq(EventType) /\ Len(tEvents) < MaxEvents
      /\ Len(tEvents) \in Nat /\ DOMAIN tEvents = 1..Len(tEvents)
  BY DEF EventsInv, EventsTyped, T!BeginLine
<1> DEFINE e == [kind |-> k, echo |-> echo, call |-> call]
<1>3. e \in EventType /\ e.kind = k /\ e.echo = echo /\ e.call = call
  BY <1>2, LimitsAssumption DEF EventType
<1>4. tEvents' = Append(tEvents, e)
  BY <1>1
<1> HIDE DEF e
<1>5. /\ tEvents' \in Seq(EventType) /\ Len(tEvents)' = Len(tEvents) + 1
      /\ DOMAIN tEvents' = DOMAIN tEvents \cup {Len(tEvents) + 1}
      /\ tEvents'[Len(tEvents) + 1] = e
      /\ \A n \in DOMAIN tEvents : tEvents'[n] = tEvents[n]
  BY <1>2, <1>3, <1>4
<1>6. EventsTyped'
  BY <1>2, <1>5, LimitsAssumption DEF EventsTyped
<1>7. EchoesAreMessages'
  BY <1>1, <1>3, <1>5 DEF EventsInv, EchoesAreMessages, Kind
<1>8. ResultsHaveCalls'
  <2> SUFFICES ASSUME NEW n \in DOMAIN tEvents', Kind(n)' = "result"
               PROVE  CallOf(n)' \in DOMAIN tEvents' /\
                      Kind(CallOf(n))' = "call"
    BY DEF ResultsHaveCalls
  <2>1. CASE n \in DOMAIN tEvents
    <3>1. Kind(n) = "result" /\ CallOf(n)' = CallOf(n)
      BY <1>5, <2>1 DEF Kind, CallOf
    <3>2. CallOf(n) \in DOMAIN tEvents /\ Kind(CallOf(n)) = "call"
      BY <2>1, <3>1 DEF EventsInv, ResultsHaveCalls
    <3> QED
      BY <1>5, <3>1, <3>2 DEF Kind
  <2>2. CASE n = Len(tEvents) + 1
    <3>1. k = "result" /\ CallOf(n)' = call
      BY <1>3, <1>5, <2>2 DEF Kind, CallOf
    <3>2. call \in DOMAIN tEvents /\ Kind(call) = "call"
      BY <1>1, <1>2, <3>1 DEF Kind
    <3> QED
      BY <1>5, <3>1, <3>2 DEF Kind
  <2> QED
    BY <1>5, <2>1, <2>2
<1>9. OthersHaveNone'
  BY <1>1, <1>3, <1>5 DEF EventsInv, OthersHaveNone, Kind, CallOf
<1>10. EventsInv'
  BY <1>6, <1>7, <1>8, <1>9 DEF EventsInv
<1> QED
  BY <1>3, <1>4, <1>5, <1>10 DEF Grows, T!BeginLine, T!ghosts

-----------------------------------------------------------------------------
(* What a step does to the parser.                                         *)

\* Results are where the remembered indices point, until a rollback.
LandInv == tUndone \/ (Landed(tParser) /\ Pointed(tParser))
IdsInv ==
  tProvider = "gemini" \/ (EmptyBubble(tParser) /\ IdsAreLines(tParser))

Same == UNCHANGED <<tProvider, tEvents, tPrompts>>
Resets == tParser' = T!NewParser /\ tUndone' = FALSE /\ Same
Parses ==
  /\ Same /\ tUndone' = tUndone
  /\ tProvider # "gemini" /\ tReader.todo # <<>>
  /\ tParser' = T!ParseEvent(tParser, Head(tReader.todo))
Rebuilds ==
  /\ Same /\ tProvider = "gemini"
  /\ \E p : /\ tParser' = T!RebuildTimeline(p, tFile.lines)
            /\ \/ p = tParser /\ tUndone' = tUndone
               \/ p = T!NewParser /\ tUndone' = FALSE

LEMMA PollWholeRebuilds ==
  ASSUME TypesInv, T!PollWhole
  PROVE  Rebuilds
<1> DEFINE over == \/ tReader.inode \notin {0, tFile.inode}
                   \/ T!Size(tFile) < tReader.offset
                   \/ tReader.session \notin {0, tFile.session}
           p == IF over THEN T!NewParser ELSE tParser
<1>1. /\ tParser' = T!RebuildTimeline(p, tFile.lines)
      /\ tUndone' = (tUndone /\ ~over)
      /\ tProvider = "gemini" /\ Same
  BY Zenon DEF T!PollWhole, Same, T!agent
<1>2. (p = tParser /\ ~over) \/ (p = T!NewParser /\ over)
  OBVIOUS
<1>3. tUndone \in BOOLEAN
  BY DEF TypesInv, RestInv
<1> HIDE DEF p, over
<1>4. \/ p = tParser /\ tUndone' = tUndone
      \/ p = T!NewParser /\ tUndone' = FALSE
  BY <1>1, <1>2, <1>3, Zenon
<1> QED
  BY <1>1, <1>4, Zenon DEF Rebuilds

\* A step leaves the parser alone or does one of these.
LEMMA ParserMoves ==
  ASSUME TypesInv, [T!Next]_T!vars
  PROVE  Grows \/ Resets \/ Parses \/ Rebuilds \/ T!SeedPrompt
         \/ T!RollbackPrompt
<1>1. CASE T!BeginLine
  BY <1>1, BeginGrows DEF TypesInv
<1>2. CASE \/ T!EndLine \/ T!Restart \/ T!ReadFromBeginning \/ T!Poll
           \/ T!ReadComplete \/ T!MergeReader \/ T!MergePrompt \/ T!Written
           \/ UNCHANGED T!vars
  BY <1>2 DEF Grows, T!EndLine, T!Restart, T!ReadFromBeginning, T!Poll,
              T!ReadComplete, T!MergeReader, T!MergePrompt, T!Written,
              T!vars, T!agent, T!ghosts
<1>3. CASE T!PollReset
  BY <1>3 DEF T!PollReset, T!Reset, Resets, Same, T!agent
<1>4. CASE T!DeliverLine
  BY <1>4 DEF T!DeliverLine, Parses, Same, T!agent, TypesInv, ReaderInv
<1>5. CASE T!PollPartial
  BY <1>5 DEF T!PollPartial, T!Reset, Resets, Grows, Same, T!agent
<1>6. CASE T!PollWhole
  BY <1>6, PollWholeRebuilds
<1> QED
  BY <1>1, <1>2, <1>3, <1>4, <1>5, <1>6 DEF T!Next

LEMMA NewIs ==
  ASSUME tPrompts \in 0..MaxPrompts
  PROVE  /\ T!NewParser \in Parsers /\ T!NewParser.items = <<>>
         /\ T!NewParser.seed = T!NoSeed /\ DOMAIN T!NewParser.tools = {}
         /\ DOMAIN T!NewParser.items = {} /\ SeedKnown(T!NewParser)
<1>1. T!NoSeed \in Seeds
  BY LimitsAssumption DEF T!NoSeed, Seeds
<1>2. <<>> \in Tools
  <2>1. <<>> \in [{} -> Nat \ {0}]
    OBVIOUS
  <2>2. {} \in SUBSET (1..MaxEvents)
    OBVIOUS
  <2> QED
    BY <2>1, <2>2 DEF Tools
<1>3. <<>> \in Seq(T!Item) /\ DOMAIN <<>> = {}
  OBVIOUS
<1>4. /\ T!NewParser.items = <<>> /\ T!NewParser.seed = T!NoSeed
      /\ T!NewParser.tools = <<>>
  BY DEF T!NewParser
<1>5. T!NewParser \in Parsers
  BY <1>1, <1>2, <1>3 DEF T!NewParser, Parsers
<1> QED
  BY <1>3, <1>4, <1>5 DEF SeedKnown

ParserKept == Good(tParser) /\ ToolsInv /\ LandInv /\ IdsInv

\* The invariants of a parser, in the state after the step.
LEMMA SameGood ==
  ASSUME Same, Good(tParser')
  PROVE  Good(tParser)'
BY DEF Same, Good, Known, SeedKnown, ItemsKnown, HasBubble, OneBubble

LEMMA GrowsKeeps ==
  ASSUME TypesInv, LandInv, IdsInv, Grows
  PROVE  ParserKept'
<1>1. /\ tParser' = tParser /\ tProvider' = tProvider /\ tUndone' = tUndone
      /\ tPrompts' = tPrompts
  BY DEF Grows
<1>2. /\ Len(tEvents) <= Len(tEvents)'
      /\ DOMAIN tEvents \subseteq DOMAIN tEvents'
      /\ \A n \in DOMAIN tEvents : /\ Kind(n)' = Kind(n)
                                   /\ CallOf(n)' = CallOf(n)
  BY GrowsIs DEF TypesInv
<1>3. /\ Len(tEvents) \in Nat /\ Len(tEvents)' \in Nat
      /\ DOMAIN tEvents = 1..Len(tEvents)
  <2>1. EventsInv /\ EventsInv'
    BY GrowsIs DEF TypesInv
  <2> QED
    BY <2>1 DEF EventsInv, EventsTyped
<1>4. \A i \in DOMAIN tParser.items :
        /\ tParser.items[i].of \in Nat /\ tParser.items[i].result \in Nat
        /\ tParser.items[i].of # 0 => tParser.items[i].of \in DOMAIN tEvents
        /\ tParser.items[i].result # 0 =>
             tParser.items[i].result \in DOMAIN tEvents
  <2> SUFFICES ASSUME NEW i \in DOMAIN tParser.items
               PROVE  /\ tParser.items[i].of \in Nat
                      /\ tParser.items[i].result \in Nat
                      /\ tParser.items[i].of # 0 =>
                           tParser.items[i].of \in DOMAIN tEvents
                      /\ tParser.items[i].result # 0 =>
                           tParser.items[i].result \in DOMAIN tEvents
    OBVIOUS
  <2>1. tParser.items \in Seq(T!Item) /\ ItemsKnown(tParser)
    BY DEF TypesInv, ParserInv, Good, Known, Parsers
  <2>2. tParser.items[i].of \in Nat /\ tParser.items[i].result \in Nat
    BY <2>1, ItemFields
  <2> QED
    BY <1>3, <2>1, <2>2 DEF ItemsKnown
<1>5. Good(tParser)'
  <2>1. ItemsKnown(tParser)'
    BY <1>1, <1>2, <1>3, <1>4 DEF TypesInv, ParserInv, Good, Known, ItemsKnown
  <2> QED
    BY <1>1, <2>1 DEF TypesInv, ParserInv, Good, Known, SeedKnown, HasBubble,
                      OneBubble
<1>6. ToolsInv'
  BY <1>1 DEF TypesInv, ParserInv, ToolsInv
<1>7. LandInv'
  BY <1>1, <1>2, <1>4 DEF LandInv, Landed, Pointed
<1>8. IdsInv'
  BY <1>1, <1>2, <1>4 DEF IdsInv, EmptyBubble, IdsAreLines
<1> QED
  BY <1>5, <1>6, <1>7, <1>8 DEF ParserKept

LEMMA ResetsKeeps ==
  ASSUME TypesInv, Resets
  PROVE  ParserKept'
<1>1. /\ T!NewParser \in Parsers /\ T!NewParser.items = <<>>
      /\ T!NewParser.seed = T!NoSeed /\ DOMAIN T!NewParser.tools = {}
      /\ DOMAIN T!NewParser.items = {}
  BY NewIs DEF TypesInv, RestInv
<1>2. tParser' = T!NewParser /\ Same
  BY DEF Resets
<1>3. Good(tParser')
  BY <1>1, <1>2, Zenon
  DEF Good, Known, SeedKnown, ItemsKnown, HasBubble, OneBubble
<1>4. Good(tParser)'
  BY <1>2, <1>3, SameGood
<1>5. ToolsInv' /\ LandInv' /\ IdsInv'
  BY <1>1, <1>2, Zenon
  DEF ToolsInv, LandInv, IdsInv, Landed, Pointed, EmptyBubble, IdsAreLines
<1> QED
  BY <1>4, <1>5 DEF ParserKept

LEMMA ParsesIs ==
  ASSUME TypesInv, Parses
  PROVE  Parse(tParser, Head(tReader.todo), tParser')
<1>1. tReader.todo \in Seq(Nat) /\ tReader.todo # <<>>
  BY DEF TypesInv, ReaderInv, ReaderType, Parses
<1>2. Head(tReader.todo) \in DOMAIN tEvents
  BY <1>1, TailIs DEF TypesInv, ReaderInv, TodoKnown
<1> QED
  BY <1>2 DEF Parse, Parses, TypesInv, ParserInv, Good, RestInv

LEMMA ParsesKeeps ==
  ASSUME TypesInv, LandInv, IdsInv, Parses
  PROVE  ParserKept'
<1>1. Parse(tParser, Head(tReader.todo), tParser')
  BY ParsesIs
<1>2. Same /\ tUndone' = tUndone /\ tProvider # "gemini"
  BY DEF Parses
<1>3. Good(tParser')
  BY <1>1, ParseKnown, ParseKeepsBubble DEF TypesInv, ParserInv, Good
<1>4. Good(tParser)'
  BY <1>2, <1>3, SameGood
<1>5. ToolsInv'
  BY <1>2 DEF Same, ToolsInv
<1>6. LandInv'
  <2>1. tUndone \/ (Landed(tParser') /\ Pointed(tParser'))
    BY <1>1, ParseLands DEF LandInv
  <2> QED
    BY <1>2, <2>1 DEF Same, LandInv, Landed, Pointed, CallOf
<1>7. IdsInv'
  <2>1. EmptyBubble(tParser') /\ IdsAreLines(tParser')
    BY <1>1, <1>2, ParseKeepsIds DEF IdsInv
  <2> QED
    BY <1>2, <2>1 DEF Same, IdsInv, EmptyBubble, IdsAreLines, Kind, CallOf
<1> QED
  BY <1>4, <1>5, <1>6, <1>7 DEF ParserKept

LEMMA RebuildsIs ==
  ASSUME TypesInv, Rebuilds
  PROVE  \E p : /\ Rebuilt(p, tFile.lines, tParser')
                /\ \/ p = tParser /\ tUndone' = tUndone
                   \/ p = T!NewParser /\ tUndone' = FALSE
<1>1. PICK p : /\ tParser' = T!RebuildTimeline(p, tFile.lines)
               /\ \/ p = tParser /\ tUndone' = tUndone
                  \/ p = T!NewParser /\ tUndone' = FALSE
  BY DEF Rebuilds
<1>2. /\ EventsInv /\ LinesOK(tFile.lines) /\ tPrompts \in 0..MaxPrompts
  BY DEF TypesInv, FileInv, RestInv
<1>3. p \in Parsers /\ SeedKnown(p)
  BY <1>1, <1>2, NewIs DEF TypesInv, ParserInv, Good, Known
<1> QED
  BY <1>1, <1>2, <1>3 DEF Rebuilt

LEMMA RebuildsKeeps ==
  ASSUME TypesInv, Rebuilds
  PROVE  ParserKept'
<1>1. PICK p : /\ Rebuilt(p, tFile.lines, tParser')
               /\ p = tParser \/ p = T!NewParser
  BY RebuildsIs
<1>2. Good(tParser') /\ Landed(tParser')
  BY <1>1, RebuildGood
<1>3. tProvider = "gemini" /\ Same
  BY DEF Rebuilds
<1>4. DOMAIN tParser'.tools = {}
  <2>1. DOMAIN p.tools = {}
    BY <1>1, <1>3, NewIs DEF TypesInv, RestInv, ParserInv, ToolsInv
  <2> QED
    BY <1>1, <2>1, RebuildIs
<1>5. Good(tParser)'
  BY <1>2, <1>3, SameGood
<1>6. ToolsInv' /\ IdsInv'
  BY <1>3, <1>4 DEF ToolsInv, IdsInv, Same
<1>7. LandInv'
  BY <1>2, <1>3, <1>4 DEF LandInv, Landed, Pointed, CallOf, Same
<1> QED
  BY <1>5, <1>6, <1>7 DEF ParserKept

LEMMA SeedIs ==
  ASSUME TypesInv, T!SeedPrompt
  PROVE  /\ UNCHANGED <<tProvider, tEvents, tUndone, tFile, tReader>>
         /\ tPrompts' = tPrompts + 1 /\ tPrompts' \in 0..MaxPrompts
         /\ tParser' \in Parsers /\ tParser'.tools = tParser.tools
         /\ tParser'.seed.prompt = tPrompts + 1
         /\ tParser'.items =
              Append(tParser.items, [id |-> -(tPrompts + 1), of |-> 0,
                                     result |-> 0])
         /\ Edit(tParser.items, tParser'.items, Len(tParser.items) + 1,
                 [id |-> -(tPrompts + 1), of |-> 0, result |-> 0])
<1> DEFINE bubble == [id |-> -(tPrompts + 1), of |-> 0, result |-> 0]
           items == Append(tParser.items, bubble)
<1>1. PICK from \in 1..(Len(tEvents) + 1) :
        tParser' = [tParser EXCEPT
          !.seed = [prompt |-> tPrompts', from |-> from,
                    after |-> Len(tEvents)],
          !.items = Append(@, [id |-> -tPrompts', of |-> T!Nothing,
                               result |-> 0])]
  BY DEF T!SeedPrompt
<1>2. /\ UNCHANGED <<tProvider, tEvents, tUndone, tFile, tReader>>
      /\ tPrompts' = tPrompts + 1 /\ tPrompts < MaxPrompts
  BY DEF T!SeedPrompt, T!agent
<1>3. /\ tPrompts \in Nat /\ tPrompts + 1 \in 0..MaxPrompts
      /\ Len(tEvents) \in Nat
  BY <1>2, LimitsAssumption
  DEF TypesInv, RestInv, EventsInv, EventsTyped
<1> DEFINE seed == [prompt |-> tPrompts + 1, from |-> from,
                    after |-> Len(tEvents)]
<1>4. tParser' = [tParser EXCEPT !.seed = seed, !.items = items]
  BY <1>1, <1>2 DEF T!Nothing
<1>5. seed \in Seeds /\ seed.prompt = tPrompts + 1
  BY <1>3 DEF Seeds
<1>6. bubble \in T!Item
  <2>1. /\ -(tPrompts + 1) \in (-MaxPrompts)..MaxEvents
        /\ 0 \in 0..MaxEvents
    BY <1>3, LimitsAssumption
  <2> QED
    BY <2>1 DEF T!Item
<1>7. tParser \in Parsers /\ tParser.items \in Seq(T!Item)
  BY DEF TypesInv, ParserInv, Good, Known, Parsers
<1> HIDE DEF bubble, seed
<1>8. /\ items \in Seq(T!Item)
      /\ Edit(tParser.items, items, Len(tParser.items) + 1, bubble)
  BY <1>6, <1>7, AppendEdits
<1> HIDE DEF items
<1>9. /\ tParser' \in Parsers /\ tParser'.tools = tParser.tools
      /\ tParser'.seed = seed /\ tParser'.items = items
  BY <1>4, <1>5, <1>7, <1>8 DEF Parsers
<1> QED
  BY <1>2, <1>3, <1>5, <1>8, <1>9 DEF items, bubble

LEMMA SeedKeeps ==
  ASSUME TypesInv, LandInv, IdsInv, T!SeedPrompt
  PROVE  ParserKept'
<1> DEFINE x == [id |-> -(tPrompts + 1), of |-> 0, result |-> 0]
           i == Len(tParser.items) + 1
<1>1. /\ UNCHANGED <<tProvider, tEvents, tUndone>>
      /\ tPrompts' = tPrompts + 1 /\ tPrompts' \in 0..MaxPrompts
      /\ tParser' \in Parsers /\ tParser'.tools = tParser.tools
      /\ tParser'.seed.prompt = tPrompts + 1
      /\ Edit(tParser.items, tParser'.items, i, x)
  BY SeedIs
<1>2. /\ tPrompts \in Nat /\ tParser.items \in Seq(T!Item)
      /\ Known(tParser)
  BY LimitsAssumption
  DEF TypesInv, RestInv, ParserInv, Good, Known, Parsers
<1>3. x.id = -(tPrompts + 1) /\ x.of = 0 /\ x.result = 0
  OBVIOUS
<1> HIDE DEF x
<1>4. /\ i \notin DOMAIN tParser.items /\ i \in DOMAIN tParser'.items
      /\ tParser'.items[i] = x
      /\ \A j \in DOMAIN tParser'.items :
           j # i => /\ j \in DOMAIN tParser.items
                    /\ tParser'.items[j] = tParser.items[j]
      /\ \A j \in DOMAIN tParser.items :
           /\ j \in DOMAIN tParser'.items
           /\ tParser'.items[j] = tParser.items[j]
  BY <1>1, <1>2 DEF Edit
<1> HIDE DEF i
<1>5. \A j \in DOMAIN tParser.items :
        /\ tParser.items[j].id \in Int /\ tParser.items[j].id >= -tPrompts
        /\ tParser.items[j].of <= Len(tEvents)
        /\ tParser.items[j].result <= Len(tEvents)
  BY <1>2, ItemFields DEF Known, ItemsKnown
<1>6. \A j \in DOMAIN tParser.items : tParser.items[j].id # -(tPrompts + 1)
  BY <1>2, <1>5
<1>7. Known(tParser)'
  <2>1. SeedKnown(tParser)'
    BY <1>1, <1>2 DEF SeedKnown
  <2>2. 0 <= Len(tEvents)
    BY DEF TypesInv, EventsInv, EventsTyped
  <2>3. /\ \A j \in DOMAIN tParser.items :
             tParser.items[j].id >= -(tPrompts + 1)
        /\ -(tPrompts + 1) >= -(tPrompts + 1)
    BY <1>2, <1>5
  <2>4. ItemsKnown(tParser)'
    <3> SUFFICES ASSUME NEW j \in DOMAIN tParser'.items
                 PROVE  /\ tParser'.items[j].id >= -(tPrompts + 1)
                        /\ tParser'.items[j].of <= Len(tEvents)
                        /\ tParser'.items[j].result <= Len(tEvents)
      BY <1>1 DEF ItemsKnown
    <3>1. CASE j = i
      BY <1>3, <1>4, <2>2, <2>3, <3>1
    <3>2. CASE j # i
      BY <1>4, <1>5, <2>3, <3>2
    <3> QED
      BY <3>1, <3>2
  <2> QED
    BY <1>1, <2>1, <2>4 DEF Known
<1>8. HasBubble(tParser)' /\ OneBubble(tParser)'
  <2>1. \A j \in DOMAIN tParser'.items :
          tParser'.items[j].id = -(tPrompts + 1) <=> j = i
    BY <1>3, <1>4, <1>6
  <2> QED
    BY <1>1, <1>4, <2>1 DEF HasBubble, OneBubble
<1>9. ToolsInv'
  BY <1>1 DEF TypesInv, ParserInv, ToolsInv
<1>10. LandInv'
  <2> SUFFICES ASSUME ~tUndone PROVE Landed(tParser)' /\ Pointed(tParser)'
    BY <1>1 DEF LandInv
  <2>1. Landed(tParser)'
    BY <1>1, <1>3, <1>4 DEF LandInv, Landed, CallOf
  <2>2. Pointed(tParser)'
    BY <1>1, <1>4 DEF LandInv, Pointed
  <2> QED
    BY <2>1, <2>2
<1>11. IdsInv'
  <2> SUFFICES ASSUME tProvider # "gemini"
               PROVE  EmptyBubble(tParser)' /\ IdsAreLines(tParser)'
    BY <1>1 DEF IdsInv
  <2>1. EmptyBubble(tParser)'
    BY <1>1, <1>3, <1>4, <1>6 DEF EmptyBubble
  <2>2. ~(x.id > 0)
    BY <1>2, <1>3
  <2>3. IdsAreLines(tParser)'
    BY <1>1, <1>4, <2>2 DEF IdsInv, IdsAreLines, Kind, CallOf
  <2> QED
    BY <2>1, <2>3
<1> QED
  BY <1>7, <1>8, <1>9, <1>10, <1>11 DEF ParserKept, Good

\* A rollback takes out one item or none.
LEMMA RollbackIs ==
  ASSUME TypesInv, T!RollbackPrompt
  PROVE  /\ UNCHANGED <<tProvider, tEvents, tPrompts, tFile, tReader>>
         /\ tUndone' = TRUE
         /\ tParser' \in Parsers /\ tParser'.tools = tParser.tools
         /\ tParser'.seed = T!NoSeed
         /\ \E i \in Nat \ {0} :
              \A j \in DOMAIN tParser'.items :
                /\ (IF j < i THEN j ELSE j + 1) \in DOMAIN tParser.items
                /\ tParser'.items[j]
                     = tParser.items[IF j < i THEN j ELSE j + 1]
<1> DEFINE M == {i \in DOMAIN tParser.items : tParser.items[i].id = -tPrompts}
           items == IF M = {} THEN tParser.items
                    ELSE T!RemoveAt(tParser.items, CHOOSE i \in M : TRUE)
<1>1. /\ UNCHANGED <<tProvider, tEvents, tPrompts, tFile, tReader>>
      /\ tUndone' = TRUE
      /\ tParser' = [tParser EXCEPT !.seed = T!NoSeed, !.items = items]
  BY DEF T!RollbackPrompt, T!agent
<1>2. tParser \in Parsers /\ tParser.items \in Seq(T!Item)
  BY DEF TypesInv, ParserInv, Good, Known, Parsers
<1>3. T!NoSeed \in Seeds
  BY LimitsAssumption DEF T!NoSeed, Seeds
<1>4. /\ items \in Seq(T!Item)
      /\ \E i \in Nat \ {0} :
           \A j \in DOMAIN items :
             /\ (IF j < i THEN j ELSE j + 1) \in DOMAIN tParser.items
             /\ items[j] = tParser.items[IF j < i THEN j ELSE j + 1]
  <2>0. DOMAIN tParser.items = 1..Len(tParser.items)
        /\ Len(tParser.items) \in Nat
    BY <1>2
  <2>1. CASE M = {}
    <3>1. items = tParser.items
      BY <2>1
    <3> HIDE DEF items, M
    <3>2. \A j \in DOMAIN items : j < Len(tParser.items) + 1
      BY <2>0, <3>1
    <3>3. Len(tParser.items) + 1 \in Nat \ {0}
      BY <2>0
    <3> QED
      BY <1>2, <3>1, <3>2, <3>3
  <2>2. CASE M # {}
    <3> DEFINE k == CHOOSE i \in M : TRUE
    <3>1. k \in DOMAIN tParser.items /\ items = T!RemoveAt(tParser.items, k)
      BY <2>2
    <3> HIDE DEF items, M, k
    <3>2. /\ items \in Seq(T!Item) /\ Len(items) = Len(tParser.items) - 1
          /\ \A j \in DOMAIN items :
               items[j] = tParser.items[IF j < k THEN j ELSE j + 1]
      BY <1>2, <3>1, RemoveIs
    <3>3. DOMAIN items = 1..(Len(tParser.items) - 1) /\ k \in Nat \ {0}
      BY <2>0, <3>1, <3>2
    <3>4. \A j \in DOMAIN items :
            (IF j < k THEN j ELSE j + 1) \in DOMAIN tParser.items
      BY <2>0, <3>1, <3>3
    <3> QED
      BY <3>2, <3>3, <3>4
  <2> QED
    BY <2>1, <2>2
<1> HIDE DEF items
<1>5. /\ tParser' \in Parsers /\ tParser'.tools = tParser.tools
      /\ tParser'.seed = T!NoSeed /\ tParser'.items = items
  BY <1>1, <1>2, <1>3, <1>4 DEF Parsers
<1> QED
  BY <1>1, <1>4, <1>5

LEMMA RollbackKeeps ==
  ASSUME TypesInv, LandInv, IdsInv, T!RollbackPrompt
  PROVE  ParserKept'
<1>1. /\ UNCHANGED <<tProvider, tEvents, tPrompts>>
      /\ tUndone' = TRUE
      /\ tParser' \in Parsers /\ tParser'.tools = tParser.tools
      /\ tParser'.seed = T!NoSeed
      /\ \A j \in DOMAIN tParser'.items :
           \E k \in DOMAIN tParser.items :
             tParser'.items[j] = tParser.items[k]
  BY RollbackIs
<1>2. ItemsKnown(tParser)'
  BY <1>1 DEF TypesInv, ParserInv, Good, Known, ItemsKnown
<1>3. Good(tParser)'
  BY <1>1, <1>2 DEF Good, Known, SeedKnown, HasBubble, OneBubble
<1>4. ToolsInv' /\ LandInv'
  BY <1>1 DEF TypesInv, ParserInv, ToolsInv, LandInv
<1>5. IdsInv'
  <2> SUFFICES ASSUME tProvider # "gemini" PROVE IdsAreLines(tParser)'
    BY <1>1 DEF IdsInv, EmptyBubble
  <2> QED
    BY <1>1 DEF IdsInv, IdsAreLines, Kind, CallOf
<1> QED
  BY <1>3, <1>4, <1>5 DEF ParserKept

\* Whatever a step does to the parser keeps what holds of it.
LEMMA ParserKeeps ==
  ASSUME TypesInv, LandInv, IdsInv, [T!Next]_T!vars
  PROVE  ParserKept'
BY ParserMoves, GrowsKeeps, ResetsKeeps, ParsesKeeps, RebuildsKeeps,
   SeedKeeps, RollbackKeeps

-----------------------------------------------------------------------------
(* The types are kept.                                                     *)

LEMMA EventsGrow ==
  ASSUME TypesInv, [T!Next]_T!vars
  PROVE  /\ EventsInv' /\ Len(tEvents) <= Len(tEvents)'
         /\ DOMAIN tEvents \subseteq DOMAIN tEvents'
         /\ \A n \in DOMAIN tEvents : /\ Kind(n)' = Kind(n)
                                      /\ CallOf(n)' = CallOf(n)
         /\ tProvider' = tProvider
<1>1. CASE Grows
  BY <1>1, GrowsIs DEF TypesInv, Grows
<1>2. CASE tEvents' = tEvents /\ tProvider' = tProvider
  <2>1. EventsInv'
    BY <1>2 DEF TypesInv, EventsInv, EventsTyped, EchoesAreMessages,
                ResultsHaveCalls, OthersHaveNone, Kind, CallOf
  <2>2. Len(tEvents) \in Nat
    BY DEF TypesInv, EventsInv, EventsTyped
  <2> QED
    BY <1>2, <2>1, <2>2 DEF Kind, CallOf
<1> QED
  BY <1>1, <1>2, ParserMoves, SeedIs, RollbackIs
  DEF Resets, Parses, Rebuilds, Same

LEMMA FileMoves ==
  ASSUME [T!Next]_T!vars
  PROVE  T!BeginLine \/ T!EndLine \/ T!Restart \/ UNCHANGED <<tFile, tEvents>>
BY DEF T!Next, T!ReadFromBeginning, T!PollReset, T!Poll, T!DeliverLine,
       T!ReadComplete, T!MergeReader, T!PollPartial, T!PollWhole,
       T!SeedPrompt, T!MergePrompt, T!Written, T!RollbackPrompt, T!vars,
       T!agent

LEMMA BeginIs ==
  ASSUME TypesInv, T!BeginLine
  PROVE  /\ tFile' \in FileType /\ tFile'.lines = tFile.lines
         /\ tFile'.half = Len(tEvents) + 1 /\ tFile.half = 0
         /\ tFile'.inode = tFile.inode /\ tFile'.session = tFile.session
         /\ Len(tEvents)' = Len(tEvents) + 1
<1>1. Len(tEvents)' = Len(tEvents) + 1
  BY BeginGrows DEF TypesInv
<1>2. /\ tFile.half = 0
      /\ tFile' = [tFile EXCEPT !.half = Len(tEvents) + 1]
      /\ Len(tEvents) + 1 \in Nat /\ tFile \in FileType
  BY DEF T!BeginLine, T!Nothing, TypesInv, FileInv, EventsInv, EventsTyped
<1> QED
  BY <1>1, <1>2 DEF FileType

LEMMA EndIs ==
  ASSUME TypesInv, T!EndLine
  PROVE  /\ tFile' \in FileType /\ tFile.half # 0 /\ tFile'.half = 0
         /\ tFile'.lines = Append(tFile.lines, tFile.half)
         /\ tFile'.inode = tFile.inode /\ tFile'.session = tFile.session
         /\ tEvents' = tEvents
<1>1. /\ tFile.half # 0 /\ tEvents' = tEvents
      /\ tFile' = [tFile EXCEPT !.lines = Append(tFile.lines, tFile.half),
                                !.half = 0]
      /\ tFile \in FileType
  BY DEF T!EndLine, T!Nothing, TypesInv, FileInv
<1>2. Append(tFile.lines, tFile.half) \in Seq(Nat)
  BY <1>1 DEF FileType
<1> QED
  BY <1>1, <1>2 DEF FileType

LEMMA RestartIs ==
  ASSUME TypesInv, T!Restart
  PROVE  /\ tFile' \in FileType /\ tFile'.half = 0 /\ tFile'.lines = <<>>
         /\ tFile'.session = tFile.session + 1 /\ tEvents' = tEvents
<1>1. PICK inode \in {tFile.inode, tFile.inode + 1} :
        tFile' = [inode |-> inode, session |-> tFile.session + 1,
                  lines |-> <<>>, half |-> 0]
  BY DEF T!Restart, T!Nothing
<1>2. tFile \in FileType /\ <<>> \in Seq(Nat)
  BY DEF TypesInv, FileInv
<1>3. inode \in Nat \ {0} /\ tFile.session + 1 \in Nat \ {0}
  BY <1>1, <1>2 DEF FileType
<1>4. tEvents' = tEvents
  BY DEF T!Restart
<1> QED
  BY <1>1, <1>2, <1>3, <1>4 DEF FileType

\* The file grows, or is another with a later session.
LEMMA FileKept ==
  ASSUME TypesInv, [T!Next]_T!vars
  PROVE  /\ FileInv' /\ tFile.session <= tFile'.session
<1>0. /\ tFile \in FileType /\ tFile.half <= Len(tEvents)
      /\ LinesOK(tFile.lines) /\ Len(tEvents) \in Nat
      /\ DOMAIN tEvents = 1..Len(tEvents)
      /\ \A i \in DOMAIN tFile.lines :
           tFile.half # 0 => tFile.lines[i] < tFile.half
  BY DEF TypesInv, FileInv, EventsInv, EventsTyped
<1>1. CASE T!BeginLine
  <2>1. /\ tFile' \in FileType /\ tFile'.lines = tFile.lines
        /\ tFile'.half = Len(tEvents) + 1 /\ tFile'.session = tFile.session
        /\ Len(tEvents)' = Len(tEvents) + 1
        /\ DOMAIN tEvents \subseteq DOMAIN tEvents'
    BY <1>1, BeginIs, EventsGrow
  <2>2. LinesOK(tFile.lines)'
    BY <1>0, <2>1 DEF LinesOK, Increasing
  <2>3. \A i \in DOMAIN tFile'.lines : tFile'.lines[i] < tFile'.half
    BY <1>0, <2>1 DEF LinesOK
  <2> QED
    BY <1>0, <2>1, <2>2, <2>3 DEF FileInv, FileType
<1>2. CASE T!EndLine
  <2>1. /\ tFile' \in FileType /\ tFile.half # 0 /\ tFile'.half = 0
        /\ tFile'.lines = Append(tFile.lines, tFile.half)
        /\ tFile'.session = tFile.session /\ tEvents' = tEvents
    BY <1>2, EndIs
  <2>2. /\ tFile.lines \in Seq(Nat) /\ tFile.half \in DOMAIN tEvents
        /\ tFile.half \in Nat /\ tFile.session \in Nat
    BY <1>0, <2>1 DEF FileType
  <2>3. LinesOK(tFile.lines)'
    <3>1. tFile'.lines \in Seq(Nat)
      BY <2>1 DEF FileType
    <3>2. /\ Len(tFile.lines) \in Nat
          /\ DOMAIN tFile'.lines = 1..(Len(tFile.lines) + 1)
          /\ DOMAIN tFile.lines = 1..Len(tFile.lines)
          /\ \A i \in DOMAIN tFile.lines : tFile'.lines[i] = tFile.lines[i]
          /\ tFile'.lines[Len(tFile.lines) + 1] = tFile.half
      BY <2>1, <2>2
    <3>3. \A i \in DOMAIN tFile'.lines : tFile'.lines[i] \in DOMAIN tEvents'
      BY <1>0, <2>1, <2>2, <3>2 DEF LinesOK
    <3>4. Increasing(tFile.lines)'
      BY <1>0, <2>1, <2>2, <3>2 DEF LinesOK, Increasing
    <3> QED
      BY <3>1, <3>3, <3>4 DEF LinesOK, Increasing
  <2>4. tFile'.half <= Len(tEvents)'
    BY <1>0, <2>1
  <2> QED
    BY <2>1, <2>2, <2>3, <2>4 DEF FileInv
<1>3. CASE T!Restart
  <2>1. /\ tFile' \in FileType /\ tFile'.half = 0 /\ tFile'.lines = <<>>
        /\ tFile'.session = tFile.session + 1 /\ tEvents' = tEvents
    BY <1>3, RestartIs
  <2>2. <<>> \in Seq(Nat) /\ DOMAIN <<>> = {}
    OBVIOUS
  <2>3. LinesOK(tFile.lines)'
    BY <2>1, <2>2 DEF LinesOK, Increasing
  <2>4. tFile'.half <= Len(tEvents)' /\ tFile.session <= tFile'.session
    BY <1>0, <2>1 DEF FileType
  <2> QED
    BY <2>1, <2>3, <2>4 DEF FileInv
<1>4. CASE UNCHANGED <<tFile, tEvents>>
  BY <1>0, <1>4 DEF TypesInv, FileInv, FileType, LinesOK, Increasing
<1> QED
  BY <1>1, <1>2, <1>3, <1>4, FileMoves

LEMMA ReaderMoves ==
  ASSUME [T!Next]_T!vars
  PROVE  \/ UNCHANGED tReader
         \/ /\ UNCHANGED <<tFile, tEvents, tProvider>>
            /\ \/ T!ReadFromBeginning \/ T!PollReset \/ T!Poll
               \/ T!DeliverLine \/ T!ReadComplete \/ T!MergeReader
               \/ T!PollPartial \/ T!PollWhole
<1>1. CASE T!BeginLine \/ T!EndLine \/ T!Restart
  BY <1>1 DEF T!BeginLine, T!EndLine, T!Restart
<1>3. CASE T!SeedPrompt \/ T!MergePrompt \/ T!Written \/ T!RollbackPrompt
  BY <1>3 DEF T!SeedPrompt, T!MergePrompt, T!Written, T!RollbackPrompt
<1>4. CASE UNCHANGED T!vars
  BY <1>4 DEF T!vars
<1>2. CASE \/ T!ReadFromBeginning \/ T!PollReset \/ T!Poll
           \/ T!DeliverLine \/ T!ReadComplete \/ T!MergeReader
           \/ T!PollPartial \/ T!PollWhole
  <2>1. UNCHANGED <<tFile, tEvents, tProvider>>
    BY <1>2, Zenon
    DEF T!ReadFromBeginning, T!PollReset, T!Poll, T!DeliverLine,
        T!ReadComplete, T!MergeReader, T!PollPartial, T!PollWhole, T!agent
  <2> QED
    BY <1>2, <2>1
<1> QED
  BY <1>1, <1>2, <1>3, <1>4 DEF T!Next

LEMMA ItemsAre ==
  ASSUME Good(tParser)
  PROVE  tParser.items \in Seq(T!Item)
BY DEF Good, Known, Parsers

LEMMA NoItems ==
  /\ <<>> \in Seq(T!Item) /\ <<>> \in Seq(Nat) /\ DOMAIN <<>> = {}
OBVIOUS

LEMMA FileIs ==
  ASSUME TypesInv
  PROVE  /\ T!Size(tFile) \in Nat /\ tFile.lines \in Seq(Nat)
         /\ tFile.half \in Nat /\ tFile.inode \in Nat \ {0}
         /\ tFile.session \in Nat \ {0} /\ tReader \in ReaderType
         /\ \A i \in DOMAIN tFile.lines : tFile.lines[i] \in DOMAIN tEvents
<1>1. tFile \in FileType /\ tReader \in ReaderType /\ LinesOK(tFile.lines)
  BY DEF TypesInv, FileInv, ReaderInv
<1>2. T!Size(tFile) \in Nat
  BY <1>1, SizeIs
<1> QED
  BY <1>1, <1>2 DEF FileType, LinesOK

\* What each step of the reader leaves it with.
LEMMA ReadFromBeginningIs ==
  ASSUME TypesInv, T!ReadFromBeginning
  PROVE  /\ tReader' \in ReaderType /\ tReader'.todo = tFile.lines
         /\ tReader'.at = "lines" /\ tReader'.offset = T!Size(tFile)
         /\ tReader'.inode = tFile.inode /\ tReader'.session = tFile.session
         /\ tReader'.buf = tFile.half /\ tReader'.merge = tReader.merge
BY FileIs DEF T!ReadFromBeginning, ReaderType

LEMMA PollIs ==
  ASSUME TypesInv, T!Poll
  PROVE  /\ tReader' \in ReaderType /\ tReader'.todo = T!NewLines
         /\ tReader'.at = IF T!NewLines = <<>> THEN "idle" ELSE "lines"
         /\ tReader'.offset = T!Size(tFile)
         /\ tReader'.inode = tReader.inode
         /\ tReader'.session = IF tReader.offset = 0 THEN tFile.session
                                                     ELSE tReader.session
         /\ tReader'.buf = tFile.half /\ tReader'.merge = tReader.merge
<1>1. T!NewLines \in Seq(Nat)
  BY NewLinesAre DEF TypesInv
<1>2. tReader' = [tReader EXCEPT !.offset = T!Size(tFile),
                     !.buf = tFile.half,
                     !.session = IF tReader.offset = 0 THEN tFile.session
                                                       ELSE tReader.session,
                     !.todo = T!NewLines,
                     !.at = IF T!NewLines = <<>> THEN "idle" ELSE "lines"]
  BY DEF T!Poll
<1>3. tReader.session \in Nat /\ tReader \in ReaderType
  BY DEF TypesInv, ReaderInv, ReaderType
<1> DEFINE session == IF tReader.offset = 0 THEN tFile.session
                                            ELSE tReader.session
           at == IF T!NewLines = <<>> THEN "idle" ELSE "lines"
<1>4. session \in Nat /\ at \in {"idle", "lines"}
  BY <1>3, FileIs
<1>5. tReader' = [tReader EXCEPT !.offset = T!Size(tFile),
                     !.buf = tFile.half, !.session = session,
                     !.todo = T!NewLines, !.at = at]
  BY <1>2
<1> HIDE DEF session, at
<1>6. /\ tReader' \in ReaderType /\ tReader'.todo = T!NewLines
      /\ tReader'.at = at /\ tReader'.session = session
      /\ tReader'.offset = T!Size(tFile)
      /\ tReader'.inode = tReader.inode
      /\ tReader'.buf = tFile.half /\ tReader'.merge = tReader.merge
  BY <1>1, <1>3, <1>4, <1>5, FileIs DEF ReaderType
<1> QED
  BY <1>6 DEF session, at

LEMMA DeliverIs ==
  ASSUME TypesInv, T!DeliverLine, Good(tParser)'
  PROVE  /\ tReader' \in ReaderType /\ tReader'.todo = Tail(tReader.todo)
         /\ tReader.at = "lines" /\ tReader.todo # <<>>
         /\ tReader'.at = IF tState = "live" THEN "merge" ELSE "lines"
         /\ tState = "live" => tReader'.merge = tParser'.items
         /\ tReader'.offset = tReader.offset
         /\ tReader'.inode = tReader.inode
         /\ tReader'.session = tReader.session
         /\ tReader'.buf = tReader.buf
<1>1. tReader.todo # <<>> /\ tReader.at = "lines"
  BY DEF T!DeliverLine
<1>2. tReader.todo \in Seq(Nat) /\ tReader \in ReaderType
  BY DEF TypesInv, ReaderInv, ReaderType
<1> DEFINE todo == Tail(tReader.todo)
           at == IF tState = "live" THEN "merge" ELSE "lines"
           merge == IF tState = "live" THEN tParser'.items ELSE <<>>
<1>3. todo \in Seq(Nat)
  BY <1>1, <1>2
<1>4. at \in {"merge", "lines"}
  OBVIOUS
<1>5. merge \in Seq(T!Item)
  <2>1. tParser'.items \in Seq(T!Item)
    BY DEF Good, Known, Parsers
  <2> QED
    BY <2>1, NoItems
<1>6. tReader' = [tReader EXCEPT !.todo = todo, !.at = at, !.merge = merge]
  BY DEF T!DeliverLine
<1> HIDE DEF todo, at, merge
<1>7. /\ tReader' \in ReaderType /\ tReader'.todo = todo
      /\ tReader'.at = at /\ tReader'.merge = merge
      /\ tReader'.offset = tReader.offset
      /\ tReader'.inode = tReader.inode
      /\ tReader'.session = tReader.session
      /\ tReader'.buf = tReader.buf
  BY <1>2, <1>3, <1>4, <1>5, <1>6 DEF ReaderType
<1> QED
  BY <1>1, <1>7 DEF todo, at, merge

LEMMA ReadCompleteIs ==
  ASSUME TypesInv, T!ReadComplete
  PROVE  /\ tReader' \in ReaderType /\ tReader'.todo = <<>>
         /\ tReader.at = "lines" /\ tReader.todo = <<>>
         /\ tReader'.at = "merge" /\ tReader'.merge = tParser.items
         /\ tReader'.offset = tReader.offset
         /\ tReader'.inode = tReader.inode
         /\ tReader'.session = tReader.session
         /\ tReader'.buf = tReader.buf
<1>1. tParser.items \in Seq(T!Item)
  BY ItemsAre DEF TypesInv, ParserInv
<1>2. /\ tReader.todo = <<>> /\ tReader.at = "lines"
      /\ tReader' = [tReader EXCEPT !.at = "merge", !.batch = FALSE,
                                    !.merge = tParser.items]
      /\ tReader \in ReaderType
  BY DEF T!ReadComplete, TypesInv, ReaderInv
<1> QED
  BY <1>1, <1>2 DEF ReaderType

LEMMA MergeReaderIs ==
  ASSUME TypesInv, T!MergeReader
  PROVE  /\ tReader' \in ReaderType /\ tReader'.todo = tReader.todo
         /\ tReader.at = "merge"
         /\ tReader'.at = IF tReader.todo = <<>> THEN "idle" ELSE "lines"
         /\ tReader'.offset = tReader.offset
         /\ tReader'.inode = tReader.inode
         /\ tReader'.session = tReader.session
         /\ tReader'.buf = tReader.buf
<1> DEFINE at == IF tReader.todo = <<>> THEN "idle" ELSE "lines"
<1>1. /\ tReader' = [tReader EXCEPT !.merge = <<>>, !.at = at]
      /\ tReader.at = "merge" /\ tReader \in ReaderType
  BY DEF T!MergeReader, TypesInv, ReaderInv
<1>2. at \in {"idle", "lines"} /\ <<>> \in Seq(T!Item)
  BY NoItems
<1> HIDE DEF at
<1>3. /\ tReader' \in ReaderType /\ tReader'.todo = tReader.todo
      /\ tReader'.at = at /\ tReader'.offset = tReader.offset
      /\ tReader'.inode = tReader.inode
      /\ tReader'.session = tReader.session
      /\ tReader'.buf = tReader.buf
  BY <1>1, <1>2 DEF ReaderType
<1> QED
  BY <1>1, <1>3 DEF at

LEMMA PollResetIs ==
  ASSUME TypesInv, T!PollReset
  PROVE  /\ tReader' \in ReaderType /\ tReader'.todo = tReader.todo
         /\ tReader.at = "idle" /\ tReader'.at = "start"
         /\ tReader'.session = tReader.session /\ tProvider # "gemini"
BY DEF T!PollReset, TypesInv, ReaderInv, ReaderType

LEMMA PollPartialIs ==
  ASSUME TypesInv, T!PollPartial
  PROVE  /\ tReader' \in ReaderType /\ tReader'.todo = tReader.todo
         /\ tReader.at \in {"start", "idle"} /\ tProvider = "gemini"
         /\ tReader'.at \in {tReader.at, "idle"}
         /\ \/ /\ tReader'.inode = 0 /\ tReader'.session = 0
               /\ tReader'.offset = 0
            \/ /\ tReader'.inode = tReader.inode
               /\ tReader'.session = tReader.session
               /\ tReader'.offset = tReader.offset
               /\ tReader'.at = "idle"
<1>1. /\ tReader.at \in {"start", "idle"} /\ tProvider = "gemini"
      /\ tReader \in ReaderType
  BY DEF T!PollPartial, TypesInv, ReaderInv
<1>2. \/ tReader' = [tReader EXCEPT !.inode = 0, !.session = 0, !.offset = 0]
      \/ tReader' = [tReader EXCEPT !.at = "idle"]
  BY Zenon DEF T!PollPartial
<1>3. CASE tReader' = [tReader EXCEPT !.inode = 0, !.session = 0, !.offset = 0]
  BY <1>1, <1>3 DEF ReaderType
<1>4. CASE tReader' = [tReader EXCEPT !.at = "idle"]
  BY <1>1, <1>4 DEF ReaderType
<1> QED
  BY <1>1, <1>2, <1>3, <1>4

LEMMA PollWholeIs ==
  ASSUME TypesInv, T!PollWhole, Good(tParser)'
  PROVE  /\ tReader' \in ReaderType /\ tReader'.todo = tReader.todo
         /\ tReader.at \in {"start", "idle"} /\ tProvider = "gemini"
         /\ tReader'.at = "merge" /\ tReader'.merge = tParser'.items
         /\ tReader'.inode = tFile.inode /\ tReader'.session = tFile.session
         /\ tReader'.offset = T!Size(tFile) /\ tFile.half = 0
<1>1. /\ tReader' = [tReader EXCEPT !.at = "merge", !.merge = tParser'.items,
                        !.inode = tFile.inode, !.session = tFile.session,
                        !.offset = T!Size(tFile)]
      /\ tReader.at \in {"start", "idle"} /\ tProvider = "gemini"
      /\ tFile.half = 0
  BY Zenon DEF T!PollWhole, T!Nothing
<1>2. tParser'.items \in Seq(T!Item)
  BY DEF Good, Known, Parsers
<1> QED
  BY <1>1, <1>2, FileIs DEF ReaderType

\* The reader stays well placed.
LEMMA ReaderKept ==
  ASSUME TypesInv, [T!Next]_T!vars, Good(tParser)'
  PROVE  ReaderInv'
<1>1. /\ tReader \in ReaderType /\ TodoKnown
      /\ tReader.at \in {"start", "idle"} => tReader.todo = <<>>
      /\ tProvider = "gemini" => tReader.at # "lines" /\ tReader.todo = <<>>
      /\ tProvider = "gemini" /\ tReader.at = "start" => tReader.inode = 0
      /\ tReader.session <= tFile.session
      /\ tReader.session \in Nat /\ tFile.session \in Nat \ {0}
  BY FileIs DEF TypesInv, ReaderInv, ReaderType
<1>2. CASE UNCHANGED tReader
  <2>1. /\ DOMAIN tEvents \subseteq DOMAIN tEvents'
        /\ tProvider' = tProvider /\ tFile.session <= tFile'.session
        /\ tFile'.session \in Nat
    BY EventsGrow, FileKept DEF FileInv, FileType
  <2>2. tReader.session <= tFile'.session
    BY <1>1, <2>1
  <2> QED
    BY <1>1, <1>2, <2>1, <2>2 DEF ReaderInv, TodoKnown
<1>3. ASSUME UNCHANGED <<tFile, tEvents, tProvider>>,
             \/ T!ReadFromBeginning \/ T!PollReset \/ T!Poll
             \/ T!DeliverLine \/ T!ReadComplete \/ T!MergeReader
             \/ T!PollPartial \/ T!PollWhole
      PROVE  ReaderInv'
  <2>1. CASE T!ReadFromBeginning
    <3>1. tProvider # "gemini"
      BY <2>1 DEF T!ReadFromBeginning
    <3> QED
      BY <1>1, <1>3, <2>1, <3>1, ReadFromBeginningIs, FileIs
      DEF ReaderInv, TodoKnown
  <2>2. CASE T!PollReset
    BY <1>1, <1>3, <2>2, PollResetIs DEF ReaderInv, TodoKnown
  <2>3. CASE T!Poll
    <3>1. tProvider # "gemini"
      BY <2>3 DEF T!Poll
    <3>2. \A i \in DOMAIN T!NewLines : T!NewLines[i] \in DOMAIN tEvents
      BY NewLinesAre DEF TypesInv
    <3>3. tReader'.session <= tFile.session
      BY <1>1, <2>3, PollIs
    <3> QED
      BY <1>1, <1>3, <2>3, <3>1, <3>2, <3>3, PollIs
      DEF ReaderInv, TodoKnown
  <2>4. CASE T!DeliverLine
    <3>1. tReader.todo # <<>> /\ tReader.todo \in Seq(Nat)
      BY <1>1, <2>4 DEF T!DeliverLine, ReaderType
    <3>2. \A i \in DOMAIN Tail(tReader.todo) :
            Tail(tReader.todo)[i] \in DOMAIN tEvents
      BY <1>1, <3>1, TailIs DEF TodoKnown
    <3> QED
      BY <1>1, <1>3, <2>4, <3>1, <3>2, DeliverIs DEF ReaderInv, TodoKnown
  <2>5. CASE T!ReadComplete
    BY <1>1, <1>3, <2>5, ReadCompleteIs, NoItems DEF ReaderInv, TodoKnown
  <2>6. CASE T!MergeReader
    BY <1>1, <1>3, <2>6, MergeReaderIs DEF ReaderInv, TodoKnown
  <2>7. CASE T!PollPartial
    BY <1>1, <1>3, <2>7, PollPartialIs DEF ReaderInv, TodoKnown
  <2>8. CASE T!PollWhole
    BY <1>1, <1>3, <2>8, PollWholeIs DEF ReaderInv, TodoKnown
  <2> QED
    BY <1>3, <2>1, <2>2, <2>3, <2>4, <2>5, <2>6, <2>7, <2>8
<1> QED
  BY <1>2, <1>3, ReaderMoves

LEMMA RestKept ==
  ASSUME TypesInv, [T!Next]_T!vars, Good(tParser)'
  PROVE  RestInv'
<1>0. /\ tProvider \in Agents /\ tResets \in 0..MaxResets
      /\ tHidden \in BOOLEAN
      /\ tState \in {"initial", "reset", "live"} /\ tPrompt \in PromptType
      /\ tPrompts \in 0..MaxPrompts /\ tUndone \in BOOLEAN
      /\ tRaced \in BOOLEAN /\ tShown \in Seq(T!Item)
      /\ tReader.merge \in Seq(T!Item) /\ tPrompt.merge \in Seq(T!Item)
  BY DEF TypesInv, RestInv, PromptType, ReaderInv, ReaderType
<1>1. tProvider' \in Agents
  BY <1>0, EventsGrow
<1>9. tResets' \in 0..MaxResets
  <2>1. \/ tResets' = tResets
        \/ tResets < MaxResets /\ tResets' = tResets + 1
    BY Zenon
    DEF T!Next, T!BeginLine, T!EndLine, T!Restart, T!ReadFromBeginning,
        T!PollReset, T!Poll, T!DeliverLine, T!ReadComplete, T!MergeReader,
        T!PollPartial, T!PollWhole, T!SeedPrompt, T!MergePrompt, T!Written,
        T!RollbackPrompt, T!vars, T!agent
  <2> QED
    BY <1>0, <2>1, LimitsAssumption
<1>2. tHidden' \in BOOLEAN
  BY <1>0, ZenonT(30)
  DEF T!Next, T!BeginLine, T!EndLine, T!Restart, T!ReadFromBeginning,
      T!PollReset, T!Poll, T!DeliverLine, T!ReadComplete, T!MergeReader,
      T!PollPartial, T!PollWhole, T!SeedPrompt, T!MergePrompt, T!Written,
      T!RollbackPrompt, T!vars, T!agent
<1>3. tState' \in {"initial", "reset", "live"}
  BY <1>0
  DEF T!Next, T!BeginLine, T!EndLine, T!Restart, T!ReadFromBeginning,
      T!PollReset, T!Poll, T!DeliverLine, T!ReadComplete, T!MergeReader,
      T!PollPartial, T!PollWhole, T!SeedPrompt, T!MergePrompt, T!Written,
      T!RollbackPrompt, T!vars, T!Reset
<1>4. tShown' \in Seq(T!Item)
  BY <1>0
  DEF T!Next, T!BeginLine, T!EndLine, T!Restart, T!ReadFromBeginning,
      T!PollReset, T!Poll, T!DeliverLine, T!ReadComplete, T!MergeReader,
      T!PollPartial, T!PollWhole, T!SeedPrompt, T!MergePrompt, T!Written,
      T!RollbackPrompt, T!vars
<1>5. tPrompts' \in 0..MaxPrompts
  BY <1>0, ParserMoves, SeedIs, RollbackIs
  DEF Grows, Resets, Parses, Rebuilds, Same
<1>6. tUndone' \in BOOLEAN
  BY <1>0, ParserMoves, SeedIs, RollbackIs
  DEF Grows, Resets, Parses, Rebuilds, Same
<1>7. tRaced' \in BOOLEAN
  <2>1. \/ tRaced' = tRaced
        \/ tRaced' = (tPrompt.at \in {"seeded", "removed"})
        \/ tRaced' = (tReader.at = "merge")
    BY ZenonT(30)
    DEF T!Next, T!BeginLine, T!EndLine, T!Restart, T!ReadFromBeginning,
        T!PollReset, T!Poll, T!DeliverLine, T!ReadComplete, T!MergeReader,
        T!PollPartial, T!PollWhole, T!SeedPrompt, T!MergePrompt, T!Written,
        T!RollbackPrompt, T!vars, T!ghosts
  <2>2. /\ (tPrompt.at \in {"seeded", "removed"}) \in BOOLEAN
        /\ (tReader.at = "merge") \in BOOLEAN
    OBVIOUS
  <2> QED
    BY <1>0, <2>1, <2>2, Zenon
<1>8. tPrompt' \in PromptType
  <2>1. \/ UNCHANGED tPrompt
        \/ tPrompt' = [at |-> "seeded", merge |-> tParser'.items]
        \/ tPrompt' = [at |-> "removed", merge |-> tParser'.items]
        \/ tPrompt' = [at |-> "write", merge |-> <<>>]
        \/ tPrompt' = [at |-> "idle", merge |-> <<>>]
        \/ tPrompt' = [tPrompt EXCEPT !.at = "idle"]
    BY DEF T!Next, T!BeginLine, T!EndLine, T!Restart, T!ReadFromBeginning,
           T!PollReset, T!Poll, T!DeliverLine, T!ReadComplete, T!MergeReader,
           T!PollPartial, T!PollWhole, T!SeedPrompt, T!MergePrompt,
           T!Written, T!RollbackPrompt, T!vars
  <2>2. tParser'.items \in Seq(T!Item)
    BY DEF Good, Known, Parsers
  <2>3. [tPrompt EXCEPT !.at = "idle"] \in PromptType
    BY <1>0 DEF PromptType
  <2>4. \A a \in {"seeded", "removed", "write", "idle"}, m \in Seq(T!Item) :
          [at |-> a, merge |-> m] \in PromptType
    BY DEF PromptType
  <2> QED
    BY <1>0, <2>1, <2>2, <2>3, <2>4, NoItems
<1> QED
  BY <1>1, <1>2, <1>3, <1>4, <1>5, <1>6, <1>7, <1>8, <1>9
  DEF RestInv

ChatTypes == TypesInv /\ LandInv /\ IdsInv

\* All the types, with the parser's part of the invariant.
LEMMA TypesKept ==
  ASSUME ChatTypes, [T!Next]_T!vars
  PROVE  ChatTypes'
<1>1. TypesInv /\ LandInv /\ IdsInv
  BY DEF ChatTypes
<1>2. Good(tParser)' /\ ToolsInv' /\ LandInv' /\ IdsInv'
  BY <1>1, ParserKeeps DEF ParserKept
<1>3. EventsInv' /\ FileInv' /\ ReaderInv' /\ RestInv'
  BY <1>1, <1>2, EventsGrow, FileKept, ReaderKept, RestKept
<1> QED
  BY <1>2, <1>3 DEF ChatTypes, TypesInv, ParserInv

-----------------------------------------------------------------------------
(* What is stored, or on its way there, are the items of the parser.       *)

Takes == tPrompt.at \in {"seeded", "removed"}

\* Merges that did not overlap carry the parser's items: while one is on
\* its way it has them, and afterwards the timeline does.
Synced(items) ==
  /\ tReader.at = "merge" => ~Takes /\ tReader.merge = items
  /\ Takes => tPrompt.merge = items
  /\ tReader.at # "merge" /\ ~Takes => tShown = items

SyncInv == tState = "live" /\ ~tRaced => Synced(tParser.items)

LEMMA SyncBegins == ASSUME T!Init PROVE SyncInv
<1>1. tState = "initial"
  BY DEF T!Init
<1> QED
  BY <1>1 DEF SyncInv

LEMMA SyncIsKept ==
  ASSUME ChatTypes, SyncInv, [T!Next]_T!vars, ChatTypes'
  PROVE  SyncInv'
<1>0. /\ TypesInv /\ Good(tParser)' /\ tRaced \in BOOLEAN
      /\ tReader \in ReaderType /\ tPrompt \in PromptType
  BY DEF ChatTypes, TypesInv, ParserInv, RestInv, ReaderInv
<1>1. CASE \/ T!BeginLine \/ T!EndLine \/ T!Restart \/ UNCHANGED T!vars
  <2>1. UNCHANGED <<tReader, tParser, tState, tPrompt, tRaced, tShown>>
    BY <1>1 DEF T!BeginLine, T!EndLine, T!Restart, T!vars, T!ghosts
  <2> QED
    BY <2>1 DEF SyncInv, Synced, Takes
<1>2. CASE T!ReadFromBeginning
  <2>1. /\ UNCHANGED <<tParser, tState, tPrompt, tRaced, tShown>>
        /\ tReader.at = "start"
    BY <1>2 DEF T!ReadFromBeginning, T!ghosts
  <2>2. tReader'.at = "lines"
    BY <1>0, <1>2, ReadFromBeginningIs
  <2> QED
    BY <2>1, <2>2 DEF SyncInv, Synced, Takes
<1>3. CASE T!PollReset
  <2>1. tState' = "reset"
    BY <1>3 DEF T!PollReset, T!Reset
  <2> QED
    BY <2>1 DEF SyncInv
<1>4. CASE T!Poll
  <2>1. /\ UNCHANGED <<tParser, tState, tPrompt, tRaced, tShown>>
        /\ tReader.at = "idle"
    BY <1>4 DEF T!Poll, T!ghosts
  <2>2. tReader'.at # "merge"
    BY <1>0, <1>4, PollIs
  <2> QED
    BY <2>1, <2>2 DEF SyncInv, Synced, Takes
<1>5. CASE T!DeliverLine
  <2>1. /\ UNCHANGED <<tState, tPrompt, tShown>>
        /\ tState = "live" => tRaced' = Takes
    BY <1>5, Zenon DEF T!DeliverLine, Takes
  <2>2. tState = "live" =>
          tReader'.at = "merge" /\ tReader'.merge = tParser'.items
    BY <1>0, <1>5, DeliverIs
  <2> QED
    BY <2>1, <2>2 DEF SyncInv, Synced, Takes
<1>6. CASE T!ReadComplete
  <2>1. /\ UNCHANGED <<tParser, tPrompt, tShown>>
        /\ tRaced' = Takes
    BY <1>6, Zenon DEF T!ReadComplete, Takes
  <2>2. tReader'.at = "merge" /\ tReader'.merge = tParser'.items
    BY <1>0, <1>6, <2>1, ReadCompleteIs
  <2> QED
    BY <2>1, <2>2 DEF SyncInv, Synced, Takes
<1>7. CASE T!MergeReader
  <2>1. /\ UNCHANGED <<tParser, tPrompt, tState, tRaced>>
        /\ tShown' = tReader.merge /\ tReader.at = "merge"
    BY <1>7 DEF T!MergeReader, T!ghosts
  <2>2. tReader'.at # "merge"
    BY <1>0, <1>7, MergeReaderIs
  <2> QED
    BY <2>1, <2>2 DEF SyncInv, Synced, Takes
<1>8. CASE T!PollPartial
  <2>1. \/ tState' = "reset"
        \/ UNCHANGED <<tParser, tState>>
    BY <1>8 DEF T!PollPartial, T!Reset
  <2>2. /\ UNCHANGED <<tPrompt, tRaced, tShown>>
    BY <1>8 DEF T!PollPartial
  <2>3. tReader.at # "merge" /\ tReader'.at # "merge"
    BY <1>0, <1>8, PollPartialIs
  <2> QED
    BY <2>1, <2>2, <2>3 DEF SyncInv, Synced, Takes
<1>9. CASE T!PollWhole
  <2>1. /\ UNCHANGED <<tPrompt, tShown>> /\ tRaced' = Takes
    BY <1>9, Zenon DEF T!PollWhole, Takes
  <2>2. tReader'.at = "merge" /\ tReader'.merge = tParser'.items
    BY <1>0, <1>9, PollWholeIs
  <2> QED
    BY <2>1, <2>2 DEF SyncInv, Synced, Takes
<1>10. CASE T!SeedPrompt \/ T!RollbackPrompt
  <2>1. \/ tPrompt' = [at |-> "seeded", merge |-> tParser'.items]
        \/ tPrompt' = [at |-> "removed", merge |-> tParser'.items]
    BY <1>10, Zenon DEF T!SeedPrompt, T!RollbackPrompt
  <2>2. UNCHANGED tReader /\ tRaced' = (tReader.at = "merge")
    BY <1>10, Zenon DEF T!SeedPrompt, T!RollbackPrompt
  <2>3. Takes' /\ tPrompt'.merge = tParser'.items
    BY <2>1 DEF Takes
  <2> QED
    BY <2>2, <2>3 DEF SyncInv, Synced
<1>11. CASE T!MergePrompt
  <2>1. /\ UNCHANGED <<tReader, tParser, tState, tRaced>>
        /\ tShown' = tPrompt.merge /\ Takes
    BY <1>11 DEF T!MergePrompt, T!ghosts, Takes
  <2>2. ~Takes'
    BY <1>11 DEF T!MergePrompt, Takes
  <2> QED
    BY <2>1, <2>2 DEF SyncInv, Synced
<1>12. CASE T!Written
  <2>1. /\ UNCHANGED <<tReader, tParser, tState, tRaced, tShown>>
        /\ tPrompt.at = "write" /\ tPrompt' = [tPrompt EXCEPT !.at = "idle"]
    BY <1>12 DEF T!Written, T!ghosts
  <2>2. ~Takes /\ ~Takes'
    BY <1>0, <2>1 DEF Takes, PromptType
  <2> QED
    BY <2>1, <2>2 DEF SyncInv, Synced
<1> QED
  BY <1>1, <1>2, <1>3, <1>4, <1>5, <1>6, <1>7, <1>8, <1>9, <1>10, <1>11,
     <1>12 DEF T!Next

\* What has its type, its seed and its place in the beginning.
LEMMA TypesBegin ==
  ASSUME T!Init
  PROVE  ChatTypes
<1>1. /\ tProvider \in Agents
      /\ tFile = [inode |-> 1, session |-> 1, lines |-> <<>>, half |-> 0]
      /\ tEvents = <<>> /\ tResets = 0 /\ tHidden = FALSE
      /\ tReader = [at |-> "start", offset |-> 0, inode |-> 0, session |-> 0,
                    buf |-> 0, todo |-> <<>>, batch |-> TRUE, merge |-> <<>>]
      /\ tParser = T!NewParser /\ tState = "initial"
      /\ tPrompt = [at |-> "idle", merge |-> <<>>] /\ tPrompts = 0
      /\ tUndone = FALSE /\ tRaced = FALSE /\ tShown = <<>>
  BY DEF T!Init, T!Nothing
<1>2. EventsInv
  <2>1. <<>> \in Seq(EventType) /\ Len(<<>>) = 0 /\ DOMAIN <<>> = {}
    OBVIOUS
  <2>2. 0 <= MaxEvents
    BY LimitsAssumption
  <2> QED
    BY <1>1, <2>1, <2>2 DEF EventsInv, EventsTyped, EchoesAreMessages,
       ResultsHaveCalls, OthersHaveNone
<1>3. FileInv
  <2>1. Len(<<>>) = 0
    OBVIOUS
  <2> QED
    BY <1>1, <2>1, NoItems DEF FileInv, FileType, LinesOK, Increasing
<1>4. ReaderInv
  BY <1>1, NoItems DEF ReaderInv, ReaderType, TodoKnown
<1>5. RestInv
  <2>1. tPrompt \in PromptType
    BY <1>1, NoItems DEF PromptType
  <2>2. tResets \in 0..MaxResets /\ tPrompts \in 0..MaxPrompts
    BY <1>1, LimitsAssumption
  <2> QED
    BY <1>1, <2>1, <2>2, NoItems DEF RestInv
<1>6. Good(tParser) /\ ToolsInv /\ LandInv /\ IdsInv
  <2>1. tPrompts \in 0..MaxPrompts
    BY <1>5 DEF RestInv
  <2> QED
    BY <1>1, <2>1, NewIs, Zenon
    DEF Good, Known, ItemsKnown, HasBubble, OneBubble, ToolsInv, LandInv,
        IdsInv, Landed, Pointed, EmptyBubble, IdsAreLines
<1> QED
  BY <1>2, <1>3, <1>4, <1>5, <1>6 DEF ChatTypes, TypesInv, ParserInv

LEMMA TranscriptTyped ==
  ASSUME ChatTypes
  PROVE  T!TypeOK
<1>1. /\ EventsInv /\ FileInv /\ ReaderInv /\ RestInv /\ tParser \in Parsers
      /\ Len(tEvents) \in Nat /\ Len(tEvents) <= MaxEvents /\ MaxEvents \in Nat
  BY LimitsAssumption
  DEF ChatTypes, TypesInv, ParserInv, Good, Known, EventsInv, EventsTyped
<1>2. ASSUME NEW s \in Seq(Nat), \A i \in DOMAIN s : s[i] \in DOMAIN tEvents
      PROVE  s \in Seq(T!Events)
  <2>1. DOMAIN tEvents \subseteq T!Events
    BY <1>1, EventIs DEF T!Events
  <2> QED
    BY <1>2, <2>1
<1>3. tFile.lines \in Seq(T!Events) /\ tReader.todo \in Seq(T!Events)
  <2>1. /\ tFile.lines \in Seq(Nat) /\ tReader.todo \in Seq(Nat)
        /\ \A i \in DOMAIN tFile.lines : tFile.lines[i] \in DOMAIN tEvents
        /\ \A i \in DOMAIN tReader.todo : tReader.todo[i] \in DOMAIN tEvents
    BY <1>1 DEF FileInv, FileType, ReaderInv, ReaderType, LinesOK, TodoKnown
  <2> QED
    BY <1>2, <2>1
<1>4. tFile.half \in 0..MaxEvents
  <2>1. tFile.half \in Nat /\ tFile.half <= Len(tEvents)
    BY <1>1 DEF FileInv, FileType
  <2> QED
    BY <1>1, <2>1
<1>5. \A c \in DOMAIN tParser.tools : tParser.tools[c] \in Nat \ {0}
  BY <1>1 DEF Parsers, Tools
<1>6. /\ tReader.merge \in Seq(T!Item) /\ tParser.items \in Seq(T!Item)
      /\ tPrompt.merge \in Seq(T!Item)
  BY <1>1 DEF ReaderInv, ReaderType, Parsers, RestInv, PromptType
<1> QED
  BY <1>1, <1>3, <1>4, <1>5, <1>6
  DEF T!TypeOK, EventsInv, EventsTyped, EventType, RestInv

LEMMA ResultsAreOfCalls ==
  ASSUME LandInv
  PROVE  T!ResultsLand
BY DEF LandInv, T!ResultsLand, Landed, CallOf

LEMMA SeedIsThere ==
  ASSUME ChatTypes, SyncInv
  PROVE  T!SeedIsVisible
<1> SUFFICES ASSUME T!AtRest, tParser.seed # T!NoSeed
             PROVE  T!Cardinality({i \in DOMAIN tShown :
                                     tShown[i].id = -tParser.seed.prompt}) = 1
  BY DEF T!SeedIsVisible
<1> DEFINE S == {i \in DOMAIN tShown : tShown[i].id = -tParser.seed.prompt}
<1>1. tShown = tParser.items
  BY DEF T!AtRest, SyncInv, Synced, Takes
<1>2. HasBubble(tParser) /\ OneBubble(tParser)
  BY DEF ChatTypes, TypesInv, ParserInv, Good
<1>3. PICK k \in DOMAIN tShown : tShown[k].id = -tParser.seed.prompt
  BY <1>1, <1>2 DEF HasBubble
<1>4. S = {k}
  BY <1>1, <1>2, <1>3 DEF OneBubble
<1>5. Cardinality({k}) = 1
  BY FS_Singleton
<1>6. T!Cardinality(S) = Cardinality(S)
  BY Zenon DEF T!Cardinality, Cardinality
<1> QED
  BY <1>4, <1>5, <1>6

-----------------------------------------------------------------------------
(* A reader that follows the file has taken its first lines, and the items *)
(* are those of the lines it has taken.                                    *)

\* A reader of lines that has read nothing has shown nothing.
FreshInv ==
  tProvider # "gemini" /\ (tReader.at = "start" \/ tReader.offset = 0) =>
    /\ tReader.todo = <<>>
    /\ \A i \in DOMAIN tParser.items : tParser.items[i].of = 0

\* The file the reader has open is the one the agent writes.
Follows == /\ tReader.inode = tFile.inode /\ tReader.session = tFile.session
           /\ tReader.at # "start"

Read == tReader.offset \div 2
First(k) == {tFile.lines[i] : i \in 1..k}

\* What was kept of a line is of the one that comes next.
BufferIs ==
  /\ tProvider # "gemini"
  /\ tReader.buf = IF Read < Len(tFile.lines) THEN tFile.lines[Read + 1]
                                              ELSE tFile.half

ShowsFirst(k) ==
  /\ OfLines(tParser.items, First(k)) /\ OnceEach(tParser.items)
  /\ tUndone \/ AllShown(tParser.items, First(k))

\* The reader has taken the first k lines; those it has read after them are
\* on their way, and the offset ends where they end.
HasTaken(k) ==
  /\ k + Len(tReader.todo) = Read /\ Read <= Len(tFile.lines)
  /\ tReader.offset <= T!Size(tFile)
  /\ tReader.offset % 2 = 1 => BufferIs
  /\ \A i \in DOMAIN tReader.todo : tReader.todo[i] = tFile.lines[k + i]
  /\ ShowsFirst(k)

LinesInv == Follows => \E k \in Nat : HasTaken(k)

\* Numbers that the steps below need.
LEMMA ReadIs ==
  ASSUME TypesInv
  PROVE  /\ Read \in Nat /\ Len(tFile.lines) \in Nat
         /\ Len(tReader.todo) \in Nat /\ tReader.offset \in Nat
         /\ tReader.offset % 2 \in {0, 1}
         /\ tReader.offset = 2 * Read + (tReader.offset % 2)
         /\ tFile.lines \in Seq(Nat) /\ tReader.todo \in Seq(Nat)
<1>1. /\ tReader.offset \in Nat /\ tReader.todo \in Seq(Nat)
      /\ tFile.lines \in Seq(Nat)
  BY DEF TypesInv, ReaderInv, ReaderType, FileInv, FileType
<1>2. /\ Read \in Nat /\ tReader.offset % 2 \in {0, 1}
      /\ tReader.offset = 2 * Read + (tReader.offset % 2)
  BY <1>1, Halves DEF Read
<1>3. Len(tFile.lines) \in Nat /\ Len(tReader.todo) \in Nat
  BY <1>1
<1> QED
  BY <1>1, <1>2, <1>3

\* Lines that come after those already read change nothing of it.
LEMMA SameLines ==
  ASSUME ChatTypes, [T!Next]_T!vars, UNCHANGED <<tReader, tParser, tUndone>>,
         NEW k \in Nat, HasTaken(k), Len(tFile.lines) <= Len(tFile'.lines),
         \A i \in DOMAIN tFile.lines : tFile'.lines[i] = tFile.lines[i],
         T!Size(tFile) <= T!Size(tFile)',
         tReader.offset % 2 = 1 => BufferIs'
  PROVE  HasTaken(k)'
<1>1. TypesInv /\ TypesInv'
  BY TypesKept DEF ChatTypes
<1>2. /\ Read \in Nat /\ Len(tReader.todo) \in Nat /\ tReader.offset \in Nat
      /\ Len(tFile.lines) \in Nat /\ Len(tFile'.lines) \in Nat
      /\ tReader.todo \in Seq(Nat) /\ tFile.lines \in Seq(Nat)
      /\ T!Size(tFile) \in Nat /\ T!Size(tFile)' \in Nat
      /\ DOMAIN tFile.lines = 1..Len(tFile.lines)
      /\ DOMAIN tReader.todo = 1..Len(tReader.todo)
  <2>1. /\ T!Size(tFile) \in Nat
    BY <1>1, FileIs
  <2>2. tFile' \in FileType
    BY <1>1 DEF TypesInv, FileInv
  <2>3. T!Size(tFile') \in Nat
    BY <2>2, SizeIs
  <2>4. T!Size(tFile)' = T!Size(tFile')
    BY DEF T!Size, T!Nothing
  <2>5. Len(tFile'.lines) \in Nat
    BY <2>2 DEF FileType
  <2> QED
    BY <1>1, <2>1, <2>3, <2>4, <2>5, ReadIs
<1>3. /\ k + Len(tReader.todo) = Read /\ Read <= Len(tFile.lines)
      /\ tReader.offset <= T!Size(tFile)
      /\ \A i \in DOMAIN tReader.todo : tReader.todo[i] = tFile.lines[k + i]
      /\ ShowsFirst(k)
  BY DEF HasTaken
<1>9. /\ \A i \in 1..k : i \in DOMAIN tFile.lines
      /\ \A i \in DOMAIN tReader.todo : k + i \in DOMAIN tFile.lines
  <2>1. k + Len(tReader.todo) <= Len(tFile.lines)
    BY <1>2, <1>3
  <2>2. \A i \in 1..k : i \in 1..Len(tFile.lines)
    BY <1>2, <2>1
  <2>3. \A i \in 1..Len(tReader.todo) : k + i \in 1..Len(tFile.lines)
    BY <1>2, <2>1
  <2> QED
    BY <1>2, <2>2, <2>3
<1>4. First(k)' = First(k)
  <2>1. \A i \in 1..k : tFile'.lines[i] = tFile.lines[i]
    BY <1>9
  <2> QED
    BY <2>1 DEF First
<1>5. \A n \in First(k) : Kind(n)' = Kind(n)
  <2>1. \A i \in 1..k : tFile.lines[i] \in DOMAIN tEvents
    BY <1>1, <1>9, FileIs
  <2> QED
    BY <1>1, <2>1, EventsGrow DEF First
<1>6. ShowsFirst(k)'
  <2>1. tProvider' = tProvider
    BY <1>1, EventsGrow
  <2> QED
    BY <1>3, <1>4, <1>5, <2>1 DEF ShowsFirst, OfLines, OnceEach, AllShown
<1>7. /\ Read' = Read /\ Read <= Len(tFile'.lines)
      /\ tReader.offset <= T!Size(tFile)'
  BY <1>2, <1>3 DEF Read
<1>8. \A i \in DOMAIN tReader.todo : tReader.todo[i] = tFile'.lines[k + i]
  BY <1>3, <1>9
<1> QED
  BY <1>3, <1>6, <1>7, <1>8 DEF HasTaken

LEMMA BeginFollows ==
  ASSUME ChatTypes, LinesInv, T!BeginLine
  PROVE  LinesInv'
<1> SUFFICES ASSUME Follows' PROVE \E k \in Nat : HasTaken(k)'
  BY DEF LinesInv
<1>1. TypesInv /\ [T!Next]_T!vars
  BY DEF ChatTypes, T!Next
<1>2. /\ tFile' \in FileType /\ tFile'.lines = tFile.lines
      /\ tFile'.half = Len(tEvents) + 1 /\ tFile.half = 0
      /\ tFile'.inode = tFile.inode /\ tFile'.session = tFile.session
      /\ UNCHANGED <<tReader, tParser, tUndone, tProvider>>
  BY <1>1, BeginIs DEF T!BeginLine, T!ghosts
<1>3. Follows
  BY <1>2 DEF Follows
<1>4. PICK k \in Nat : HasTaken(k)
  BY <1>3 DEF LinesInv
<1>5. /\ Read \in Nat /\ Len(tFile.lines) \in Nat /\ tReader.offset \in Nat
      /\ tReader.offset = 2 * Read + (tReader.offset % 2)
  BY <1>1, ReadIs
<1>6. /\ T!Size(tFile) = 2 * Len(tFile.lines)
      /\ T!Size(tFile)' = 2 * Len(tFile.lines) + 1
  <2>1. tFile \in FileType /\ tFile'.half # 0
    BY <1>1, <1>2 DEF TypesInv, FileInv, EventsInv, EventsTyped
  <2>2. T!Size(tFile') = 2 * Len(tFile'.lines) + 1
    BY <1>2, <2>1, SizeIs
  <2>3. T!Size(tFile)' = T!Size(tFile')
    BY DEF T!Size, T!Nothing
  <2> QED
    BY <1>2, <2>1, <2>2, <2>3, SizeIs
<1>7. ASSUME tReader.offset % 2 = 1 PROVE BufferIs'
  <2>1. /\ BufferIs /\ tReader.offset <= T!Size(tFile)
    BY <1>4, <1>7 DEF HasTaken
  <2>2. Read < Len(tFile.lines)
    BY <1>5, <1>6, <1>7, <2>1
  <2> QED
    BY <1>2, <2>1, <2>2 DEF BufferIs, Read
<1>8. HasTaken(k)'
  BY <1>1, <1>2, <1>4, <1>5, <1>6, <1>7, SameLines
<1> QED
  BY <1>8

LEMMA EndFollows ==
  ASSUME ChatTypes, LinesInv, T!EndLine
  PROVE  LinesInv'
<1> SUFFICES ASSUME Follows' PROVE \E k \in Nat : HasTaken(k)'
  BY DEF LinesInv
<1>1. TypesInv /\ [T!Next]_T!vars
  BY DEF ChatTypes, T!Next
<1>2. /\ tFile' \in FileType /\ tFile.half # 0 /\ tFile'.half = 0
      /\ tFile'.lines = Append(tFile.lines, tFile.half)
      /\ tFile'.inode = tFile.inode /\ tFile'.session = tFile.session
      /\ UNCHANGED <<tReader, tParser, tUndone, tProvider>>
  BY <1>1, EndIs DEF T!EndLine, T!ghosts
<1>3. Follows
  BY <1>2 DEF Follows
<1>4. PICK k \in Nat : HasTaken(k)
  BY <1>3 DEF LinesInv
<1>5. /\ Read \in Nat /\ Len(tFile.lines) \in Nat
      /\ tFile.lines \in Seq(Nat) /\ tFile.half \in Nat
  BY <1>1, ReadIs, FileIs
<1>6. /\ Len(tFile'.lines) = Len(tFile.lines) + 1
      /\ \A i \in DOMAIN tFile.lines : tFile'.lines[i] = tFile.lines[i]
      /\ tFile'.lines[Len(tFile.lines) + 1] = tFile.half
      /\ DOMAIN tFile.lines = 1..Len(tFile.lines)
  BY <1>2, <1>5
<1>7. /\ T!Size(tFile) = 2 * Len(tFile.lines) + 1
      /\ T!Size(tFile)' = 2 * (Len(tFile.lines) + 1)
  <2>1. tFile \in FileType
    BY <1>1 DEF TypesInv, FileInv
  <2>2. T!Size(tFile') = 2 * Len(tFile'.lines)
    BY <1>2, SizeIs
  <2>3. T!Size(tFile)' = T!Size(tFile')
    BY DEF T!Size, T!Nothing
  <2> QED
    BY <1>2, <1>6, <2>1, <2>2, <2>3, SizeIs
<1>8. ASSUME tReader.offset % 2 = 1 PROVE BufferIs'
  <2>1. BufferIs /\ Read <= Len(tFile.lines)
    BY <1>4, <1>8 DEF HasTaken
  <2>2. Read' = Read /\ Read < Len(tFile'.lines)
    BY <1>2, <1>5, <1>6, <2>1 DEF Read
  <2>3. tReader.buf = tFile'.lines[Read + 1]
    <3>1. CASE Read < Len(tFile.lines)
      <4>1. Read + 1 \in DOMAIN tFile.lines
        BY <1>5, <1>6, <3>1
      <4> QED
        BY <1>6, <2>1, <3>1, <4>1 DEF BufferIs
    <3>2. CASE Read = Len(tFile.lines)
      <4>1. ~(Read < Len(tFile.lines))
        BY <1>5, <3>2
      <4> QED
        BY <1>6, <2>1, <3>2, <4>1 DEF BufferIs
    <3> QED
      BY <1>5, <2>1, <3>1, <3>2
  <2> QED
    BY <1>2, <2>1, <2>2, <2>3 DEF BufferIs
<1>9. /\ Len(tFile.lines) <= Len(tFile'.lines)
      /\ T!Size(tFile) <= T!Size(tFile)'
  BY <1>5, <1>6, <1>7
<1>10. HasTaken(k)'
  BY <1>1, <1>2, <1>4, <1>6, <1>8, <1>9, SameLines
<1> QED
  BY <1>10

LEMMA RestartFollows ==
  ASSUME ChatTypes, T!Restart
  PROVE  LinesInv'
<1>1. TypesInv
  BY DEF ChatTypes
<1>2. /\ tFile'.session = tFile.session + 1 /\ tReader' = tReader
      /\ tReader.session <= tFile.session
      /\ tReader.session \in Nat /\ tFile.session \in Nat
  BY <1>1, RestartIs, FileIs
  DEF T!Restart, TypesInv, ReaderInv, ReaderType
<1>3. tReader'.session # tFile'.session
  BY <1>2
<1> QED
  BY <1>3 DEF LinesInv, Follows

\* A step that leaves the reader's place alone.
SamePlace ==
  /\ UNCHANGED <<tFile, tEvents, tProvider>>
  /\ tReader'.offset = tReader.offset /\ tReader'.buf = tReader.buf
  /\ tReader'.todo = tReader.todo /\ tReader'.inode = tReader.inode
  /\ tReader'.session = tReader.session
  /\ tReader'.at # "start" => tReader.at # "start" \/ tReader.inode = 0

SameShown == UNCHANGED <<tParser, tUndone>>

\* Nor does a step that leaves the reader where it is.
LEMMA PlaceStays ==
  ASSUME TypesInv, LinesInv, SamePlace,
         \A k \in Nat : ShowsFirst(k) => ShowsFirst(k)'
  PROVE  LinesInv'
<1> SUFFICES ASSUME Follows' PROVE \E k \in Nat : HasTaken(k)'
  BY DEF LinesInv
<1>1. Follows
  <2>1. tFile.inode # 0
    BY FileIs
  <2> QED
    BY <2>1 DEF Follows, SamePlace
<1>2. PICK k \in Nat : HasTaken(k)
  BY <1>1 DEF LinesInv
<1>3. HasTaken(k)'
  <2>1. Read' = Read
    BY DEF Read, SamePlace
  <2>2. T!Size(tFile)' = T!Size(tFile)
    BY DEF SamePlace, T!Size
  <2>3. BufferIs => BufferIs'
    BY <2>1 DEF BufferIs, SamePlace
  <2> QED
    BY <1>2, <2>1, <2>2, <2>3 DEF HasTaken, SamePlace
<1> QED
  BY <1>3

LEMMA ShownStays ==
  ASSUME UNCHANGED <<tFile, tEvents, tProvider>>, SameShown, NEW k \in Nat,
         ShowsFirst(k)
  PROVE  ShowsFirst(k)'
BY DEF SameShown, ShowsFirst, First, OfLines, OnceEach, AllShown, Kind

\* An empty bubble more, or an item less after a rollback.
LEMMA SeedShows ==
  ASSUME TypesInv, T!SeedPrompt, NEW k \in Nat, ShowsFirst(k)
  PROVE  ShowsFirst(k)'
<1> DEFINE x == [id |-> -(tPrompts + 1), of |-> 0, result |-> 0]
           i == Len(tParser.items) + 1
<1>1. /\ UNCHANGED <<tProvider, tEvents, tUndone, tFile, tReader>>
      /\ Edit(tParser.items, tParser'.items, i, x)
  BY SeedIs
<1>2. tParser.items \in Seq(T!Item)
  BY ItemsAre DEF TypesInv, ParserInv
<1>3. x.of = 0
  OBVIOUS
<1> HIDE DEF x
<1>4. /\ i \notin DOMAIN tParser.items /\ i \in DOMAIN tParser'.items
      /\ tParser'.items[i] = x
      /\ \A j \in DOMAIN tParser'.items :
           j # i => /\ j \in DOMAIN tParser.items
                    /\ tParser'.items[j] = tParser.items[j]
      /\ \A j \in DOMAIN tParser.items :
           /\ j \in DOMAIN tParser'.items
           /\ tParser'.items[j] = tParser.items[j]
  BY <1>1, <1>2 DEF Edit
<1> HIDE DEF i
<1>5. First(k)' = First(k) /\ \A n : Kind(n)' = Kind(n)
  BY <1>1 DEF First, Kind
<1>6. OfLines(tParser.items, First(k))' /\ OnceEach(tParser.items)'
  BY <1>3, <1>4, <1>5 DEF ShowsFirst, OfLines, OnceEach
<1>7. AllShown(tParser.items, First(k)) => AllShown(tParser.items, First(k))'
  BY <1>1, <1>4, <1>5 DEF AllShown
<1> QED
  BY <1>1, <1>6, <1>7 DEF ShowsFirst

LEMMA RollbackShows ==
  ASSUME TypesInv, T!RollbackPrompt, NEW k \in Nat, ShowsFirst(k)
  PROVE  ShowsFirst(k)'
<1>1. /\ UNCHANGED <<tProvider, tEvents, tPrompts, tFile, tReader>>
      /\ tUndone' = TRUE /\ tParser' \in Parsers
  BY RollbackIs
<1>2. PICK i \in Nat \ {0} :
        \A j \in DOMAIN tParser'.items :
          /\ (IF j < i THEN j ELSE j + 1) \in DOMAIN tParser.items
          /\ tParser'.items[j] = tParser.items[IF j < i THEN j ELSE j + 1]
  BY RollbackIs
<1>3. tParser'.items \in Seq(T!Item) /\ First(k)' = First(k)
  BY <1>1 DEF First, Parsers
<1>4. OfLines(tParser.items, First(k))'
  BY <1>2, <1>3 DEF ShowsFirst, OfLines
<1>5. OnceEach(tParser.items)'
  <2> SUFFICES ASSUME NEW j \in DOMAIN tParser'.items,
                      NEW l \in DOMAIN tParser'.items,
                      tParser'.items[j].of = tParser'.items[l].of,
                      tParser'.items[j].of # 0
               PROVE  j = l
    BY DEF OnceEach
  <2> DEFINE a == IF j < i THEN j ELSE j + 1
             b == IF l < i THEN l ELSE l + 1
  <2>1. /\ a \in DOMAIN tParser.items /\ tParser'.items[j] = tParser.items[a]
        /\ b \in DOMAIN tParser.items /\ tParser'.items[l] = tParser.items[b]
    BY <1>2
  <2>2. j \in Nat /\ l \in Nat
    BY <1>3
  <2>3. a = b => j = l
    BY <2>2
  <2> HIDE DEF a, b
  <2>4. a = b
    BY <2>1 DEF ShowsFirst, OnceEach
  <2> QED
    BY <2>3, <2>4
<1> QED
  BY <1>1, <1>4, <1>5 DEF ShowsFirst

\* What was read before is forgotten with the items.
LEMMA FreshIsKept ==
  ASSUME ChatTypes, FreshInv, [T!Next]_T!vars
  PROVE  FreshInv'
<1> DEFINE Emptied == \A i \in DOMAIN tParser.items : tParser.items[i].of = 0
<1>0. TypesInv /\ tReader \in ReaderType
  BY DEF ChatTypes, TypesInv, ReaderInv
<1>1. CASE UNCHANGED <<tReader, tParser, tProvider>>
  BY <1>1 DEF FreshInv
<1>2. CASE T!ReadFromBeginning
  <2> SUFFICES ASSUME tReader'.at = "start" \/ tReader'.offset = 0
               PROVE  tReader'.todo = <<>> /\ Emptied'
    BY DEF FreshInv
  <2>1. /\ tReader'.todo = tFile.lines /\ tReader'.at = "lines"
        /\ tReader'.offset = T!Size(tFile) /\ tReader.at = "start"
        /\ tProvider # "gemini" /\ tParser' = tParser
    BY <1>0, <1>2, ReadFromBeginningIs DEF T!ReadFromBeginning
  <2>2. tFile \in FileType /\ tFile.lines \in Seq(Nat)
    BY <1>0, FileIs DEF TypesInv, FileInv
  <2>3. Len(tFile.lines) = 0
    <3>1. Len(tFile.lines) \in Nat
      BY <2>2
    <3> QED
      BY <2>1, <2>2, <3>1, SizeIs
  <2>4. tFile.lines = <<>>
    BY <2>2, <2>3
  <2> QED
    BY <2>1, <2>4 DEF FreshInv
<1>3. CASE T!Poll
  <2>1. /\ tReader'.at \in {"idle", "lines"}
        /\ tReader'.offset = T!Size(tFile)
        /\ tReader.offset \in Nat /\ T!Size(tFile) > tReader.offset
    BY <1>0, <1>3, PollIs DEF T!Poll, ReaderType
  <2>2. T!Size(tFile) # 0
    BY <1>0, <2>1, FileIs
  <2> QED
    BY <2>1, <2>2 DEF FreshInv
<1>4. CASE T!PollReset
  <2>1. DOMAIN T!NewParser.items = {}
    BY <1>0, NewIs DEF TypesInv, RestInv
  <2>2. Emptied'
    BY <1>4, <2>1 DEF T!PollReset, T!Reset
  <2>3. tReader'.todo = <<>>
    BY <1>0, <1>4, PollResetIs DEF TypesInv, ReaderInv
  <2> QED
    BY <2>2, <2>3 DEF FreshInv
<1>5. CASE T!DeliverLine
  <2>1. /\ tReader.todo # <<>> /\ tReader.at = "lines"
        /\ tProvider' = tProvider
    BY <1>5 DEF T!DeliverLine
  <2>2. tReader'.offset = tReader.offset /\ tReader'.at # "start"
    <3>1. Good(tParser)'
      BY <1>5, ParserKeeps DEF ChatTypes, ParserKept, T!Next
    <3> QED
      BY <1>0, <1>5, <3>1, DeliverIs
  <2> QED
    BY <2>1, <2>2 DEF FreshInv
<1>6. CASE T!ReadComplete
  <2>1. UNCHANGED <<tParser, tProvider>>
    BY <1>6 DEF T!ReadComplete
  <2> QED
    BY <1>0, <1>6, <2>1, ReadCompleteIs DEF FreshInv
<1>7. CASE T!MergeReader
  <2>1. UNCHANGED <<tParser, tProvider>>
    BY <1>7 DEF T!MergeReader
  <2> QED
    BY <1>0, <1>7, <2>1, MergeReaderIs DEF FreshInv
<1>8. CASE T!PollPartial \/ T!PollWhole
  <2>1. tProvider' = "gemini"
    BY <1>8, Zenon DEF T!PollPartial, T!PollWhole
  <2> QED
    BY <2>1 DEF FreshInv
<1>9. CASE T!SeedPrompt
  <2> DEFINE x == [id |-> -(tPrompts + 1), of |-> 0, result |-> 0]
             i == Len(tParser.items) + 1
  <2>1. /\ UNCHANGED <<tProvider, tReader>>
        /\ Edit(tParser.items, tParser'.items, i, x)
    BY <1>0, <1>9, SeedIs
  <2>2. x.of = 0
    OBVIOUS
  <2> HIDE DEF x
  <2>3. Emptied => Emptied'
    BY <2>1, <2>2 DEF Edit
  <2> QED
    BY <2>1, <2>3 DEF FreshInv
<1>10. CASE T!RollbackPrompt
  <2>1. /\ UNCHANGED <<tProvider, tReader>>
        /\ \A j \in DOMAIN tParser'.items :
             \E k \in DOMAIN tParser.items :
               tParser'.items[j] = tParser.items[k]
    BY <1>0, <1>10, RollbackIs
  <2> QED
    BY <2>1 DEF FreshInv
<1>11. CASE T!BeginLine \/ T!EndLine \/ T!Restart
  BY <1>1, <1>11 DEF T!BeginLine, T!EndLine, T!Restart
<1>12. CASE T!MergePrompt \/ T!Written \/ UNCHANGED T!vars
  BY <1>1, <1>12 DEF T!MergePrompt, T!Written, T!vars
<1> QED
  BY <1>2, <1>3, <1>4, <1>5, <1>6, <1>7, <1>8, <1>9, <1>10, <1>11, <1>12
  DEF T!Next

\* The first k lines and the next.
LEMMA FirstIs ==
  ASSUME TypesInv, NEW k \in Nat, k < Len(tFile.lines)
  PROVE  /\ First(k + 1) = First(k) \cup {tFile.lines[k + 1]}
         /\ {0, tFile.lines[k + 1]} \cap First(k) = {}
         /\ \A n \in First(k) : n \in DOMAIN tEvents
<1>1. /\ tFile.lines \in Seq(Nat) /\ Increasing(tFile.lines)
      /\ \A i \in DOMAIN tFile.lines : tFile.lines[i] \in DOMAIN tEvents
      /\ Len(tFile.lines) \in Nat
      /\ DOMAIN tFile.lines = 1..Len(tFile.lines)
  <2>1. LinesOK(tFile.lines)
    BY DEF TypesInv, FileInv
  <2> QED
    BY <2>1, ReadIs DEF LinesOK
<1>2. /\ 1..(k + 1) = 1..k \cup {k + 1}
      /\ k + 1 \in DOMAIN tFile.lines
      /\ \A i \in 1..k : i \in DOMAIN tFile.lines /\ i < k + 1
  BY <1>1
<1>3. First(k + 1) = First(k) \cup {tFile.lines[k + 1]}
  BY <1>2 DEF First
<1>4. \A i \in 1..k : /\ tFile.lines[i] < tFile.lines[k + 1]
                      /\ tFile.lines[i] \in DOMAIN tEvents
                      /\ tFile.lines[i] \in Nat
  <2> TAKE i \in 1..k
  <2>1. i \in DOMAIN tFile.lines /\ i < k + 1 /\ k + 1 \in DOMAIN tFile.lines
    BY <1>2
  <2>2. tFile.lines[i] < tFile.lines[k + 1]
    BY <1>1, <2>1, Zenon DEF Increasing
  <2>3. tFile.lines[i] \in Nat
    BY <1>1, <2>1
  <2> QED
    BY <1>1, <2>1, <2>2, <2>3
<1>5. tFile.lines[k + 1] \in Nat /\ \A n \in DOMAIN tEvents : n # 0
  <2>1. EventsInv
    BY DEF TypesInv
  <2>2. \A n \in DOMAIN tEvents : n \in 1..MaxEvents
    BY <2>1, EventIs
  <2> QED
    BY <1>1, <1>2, <2>2, LimitsAssumption
<1>6. \A i \in 1..k : tFile.lines[i] # tFile.lines[k + 1] /\ tFile.lines[i] # 0
  BY <1>4, <1>5
<1> QED
  BY <1>3, <1>4, <1>6 DEF First

\* A reader of lines begins at the beginning of the file, with nothing shown.
LEMMA BeginningShows ==
  ASSUME \A i \in DOMAIN tParser.items : tParser.items[i].of = 0
  PROVE  ShowsFirst(0)
<1>1. First(0) = {}
  BY DEF First
<1> QED
  BY <1>1 DEF ShowsFirst, OfLines, OnceEach, AllShown

LEMMA ReadFromBeginningFollows ==
  ASSUME ChatTypes, FreshInv, T!ReadFromBeginning
  PROVE  LinesInv'
<1>0. TypesInv
  BY DEF ChatTypes
<1>1. /\ tReader'.todo = tFile.lines /\ tReader'.offset = T!Size(tFile)
      /\ tReader'.buf = tFile.half /\ tProvider # "gemini"
      /\ tReader.at = "start"
      /\ UNCHANGED <<tFile, tEvents, tProvider, tParser, tUndone>>
  BY <1>0, ReadFromBeginningIs DEF T!ReadFromBeginning, T!ghosts, T!agent
<1>2. tFile \in FileType /\ Len(tFile.lines) \in Nat
  BY <1>0, ReadIs DEF TypesInv, FileInv
<1>3. Read' = Len(tFile.lines) /\ T!Size(tFile)' = T!Size(tFile)
      /\ T!Size(tFile) \in Nat
  BY <1>1, <1>2, SizeIs DEF Read, T!Size
<1>4. ShowsFirst(0)'
  <2>1. ShowsFirst(0)
    BY <1>1, BeginningShows DEF FreshInv
  <2> QED
    BY <1>1, <2>1, ShownStays DEF SameShown
<1>5. BufferIs'
  BY <1>1, <1>2, <1>3 DEF BufferIs
<1>6. HasTaken(0)'
  <2>1. /\ 0 + Len(tFile.lines) = Len(tFile.lines)
        /\ Len(tFile.lines) <= Len(tFile.lines)
        /\ T!Size(tFile) <= T!Size(tFile)
    BY <1>2, <1>3
  <2>2. \A i \in DOMAIN tFile.lines : tFile.lines[i] = tFile.lines[0 + i]
    BY <1>0, ReadIs
  <2> QED
    BY <1>1, <1>3, <1>4, <1>5, <2>1, <2>2 DEF HasTaken
<1> QED
  BY <1>6 DEF LinesInv

\* A poll reads on where the last one ended, in the middle of a line too.
LEMMA PollFollows ==
  ASSUME ChatTypes, FreshInv, LinesInv, T!Poll
  PROVE  LinesInv'
<1> SUFFICES ASSUME Follows' PROVE \E k \in Nat : HasTaken(k)'
  BY DEF LinesInv
<1>0. TypesInv
  BY DEF ChatTypes
<1>1. /\ tReader'.todo = T!NewLines /\ tReader'.offset = T!Size(tFile)
      /\ tReader'.buf = tFile.half /\ tProvider # "gemini"
      /\ tReader.at = "idle" /\ tReader.inode = tFile.inode
      /\ UNCHANGED <<tFile, tEvents, tProvider, tParser, tUndone>>
      /\ tReader'.session = IF tReader.offset = 0 THEN tFile.session
                                                  ELSE tReader.session
  BY <1>0, PollIs DEF T!Poll, T!ghosts, T!agent
<1>2. /\ tFile \in FileType /\ Len(tFile.lines) \in Nat
      /\ tReader.offset \in Nat /\ tReader.offset % 2 \in {0, 1}
      /\ tFile.lines \in Seq(Nat) /\ tReader.todo = <<>>
      /\ Len(tReader.todo) = 0
  BY <1>0, <1>1, ReadIs DEF TypesInv, FileInv, ReaderInv
<1>3. /\ Read' = Len(tFile.lines) /\ T!Size(tFile)' = T!Size(tFile)
      /\ T!Size(tFile) \in Nat
  <2>1. T!Size(tFile) \in Nat /\ T!Size(tFile) \div 2 = Len(tFile.lines)
    BY <1>2, SizeIs
  <2>2. Read' = T!Size(tFile) \div 2
    BY <1>1 DEF Read
  <2>3. T!Size(tFile)' = T!Size(tFile)
    BY <1>1 DEF T!Size
  <2> QED
    BY <2>1, <2>2, <2>3
<1>4. PICK k \in Nat : /\ k = Read /\ k <= Len(tFile.lines) /\ ShowsFirst(k)
                       /\ tReader.offset % 2 = 1 => BufferIs
  <2>1. CASE tReader.offset = 0
    <3>1. Read = 0 /\ tReader.offset % 2 # 1
      BY <2>1 DEF Read
    <3>2. ShowsFirst(0)
      BY <1>1, <2>1, BeginningShows DEF FreshInv
    <3> QED
      BY <1>2, <3>1, <3>2
  <2>2. CASE tReader.offset # 0
    <3>1. Follows
      BY <1>1, <2>2 DEF Follows
    <3>2. PICK k \in Nat : HasTaken(k)
      BY <3>1 DEF LinesInv
    <3>3. k + 0 = Read /\ Read <= Len(tFile.lines)
      BY <1>2, <3>2 DEF HasTaken
    <3>4. k = Read
      BY <3>3
    <3> QED
      BY <3>2, <3>3, <3>4 DEF HasTaken
  <2> QED
    BY <2>1, <2>2
<1>5. T!NewLines = SubSeq(tFile.lines, k + 1, Len(tFile.lines))
  <2>1. k < Len(tFile.lines) \/ k >= Len(tFile.lines)
    BY <1>2
  <2>2. tReader.offset % 2 = 0 \/ k >= Len(tFile.lines)
        \/ tReader.buf = tFile.lines[k + 1]
    BY <1>2, <1>4, <2>1 DEF BufferIs
  <2>3. FileInv /\ ReaderInv /\ k = tReader.offset \div 2
    BY <1>0, <1>4 DEF TypesInv, Read
  <2> QED
    BY <2>2, <2>3, NewLinesAre
<1>6. /\ Len(T!NewLines) = Len(tFile.lines) - k
      /\ \A i \in DOMAIN T!NewLines : T!NewLines[i] = tFile.lines[k + i]
  BY <1>2, <1>4, <1>5, SubSeqIs
<1>7. ShowsFirst(k)'
  BY <1>1, <1>4, ShownStays DEF SameShown
<1>8. BufferIs'
  BY <1>1, <1>2, <1>3 DEF BufferIs
<1>9. HasTaken(k)'
  <2>1. /\ k + (Len(tFile.lines) - k) = Len(tFile.lines)
        /\ Len(tFile.lines) <= Len(tFile.lines)
        /\ T!Size(tFile) <= T!Size(tFile)
    BY <1>2, <1>3
  <2> QED
    BY <1>1, <1>3, <1>6, <1>7, <1>8, <2>1 DEF HasTaken
<1> QED
  BY <1>9

\* One more line is taken, and shown.
LEMMA DeliverFollows ==
  ASSUME ChatTypes, LinesInv, T!DeliverLine
  PROVE  LinesInv'
<1> SUFFICES ASSUME Follows' PROVE \E k \in Nat : HasTaken(k)'
  BY DEF LinesInv
<1>0. TypesInv /\ Good(tParser)' /\ [T!Next]_T!vars
  BY TypesKept DEF ChatTypes, TypesInv, ParserInv, T!Next
<1>1. /\ tReader'.todo = Tail(tReader.todo) /\ tReader.todo # <<>>
      /\ tReader.at = "lines" /\ tReader'.offset = tReader.offset
      /\ tReader'.buf = tReader.buf /\ tReader'.inode = tReader.inode
      /\ tReader'.session = tReader.session
      /\ UNCHANGED <<tFile, tEvents, tProvider, tPrompts, tUndone>>
      /\ tParser' = T!ParseEvent(tParser, Head(tReader.todo))
  BY <1>0, DeliverIs DEF T!DeliverLine, T!agent
<1>2. Follows /\ tProvider # "gemini"
  BY <1>0, <1>1 DEF Follows, TypesInv, ReaderInv
<1>3. PICK k \in Nat : HasTaken(k)
  BY <1>2 DEF LinesInv
<1>4. /\ Len(tFile.lines) \in Nat /\ tReader.todo \in Seq(Nat)
      /\ Len(tReader.todo) \in Nat /\ Read \in Nat
  BY <1>0, ReadIs
<1>5. /\ Len(Tail(tReader.todo)) = Len(tReader.todo) - 1
      /\ \A i \in DOMAIN Tail(tReader.todo) :
           /\ Tail(tReader.todo)[i] = tReader.todo[i + 1]
           /\ i + 1 \in DOMAIN tReader.todo
      /\ Head(tReader.todo) = tReader.todo[1] /\ 1 \in DOMAIN tReader.todo
      /\ Len(tReader.todo) # 0
  BY <1>1, <1>4, TailIs
<1> DEFINE n == tFile.lines[k + 1]
<1>6. /\ Head(tReader.todo) = n /\ k < Len(tFile.lines)
  BY <1>3, <1>4, <1>5 DEF HasTaken
<1>7. /\ First(k + 1) = First(k) \cup {n} /\ {0, n} \cap First(k) = {}
      /\ \A m \in First(k + 1) : Kind(m)' = Kind(m)
  BY <1>0, <1>1, <1>6, FirstIs DEF Kind
<1>8. Parse(tParser, n, tParser')
  <2>1. Parses
    BY <1>1, <1>2 DEF Parses, Same
  <2> QED
    BY <1>0, <1>6, <2>1, ParsesIs
<1>9. EmptyBubble(tParser) /\ IdsAreLines(tParser) /\ ShowsFirst(k)
  BY <1>2, <1>3 DEF ChatTypes, IdsInv, HasTaken
<1> HIDE DEF n
<1>10. /\ OfLines(tParser'.items, First(k) \cup {n})
       /\ OnceEach(tParser'.items)
       /\ AllShown(tParser.items, First(k)) =>
            AllShown(tParser'.items, First(k) \cup {n})
  BY <1>7, <1>8, <1>9, ParseShows DEF ShowsFirst
<1>11. ShowsFirst(k + 1)'
  <2>1. First(k + 1)' = First(k + 1)
    BY <1>1 DEF First
  <2>2. OfLines(tParser.items, First(k + 1))' /\ OnceEach(tParser.items)'
    BY <1>7, <1>10, <2>1 DEF OfLines, OnceEach
  <2>3. tUndone \/ AllShown(tParser'.items, First(k + 1))
    BY <1>7, <1>9, <1>10 DEF ShowsFirst
  <2> QED
    BY <1>1, <1>7, <2>1, <2>2, <2>3 DEF ShowsFirst, AllShown
<1>12. /\ (k + 1) + (Len(tReader.todo) - 1) = k + Len(tReader.todo)
       /\ k + 1 \in Nat
       /\ \A i \in DOMAIN Tail(tReader.todo) : (k + 1) + i = k + (i + 1)
  <2>1. DOMAIN Tail(tReader.todo) \subseteq Nat
    <3>1. Tail(tReader.todo) \in Seq(Nat)
      BY <1>1, <1>4, TailIs
    <3> QED
      BY <3>1
  <2>2. \A i \in Nat : (k + 1) + i = k + (i + 1)
    OBVIOUS
  <2>3. \A m \in Nat : (k + 1) + (m - 1) = k + m
    OBVIOUS
  <2>4. (k + 1) + (Len(tReader.todo) - 1) = k + Len(tReader.todo)
    BY <1>4, <2>3, Zenon
  <2>5. k + 1 \in Nat
    OBVIOUS
  <2> QED
    BY <2>1, <2>2, <2>4, <2>5, Zenon
<1>13. \A i \in DOMAIN Tail(tReader.todo) :
         Tail(tReader.todo)[i] = tFile.lines[(k + 1) + i]
  BY <1>3, <1>5, <1>12 DEF HasTaken
<1>14. HasTaken(k + 1)'
  <2>1. /\ Read' = Read /\ T!Size(tFile)' = T!Size(tFile)
        /\ BufferIs => BufferIs'
    BY <1>1 DEF Read, T!Size, BufferIs
  <2>2. /\ k + Len(tReader.todo) = Read /\ Read <= Len(tFile.lines)
        /\ tReader.offset <= T!Size(tFile)
        /\ tReader.offset % 2 = 1 => BufferIs
    BY <1>3 DEF HasTaken
  <2>3. (k + 1) + Len(tReader'.todo) = Read
    BY <1>1, <1>5, <1>12, <2>2
  <2> QED
    BY <1>1, <1>11, <1>13, <2>1, <2>2, <2>3 DEF HasTaken
<1> QED
  BY <1>12, <1>14

LEMMA PollWholeFollows ==
  ASSUME ChatTypes, T!PollWhole
  PROVE  LinesInv'
<1>0. TypesInv /\ Good(tParser)' /\ [T!Next]_T!vars
  BY TypesKept DEF ChatTypes, TypesInv, ParserInv, T!Next
<1>1. /\ tReader'.todo = tReader.todo /\ tReader.todo = <<>>
      /\ tReader'.offset = T!Size(tFile) /\ tFile.half = 0
      /\ tProvider = "gemini"
  BY <1>0, PollWholeIs DEF TypesInv, ReaderInv
<1>2. UNCHANGED <<tFile, tEvents, tProvider>>
  BY Zenon DEF T!PollWhole, T!agent
<1>3. /\ tFile \in FileType /\ Len(tFile.lines) \in Nat
      /\ tFile.lines \in Seq(Nat) /\ Len(tReader.todo) = 0
  BY <1>0, <1>1, ReadIs DEF TypesInv, FileInv
<1> DEFINE k == Len(tFile.lines)
<1>4. /\ Read' = k /\ T!Size(tFile)' = T!Size(tFile)
      /\ T!Size(tFile) \in Nat /\ T!Size(tFile) % 2 = 0
  BY <1>1, <1>2, <1>3, SizeIs DEF Read, T!Size
<1>5. PICK p : Rebuilt(p, tFile.lines, tParser')
  BY <1>0, PollWholeRebuilds, RebuildsIs
<1>6. First(k) = T!ToSet(tFile.lines)
  BY <1>3 DEF First, T!ToSet
<1>7. ShowsFirst(k)'
  <2>1. /\ OfLines(tParser'.items, First(k)) /\ OnceEach(tParser'.items)
        /\ AllShown(tParser'.items, First(k))
    BY <1>5, <1>6, RebuildShows
  <2>2. First(k)' = First(k) /\ \A n : Kind(n)' = Kind(n)
    BY <1>2 DEF First, Kind
  <2> QED
    BY <1>2, <2>1, <2>2 DEF ShowsFirst, OfLines, OnceEach, AllShown
<1>8. HasTaken(k)'
  <2>1. k + 0 = k /\ k <= k /\ T!Size(tFile) <= T!Size(tFile)
    BY <1>3, <1>4
  <2> QED
    BY <1>1, <1>2, <1>3, <1>4, <1>7, <2>1 DEF HasTaken
<1> QED
  BY <1>3, <1>8 DEF LinesInv

LEMMA LinesAreKept ==
  ASSUME ChatTypes, FreshInv, LinesInv, [T!Next]_T!vars
  PROVE  LinesInv'
<1>0. TypesInv
  BY DEF ChatTypes
<1>1. CASE UNCHANGED T!vars
  BY <1>0, <1>1, PlaceStays, ShownStays
  DEF T!vars, T!agent, T!ghosts, SamePlace, SameShown
<1>2. CASE T!MergePrompt \/ T!Written
  BY <1>0, <1>2, PlaceStays, ShownStays
  DEF T!MergePrompt, T!Written, T!agent, T!ghosts, SamePlace, SameShown
<1>3. CASE T!SeedPrompt
  <2>1. SamePlace
    BY <1>0, <1>3, SeedIs DEF SamePlace
  <2> QED
    BY <1>0, <1>3, <2>1, PlaceStays, SeedShows
<1>4. CASE T!RollbackPrompt
  <2>1. SamePlace
    BY <1>0, <1>4, RollbackIs DEF SamePlace
  <2> QED
    BY <1>0, <1>4, <2>1, PlaceStays, RollbackShows
<1>5. CASE T!ReadComplete
  <2>1. UNCHANGED <<tFile, tEvents, tProvider>> /\ SameShown
    BY <1>5 DEF T!ReadComplete, T!agent, SameShown
  <2>2. SamePlace
    BY <1>0, <1>5, <2>1, ReadCompleteIs DEF SamePlace
  <2> QED
    BY <1>0, <2>1, <2>2, PlaceStays, ShownStays
<1>6. CASE T!MergeReader
  <2>1. UNCHANGED <<tFile, tEvents, tProvider>> /\ SameShown
    BY <1>6 DEF T!MergeReader, T!agent, T!ghosts, SameShown
  <2>2. SamePlace
    BY <1>0, <1>6, <2>1, MergeReaderIs DEF SamePlace
  <2> QED
    BY <1>0, <2>1, <2>2, PlaceStays, ShownStays
<1>7. CASE T!PollReset
  <2>1. tReader'.at = "start"
    BY <1>0, <1>7, PollResetIs
  <2> QED
    BY <2>1 DEF LinesInv, Follows
<1>8. CASE T!PollPartial
  <2>1. UNCHANGED <<tFile, tEvents, tProvider>>
    BY <1>8 DEF T!PollPartial, T!agent
  <2>2. CASE tReader'.inode = 0
    <3>1. tFile.inode # 0
      BY <1>0, FileIs
    <3> QED
      BY <2>1, <2>2, <3>1 DEF LinesInv, Follows
  <2>3. CASE tReader'.inode # 0
    <3>1. tReader' = [tReader EXCEPT !.at = "idle"] /\ SameShown
      <4>1. \/ tReader' = [tReader EXCEPT !.inode = 0, !.session = 0,
                                          !.offset = 0]
            \/ tReader' = [tReader EXCEPT !.at = "idle"] /\ SameShown
        BY <1>8, Zenon DEF T!PollPartial, SameShown
      <4> QED
        BY <1>0, <2>3, <4>1 DEF TypesInv, ReaderInv, ReaderType
    <3>2. SamePlace
      BY <1>0, <1>8, <2>1, <3>1, PollPartialIs
      DEF SamePlace, TypesInv, ReaderInv, ReaderType
    <3> QED
      BY <1>0, <2>1, <3>1, <3>2, PlaceStays, ShownStays
  <2> QED
    BY <2>2, <2>3
<1> QED
  BY <1>1, <1>2, <1>3, <1>4, <1>5, <1>6, <1>7, <1>8, BeginFollows, EndFollows,
     RestartFollows, ReadFromBeginningFollows, PollFollows, DeliverFollows,
     PollWholeFollows DEF T!Next

\* A reader that has caught up has taken every line, and they are stored.
LEMMA LinesAreThere ==
  ASSUME ChatTypes, SyncInv, LinesInv
  PROVE  T!EveryLineOnce
<1> SUFFICES ASSUME T!CaughtUp PROVE T!EveryLineOnce
  BY DEF T!EveryLineOnce
<1>0. TypesInv
  BY DEF ChatTypes
<1>1. /\ tShown = tParser.items /\ tReader.at = "idle"
      /\ tReader.inode = tFile.inode /\ tReader.session = tFile.session
      /\ tReader.offset = T!Size(tFile)
  BY DEF T!CaughtUp, T!AtRest, T!Changed, SyncInv, Synced, Takes
<1>2. PICK k \in Nat : HasTaken(k)
  BY <1>1 DEF LinesInv, Follows
<1>3. /\ tFile \in FileType /\ Len(tFile.lines) \in Nat
      /\ tFile.lines \in Seq(Nat) /\ Len(tReader.todo) = 0
  BY <1>0, <1>1, ReadIs DEF TypesInv, FileInv, ReaderInv
<1>4. Read = Len(tFile.lines)
  BY <1>1, <1>3, SizeIs DEF Read
<1>5. k = Len(tFile.lines)
  <2>1. k + 0 = Len(tFile.lines)
    BY <1>2, <1>3, <1>4 DEF HasTaken
  <2> QED
    BY <2>1
<1>6. First(k) = T!ToSet(tFile.lines)
  BY <1>3, <1>5 DEF First, T!ToSet
<1>7. ShowsFirst(k) /\ tShown \in Seq(T!Item)
  BY <1>0, <1>2 DEF HasTaken, TypesInv, RestInv
<1>8. \A i \in DOMAIN tShown :
        tShown[i].of \in T!ToSet(tFile.lines) \cup {T!Nothing}
  BY <1>1, <1>6, <1>7 DEF ShowsFirst, OfLines, T!Nothing
<1>9. ASSUME NEW n \in T!ToSet(tFile.lines)
      PROVE  /\ T!Count(n) <= 1
             /\ \/ Kind(n) = "result" \/ tUndone \/ T!Count(n) = 1
                \/ tProvider = "codex" /\ Kind(n) = "message"
  <2> DEFINE S == {i \in DOMAIN tShown : tShown[i].of = n}
  <2>1. n # 0
    <3>1. LinesOK(tFile.lines) /\ EventsInv
      BY <1>0 DEF TypesInv, FileInv
    <3>2. n \in 1..MaxEvents
      BY <3>1, LinesSet
    <3> QED
      BY <3>2, LimitsAssumption
  <2>2. \A i, j \in S : i = j
    BY <1>1, <1>7, <2>1 DEF ShowsFirst, OnceEach
  <2>3. T!Count(n) = Cardinality(S)
    BY Zenon DEF T!Count, T!Cardinality, Cardinality
  <2>4. \/ Kind(n) = "result" \/ tUndone \/ S # {}
        \/ tProvider = "codex" /\ Kind(n) = "message"
    BY <1>1, <1>6, <1>7 DEF ShowsFirst, AllShown
  <2> HIDE DEF S
  <2>5. CASE S = {}
    BY <2>3, <2>4, <2>5, FS_EmptySet
  <2>6. ASSUME NEW i \in S PROVE T!Count(n) = 1
    <3>1. S = {i}
      BY <2>2, <2>6
    <3> QED
      BY <2>3, <3>1, FS_Singleton
  <2> QED
    BY <2>5, <2>6
<1> QED
  BY <1>8, <1>9 DEF T!EveryLineOnce, Kind

-----------------------------------------------------------------------------
(* The transcript keeps all of it, in every behaviour of the chat.         *)

TranscriptInv == ChatTypes /\ SyncInv /\ FreshInv /\ LinesInv

LEMMA TranscriptBegins == ASSUME T!Init PROVE TranscriptInv
<1>1. ChatTypes /\ SyncInv
  BY TypesBegin, SyncBegins
<1>2. /\ tReader.at = "start" /\ tReader.todo = <<>>
      /\ tParser = T!NewParser
  BY DEF T!Init
<1>3. DOMAIN tParser.items = {}
  BY <1>1, <1>2, NewIs DEF ChatTypes, TypesInv, RestInv
<1>4. FreshInv
  BY <1>2, <1>3 DEF FreshInv
<1>5. LinesInv
  BY <1>2 DEF LinesInv, Follows
<1> QED
  BY <1>1, <1>4, <1>5 DEF TranscriptInv

LEMMA TranscriptSteps ==
  ASSUME [ChatNext]_chatVars
  PROVE  [T!Next]_T!vars
BY DEF ChatNext, TimelineStep, HandlersStep, RestartsStep, TranscriptStep,
       chatVars, tVars, T!vars, T!agent, T!ghosts

\* The invariant of the transcript, in every behaviour.
THEOREM TranscriptInvariant == ChatSpec => []TranscriptInv
<1>1. ChatInit => TranscriptInv
  BY TranscriptBegins DEF ChatInit
<1>2. TranscriptInv /\ [ChatNext]_chatVars => TranscriptInv'
  BY TranscriptSteps, TypesKept, SyncIsKept, FreshIsKept, LinesAreKept
  DEF TranscriptInv
<1> QED
  BY <1>1, <1>2, PTL DEF ChatSpec

\* A result is shown with its call, at the place remembered for it.
THEOREM ResultsLandOnCalls == ChatSpec => []ResultsLand
<1>1. TranscriptInv => ResultsLand
  BY ResultsAreOfCalls DEF TranscriptInv, ChatTypes, ResultsLand
<1> QED
  BY <1>1, TranscriptInvariant, PTL

\* A prompt that is not echoed yet has one bubble in the timeline.
THEOREM SeedStaysVisible == ChatSpec => []SeedIsVisible
<1>1. TranscriptInv => SeedIsVisible
  BY SeedIsThere DEF TranscriptInv, SeedIsVisible
<1> QED
  BY <1>1, TranscriptInvariant, PTL

\* A reader that has caught up with the agent's file has shown every line of
\* it once, through rotations, truncations and half lines.
THEOREM LinesAreShownOnce == ChatSpec => []EveryLineOnce
<1>1. TranscriptInv => EveryLineOnce
  BY LinesAreThere DEF TranscriptInv, EveryLineOnce
<1> QED
  BY <1>1, TranscriptInvariant, PTL

\* The variables of every part have their types.
THEOREM TypesOfChat == ChatSpec => []PartTypesOK
<1>1. TranscriptInv => T!TypeOK
  BY TranscriptTyped DEF TranscriptInv
<1>2. PipelinesInv => H!TypeOK /\ R!TypeOK
  <2>1. PipelinesInv => HP!TypeOK /\ RP!TypeOK
    BY HP!TypesFollow, RP!TypesFollow DEF PipelinesInv
  <2>2. HP!TypeOK => H!TypeOK
    BY DEF H!TypeOK, HP!TypeOK, H!Steps, HP!Steps, H!Threads,
           HP!Threads, H!Prompts, HP!Prompts, H!NoPrompt, HP!NoPrompt
  <2>3. RP!TypeOK => R!TypeOK
    BY DEF R!TypeOK, RP!TypeOK, R!Steps, RP!Steps, R!Threads,
           RP!Threads, R!Prompts, RP!Prompts, R!NoPrompt, RP!NoPrompt
  <2> QED
    BY <2>1, <2>2, <2>3
<1>3. TypeOK /\ TranscriptInv /\ PipelinesInv => PartTypesOK
  BY <1>1, <1>2 DEF PartTypesOK
<1> QED
  BY <1>3, TimelineRuns, TypeInvariant, TranscriptInvariant,
     PipelinesInvariant, PTL
=============================================================================
