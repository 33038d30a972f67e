------------------------------- MODULE Bucket -------------------------------
(***************************************************************************)
(* limit.Bucket: at most capacity values with a priority, the time at which *)
(* a value expires.  The items are a binary heap in an array, and the place  *)
(* of an item in the array matters, because IsStale looks at one place only. *)
(***************************************************************************)
EXTENDS Integers, Sequences

Before(x, y) == x.priority < y.priority
expired(item, now) == item.priority < now

Swap(h, i, j) == [h EXCEPT ![i] = h[j], ![j] = h[i]]

\* container/heap: an item moves towards the root while it is before its parent,
\* or away from it while a child is before it; it has arrived after Len(h) moves.
up(h, i) ==
    LET moved[k \in Nat] ==
            IF k = 0 THEN [heap |-> h, at |-> i]
            ELSE LET m == moved[k - 1]
                 IN  IF m.at = 1 \/ ~Before(m.heap[m.at], m.heap[m.at \div 2]) THEN m
                     ELSE [heap |-> Swap(m.heap, m.at, m.at \div 2), at |-> m.at \div 2]
    IN  moved[Len(h)].heap

down(h, i) ==
    LET moved[k \in Nat] ==
            IF k = 0 THEN [heap |-> h, at |-> i]
            ELSE LET m == moved[k - 1]
                     l == 2 * m.at
                     j == IF l < Len(m.heap) /\ Before(m.heap[l + 1], m.heap[l]) THEN l + 1 ELSE l
                 IN  IF l > Len(m.heap) \/ ~Before(m.heap[j], m.heap[m.at]) THEN m
                     ELSE [heap |-> Swap(m.heap, m.at, j), at |-> j]
    IN  moved[Len(h)].heap

Push(h, item) == up(Append(h, item), Len(h) + 1)
Pop(h) == down(SubSeq(Swap(h, 1, Len(h)), 1, Len(h) - 1), 1)

\* sortedItems.update: heap.Fix after the priority has changed.
update(h, i, priority) ==
    LET g == [h EXCEPT ![i].priority = priority]
    IN  IF down(g, i) # g THEN down(g, i) ELSE up(g, i)

NewBucket == << >>

IsStale(h, now) == Len(h) = 0 \/ expired(h[Len(h)], now)

\* What Upsert does: whether it accepts the value, and the heap afterwards.
UpsertEarly(h, capacity, value, priority, now) ==
    LET at == {i \in DOMAIN h : h[i].value = value}
        new == [value |-> value, priority |-> priority]
    IN  CASE at # {} -> [ok |-> TRUE, items |-> h]
          [] at = {} /\ Len(h) < capacity -> [ok |-> TRUE, items |-> Push(h, new)]
          [] at = {} /\ Len(h) >= capacity /\ expired(h[1], now) ->
                [ok |-> TRUE, items |-> Push(Pop(h), new)]
          [] OTHER -> [ok |-> FALSE, items |-> h]

Upsert(h, capacity, value, priority, now) ==
    LET at == {i \in DOMAIN h : h[i].value = value}
        new == [value |-> value, priority |-> priority]
    IN  CASE at # {} ->
                [ok |-> TRUE, items |-> update(h, CHOOSE i \in at : TRUE, priority)]
          [] at = {} /\ Len(h) < capacity -> [ok |-> TRUE, items |-> Push(h, new)]
          [] at = {} /\ Len(h) >= capacity /\ expired(h[1], now) ->
                [ok |-> TRUE, items |-> Push(Pop(h), new)]
          [] OTHER -> [ok |-> FALSE, items |-> h]
=============================================================================
