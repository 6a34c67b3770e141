---------------------------- MODULE CachedEvents ----------------------------
(***************************************************************************)
(* cachedEventsMap: the counts of events that were aggregated and not yet  *)
(* harvested, by interval and ID, in scaled integers behind pointers that  *)
(* are taken from and returned to a pool.                                  *)
(*                                                                         *)
(* add is made of atomic operations on a sync.Map, a counter and a         *)
(* sync.Pool, which are interleaved here as its code allows; the           *)
(* aggregator, which holds its mutex in every call, needs less.            *)
(* loadAndDelete runs with all callers of add excluded.                    *)
(***************************************************************************)
EXTENDS Integers, FiniteSets

CONSTANTS
    Intervals, \* the aggregation intervals
    IDs,       \* the IDs of combined metrics
    Adders,    \* the goroutines that call add
    Ptrs,      \* the addresses of counters
    NoPtr,     \* no address
    Scale,     \* math.MaxUint16
    Den,       \* the counts of events are multiples of 1/Den
    Amounts,   \* the counts that are added, in units of 1/Den
    Ends,      \* the end times of harvests
    MaxAdds    \* bound on the number of calls of add

Key == [ivl : Intervals, id : IDs]

ASSUME ConstantsAssumption ==
    /\ Intervals \subseteq Nat \ {0} /\ Ends \subseteq Nat /\ Amounts \subseteq Nat
    /\ Scale \in Nat \ {0} /\ Den \in Nat \ {0} /\ MaxAdds \in Nat
    /\ NoPtr \notin Ptrs /\ Key # {}

VARIABLES
    m,      \* the map: the address of the counter of a key, or NoPtr
    heap,   \* the counters
    pool,   \* the addresses in countPool
    pc,     \* where each adder is: idle, load, store, add
    key,    \* the key it adds to
    amount, \* the count it adds to it, in units of 1/Den
    mine,   \* nscaled, the counter it got from the pool
    old,    \* the counter it found in the map
    stored, \* history: what was added to each key since it was loaded, scaled
    exact,  \* history: the same, in units of 1/Den
    lossy,  \* history: the number of calls of add for it that were no whole count
    loaded, \* history: what the last loadAndDelete returned, and what it was made of
    adds    \* the number of calls of add

vars == <<m, heap, pool, pc, key, amount, mine, old, stored, exact, lossy, loaded, adds>>

-----------------------------------------------------------------------------
(* Plausible mistakes in the definitions below, for showing that the properties *)
(* can tell them from the code.  No specification uses them.                    *)

UnscaledRounded(v) == (2 * v + Scale) \div (2 * Scale)

\* Store instead of LoadOrStore.
StoreAlways(a) ==
    /\ pc[a] = "store"
    /\ m' = [m EXCEPT ![key[a]] = mine[a]]
    /\ stored' = [stored EXCEPT ![key[a]] = @ + heap[mine[a]]]
    /\ mine' = [mine EXCEPT ![a] = NoPtr]
    /\ pc' = [pc EXCEPT ![a] = "idle"]
    /\ UNCHANGED <<heap, pool, key, amount, old, exact, lossy, loaded, adds>>

-----------------------------------------------------------------------------
\* end.Truncate(interval).Equal(end)
Due(ivl, end) == end % ivl = 0

\* uint64(n * math.MaxUint16)
Scaled(n) == (n * Scale) \div Den

\* float64(vscaled / math.MaxUint16), an integer division.
Unscaled(v) == v \div Scale

InMap(p) == \E k \in Key : m[k] = p

\* Memory that nothing points to.
Fresh(p) == p \notin pool /\ ~InMap(p) /\ \A a \in Adders : p \notin {mine[a], old[a]}

Init ==
    /\ m = [k \in Key |-> NoPtr]
    /\ heap = [p \in Ptrs |-> 0]
    /\ pool = {}
    /\ pc = [a \in Adders |-> "idle"]
    /\ key = [a \in Adders |-> CHOOSE k \in Key : TRUE]
    /\ amount = [a \in Adders |-> 0]
    /\ mine = [a \in Adders |-> NoPtr] /\ old = [a \in Adders |-> NoPtr]
    /\ stored = [k \in Key |-> 0] /\ exact = [k \in Key |-> 0] /\ lossy = [k \in Key |-> 0]
    /\ loaded = {}
    /\ adds = 0

\* countPool.Get, which may find nothing in the pool at any time, and *nscaled = ...
Get(a, k, n, p) ==
    /\ pc[a] = "idle" /\ adds < MaxAdds
    /\ p \in pool \/ Fresh(p)
    /\ pool' = pool \ {p}
    /\ mine' = [mine EXCEPT ![a] = p]
    /\ heap' = [heap EXCEPT ![p] = Scaled(n)]
    /\ key' = [key EXCEPT ![a] = k] /\ amount' = [amount EXCEPT ![a] = n]
    /\ pc' = [pc EXCEPT ![a] = "load"]
    /\ adds' = adds + 1
    /\ UNCHANGED <<m, old, stored, exact, lossy, loaded>>

\* m.Load
LoadKey(a) ==
    /\ pc[a] = "load"
    /\ old' = [old EXCEPT ![a] = m[key[a]]]
    /\ pc' = [pc EXCEPT ![a] = IF m[key[a]] = NoPtr THEN "store" ELSE "add"]
    /\ UNCHANGED <<m, heap, pool, key, amount, mine, stored, exact, lossy, loaded, adds>>

\* The history of what was added to the key of a call.
Record(a) ==
    /\ exact' = [exact EXCEPT ![key[a]] = @ + amount[a]]
    /\ lossy' = [lossy EXCEPT ![key[a]] = IF amount[a] % Den = 0 THEN @ ELSE @ + 1]

\* m.LoadOrStore: the counter is in the map, or another adder was first.
LoadOrStore(a) ==
    /\ pc[a] = "store"
    /\ IF m[key[a]] = NoPtr
       THEN /\ m' = [m EXCEPT ![key[a]] = mine[a]]
            /\ stored' = [stored EXCEPT ![key[a]] = heap[mine[a]]]
            /\ mine' = [mine EXCEPT ![a] = NoPtr]
            /\ pc' = [pc EXCEPT ![a] = "idle"]
            /\ Record(a)
            /\ UNCHANGED old
       ELSE /\ old' = [old EXCEPT ![a] = m[key[a]]]
            /\ pc' = [pc EXCEPT ![a] = "add"]
            /\ UNCHANGED <<m, stored, exact, lossy, mine>>
    /\ UNCHANGED <<heap, pool, key, amount, loaded, adds>>

\* atomic.AddUint64, and countPool.Put, which is not seen before the next Get.
AddUint64(a) ==
    /\ pc[a] = "add"
    /\ heap' = [heap EXCEPT ![old[a]] = @ + heap[mine[a]]]
    /\ stored' = [stored EXCEPT ![key[a]] = @ + heap[mine[a]]]
    /\ pool' = pool \cup {mine[a]}
    /\ mine' = [mine EXCEPT ![a] = NoPtr]
    /\ old' = [old EXCEPT ![a] = NoPtr]
    /\ pc' = [pc EXCEPT ![a] = "idle"]
    /\ Record(a)
    /\ UNCHANGED <<m, key, amount, loaded, adds>>

\* The keys that a harvest to end takes out of the map.
DueKeys(end) == {k \in Key : m[k] # NoPtr /\ Due(k.ivl, end)}

LoadAndDelete(end) ==
    /\ \A a \in Adders : pc[a] = "idle"
    /\ loaded' = {[k |-> k, value |-> Unscaled(heap[m[k]]), exact |-> exact[k], lossy |-> lossy[k]] :
                  k \in DueKeys(end)}
    /\ pool' = pool \cup {m[k] : k \in DueKeys(end)}
    /\ m' = [k \in Key |-> IF k \in DueKeys(end) THEN NoPtr ELSE m[k]]
    /\ stored' = [k \in Key |-> IF k \in DueKeys(end) THEN 0 ELSE stored[k]]
    /\ exact' = [k \in Key |-> IF k \in DueKeys(end) THEN 0 ELSE exact[k]]
    /\ lossy' = [k \in Key |-> IF k \in DueKeys(end) THEN 0 ELSE lossy[k]]
    /\ UNCHANGED <<heap, pc, key, amount, mine, old, adds>>

AddStep(a) ==
    \/ \E k \in Key, n \in Amounts, p \in Ptrs : Get(a, k, n, p)
    \/ LoadKey(a) \/ LoadOrStore(a) \/ AddUint64(a)

Next == (\E a \in Adders : AddStep(a)) \/ (\E end \in Ends : LoadAndDelete(end))

Spec == Init /\ [][Next]_vars

-----------------------------------------------------------------------------
(* Properties. *)

\* The type of every variable but the history of loads.
TypeOK ==
    /\ m \in [Key -> Ptrs \cup {NoPtr}]
    /\ heap \in [Ptrs -> Nat]
    /\ pool \subseteq Ptrs
    /\ pc \in [Adders -> {"idle", "load", "store", "add"}]
    /\ key \in [Adders -> Key] /\ amount \in [Adders -> Nat]
    /\ mine \in [Adders -> Ptrs \cup {NoPtr}] /\ old \in [Adders -> Ptrs \cup {NoPtr}]
    /\ stored \in [Key -> Nat] /\ exact \in [Key -> Nat] /\ lossy \in [Key -> Nat]
    /\ adds \in Nat

\* A counter in the map holds exactly what was added to its key since the key was last
\* loaded: no counter of the pool or of another call is written through the map, and no
\* addition is lost when two calls of add find a key missing at once.
StoredExact == \A k \in Key : stored[k] = IF m[k] = NoPtr THEN 0 ELSE heap[m[k]]

\* A loaded count is never more than the events that were added, and it falls short of
\* them by less than one event, apart from what scaling loses in each call with a
\* fraction; whole counts, the only ones AggregateBatch adds, are loaded as they are.
CountBounded ==
    \A l \in loaded :
       /\ l.value * Den <= l.exact
       /\ l.exact * Scale < (l.value + 1) * Scale * Den + l.lossy * Den
=============================================================================
