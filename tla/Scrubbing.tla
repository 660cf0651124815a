------------------------------ MODULE Scrubbing ------------------------------
(***************************************************************************)
(* Scrubber.scrub (scrubbing.py): how a payload is copied without its      *)
(* credentials.                                                            *)
(*                                                                         *)
(* A payload is a graph of containers: a heap maps each of Objects to      *)
(*     [kind : {"dict", "list"}, entries : a sequence of [key, value]]     *)
(* and a value is an object or a leaf.  What a key or a string has to look *)
(* like to be recognised is left out: a key is "denied" or not, a          *)
(* "credential" is a string that one of the patterns matches, and "text"   *)
(* any other, or a number.                                                 *)
(***************************************************************************)
EXTENDS Naturals, Sequences, SequencesExt

CONSTANTS
    Objects,            \* the identities of dicts and lists
    MaxDepth, MaxItems  \* MAX_DEPTH and MAX_ITEMS

Leaves == {"text", "credential"}
Leaf(text) == [text |-> text]

ASSUME ScrubbingAssumption ==
    /\ MaxDepth \in Nat /\ MaxItems \in Nat
    /\ Objects \cap (Leaves \cup {"nothing"}) = {}

Values == Objects \cup Leaves
Heaps == [Objects -> [kind : {"dict", "list"},
                      entries : Seq([key : {"open", "denied"}, value : Values])]]

\* is_denied, asked for the keys of a dict.
Denied(object, entry) == object.kind = "dict" /\ entry.key = "denied"

\* Fault: the last level is cut off as well.
TooDeepAt(depth) == depth >= MaxDepth

TooDeep(depth) == depth > MaxDepth

\* Fault: one entry more is kept.
KeptOneMore(entries) ==
    SubSeq(entries, 1, IF Len(entries) > MaxItems THEN MaxItems + 1 ELSE Len(entries))

Kept(entries) == SubSeq(entries, 1, IF Len(entries) > MaxItems THEN MaxItems ELSE Len(entries))

\* A call of _scrub.  seen holds the containers on the way from the root.
Visits == [value : Values, depth : 0..(MaxDepth + 1), seen : SUBSET Objects]
Below(visit, value) ==
    [value |-> value, depth |-> visit.depth + 1, seen |-> visit.seen \cup {visit.value}]

\* What _scrub returns, when scrub is what it returns for the values below.
Copied(heap, scrub, visit) ==
    LET object == heap[visit.value]
        kept == Kept(object.entries)
        copy(entry) == IF Denied(object, entry) THEN Leaf("redacted")
                       ELSE scrub[Below(visit, entry.value)]
    IN IF TooDeep(visit.depth) THEN Leaf("max-depth")
       ELSE IF visit.value \notin Objects
            THEN Leaf(IF visit.value = "credential" THEN "redacted" ELSE visit.value)
       ELSE IF visit.value \in visit.seen THEN Leaf("circular")
       ELSE [items |-> [n \in DOMAIN kept |-> copy(kept[n])],
             truncated |-> object.kind = "dict" /\ Len(object.entries) > MaxItems]

Scrub(heap) == LET scrub[visit \in Visits] == Copied(heap, scrub, visit) IN scrub

Scrubbed(heap, root) == Scrub(heap)[[value |-> root, depth |-> 0, seen |-> {}]]

-----------------------------------------------------------------------------
(* Reference: what a path comes through, before and after.  A path is the     *)
(* sequence of the positions it takes; behind a leaf there is nothing.        *)

Paths == UNION {[1..k -> 1..MaxItems] : k \in 0..(MaxDepth + 1)}

HasEntry(heap, value, n) == value \in Objects /\ n <= Len(heap[value].entries)
Child(heap, value, n) ==
    IF HasEntry(heap, value, n) THEN heap[value].entries[n].value ELSE "nothing"
Item(copy, n) ==
    IF "items" \in DOMAIN copy /\ n \in DOMAIN copy.items THEN copy.items[n]
    ELSE Leaf("nothing")

\* The values, and the copies, after 0, 1, .. steps.
Reached(heap, root, path) ==
    LET at[n \in 0..Len(path)] == IF n = 0 THEN root ELSE Child(heap, at[n - 1], path[n])
    IN at
Followed(copy, path) ==
    LET at[n \in 0..Len(path)] == IF n = 0 THEN copy ELSE Item(at[n - 1], path[n])
    IN at
Found(copy, path) == Followed(copy, path)[Len(path)]

\* A step of the path goes through a key that is denied.
Secret(heap, root, path) ==
    \E n \in 1..Len(path) :
        LET v == Reached(heap, root, path)[n - 1]
        IN HasEntry(heap, v, path[n])
           /\ heap[v].kind = "dict" /\ heap[v].entries[path[n]].key = "denied"

\* The path comes through an object twice, its end left out.
Repeats(heap, root, path) ==
    LET v == Reached(heap, root, path)
    IN \E m, n \in 0..(Len(path) - 1) : m < n /\ v[m] = v[n] /\ v[n] \in Objects

-----------------------------------------------------------------------------
(* Properties, of one heap, its root and the copy that was made of them *)

\* scrubbing.py:243-246: what the scrubber lets out has no credential: neither one
\* that looks like one, nor any value at or below a denied key, at any depth and
\* over any shared or cyclic reference.
NothingEscapesFrom(heap, root, copy) ==
    \A p \in Paths :
        /\ Found(copy, p) # Leaf("credential")
        /\ Secret(heap, root, p) => Found(copy, p) \in {Leaf("redacted"), Leaf("nothing")}

\* scrubbing.py:16-18: "Credentials are not identifiers": everything else is still
\* there.  A path within the limits ends in its text, and is cut as circular exactly
\* where it comes back to an object it went through; an object that several paths
\* share is copied for each.
NothingLostFrom(heap, root, copy) ==
    \A p \in Paths :
        (~Secret(heap, root, p) /\ ~Repeats(heap, root, p) /\ Len(p) <= MaxDepth) =>
            LET v == Reached(heap, root, p)
                end == v[Len(p)]
                back == \E m \in 0..(Len(p) - 1) : v[m] = end
            IN IF end = "nothing" THEN Found(copy, p) = Leaf("nothing")
               ELSE IF end = "credential" THEN Found(copy, p) = Leaf("redacted")
               ELSE IF end \notin Objects THEN Found(copy, p) = Leaf(end)
               ELSE IF back THEN Found(copy, p) = Leaf("circular")
               ELSE "items" \in DOMAIN Found(copy, p)

\* scrubbing.py:93-95: "A cyclic or absurdly deep payload should end in a truncated event":
\* the copy has containers down to MaxDepth only, no more than MaxItems in each, nothing is
\* left out but what is beyond that, and of a dict it says so.
TruncatedFrom(heap, root, copy) ==
    \A p \in Paths :
        LET found == Found(copy, p)
            end == Reached(heap, root, p)[Len(p)]
        IN "items" \in DOMAIN found =>
             /\ end \in Objects /\ Len(p) <= MaxDepth /\ Len(found.items) <= MaxItems
             /\ Len(found.items) < Len(heap[end].entries) => Len(found.items) = MaxItems
             /\ found.truncated <=> /\ heap[end].kind = "dict"
                                    /\ Len(found.items) < Len(heap[end].entries)
=============================================================================
