------------------------ MODULE IdentityReporterProofs ------------------------
(***************************************************************************)
(* Proofs about IdentityReporter, for any request threads, loops, keys and *)
(* bounds: no sighting is forgotten, suppression hides nothing, and there  *)
(* is one flush loop.                                                      *)
(***************************************************************************)
EXTENDS IdentityReporter, SelectionProofs, SequenceTheorems

-----------------------------------------------------------------------------
(* The invariant *)

LoopPlaces == {"none", "waiting", "flush", "posting", "exited"}
CallerPlaces == {"idle", "flush", "posting"}
ControlPlaces == {"idle", "joining", "flush", "posting"}

\* A loop that is alive is the one start() made, and is gone when stop() is past the
\* join, as long as no POST has outlasted it.
LoopInv ==
    /\ thread \in [Threads -> LoopPlaces \cup ControlPlaces]
    /\ \A l \in Loops : thread[l] \in LoopPlaces
    /\ \A c \in Callers : thread[c] \in CallerPlaces
    /\ thread["control"] \in ControlPlaces
    /\ loopThread \in Loops \cup {None}
    /\ thread["control"] \in {"flush", "posting"} => loopThread = None
    /\ "late" \notin past => \A l \in Loops : Alive(l) => loopThread = l

\* The key of a record, by the sightings s.  The sightings merged in it have one key.
KeyIn(s, r) == s[CHOOSE i \in r : TRUE].key
RecordIn(s, r) ==
    /\ r # {} /\ r \subseteq DOMAIN s
    /\ \A i, j \in r : s[i].key = s[j].key

\* _pending, or a batch taken from it: one record of a key.
RecordsIn(s, q) ==
    /\ q \in Seq(SUBSET DOMAIN s)
    /\ \A n \in DOMAIN q : RecordIn(s, q[n])
    /\ \A m, n \in DOMAIN q : KeyIn(s, q[m]) = KeyIn(s, q[n]) => m = n

Sightings == [key : Keys, fields : Said]

RecordsInv ==
    /\ sightings \in Seq(Sightings)
    /\ settled \subseteq DOMAIN sightings
    /\ RecordsIn(sightings, pending)
    /\ DOMAIN batch = Threads
    /\ \A t \in Threads : RecordsIn(sightings, batch[t])
    /\ \A t \in Threads : thread[t] # "posting" => batch[t] = <<>>

\* As long as one thread sends at a time, what is pending of a key came after what is
\* being sent of it: the record that _requeue drops has a successor.
Newer(s, q, later) ==
    \A m \in DOMAIN q, n \in DOMAIN later :
        KeyIn(s, q[m]) = KeyIn(s, later[n]) => \A i \in q[m], j \in later[n] : i < j

SendingInv ==
    "overlap" \notin past =>
        /\ \A t, u \in Threads : thread[t] = "posting" /\ thread[u] = "posting" => t = u
        /\ \A t \in Threads : Newer(sightings, batch[t], pending)

\* Without a retry no sighting is dropped.
KeptInv ==
    /\ "overlap" \notin past =>
         \A i \in DOMAIN sightings : Since(i) \cap (Held \cup settled) # {}
    /\ "retry" \notin past => DOMAIN sightings \subseteq Held \cup settled

\* A fingerprint in _seen is that of the latest sighting of its identity.
Entries == [key : Keys, print : Said, aged : BOOLEAN]

Prints(sighting, e) == sighting.key = e.key /\ Fingerprint(sighting.fields) = e.print

SeenInv ==
    /\ seen \in Seq(Entries)
    /\ \A e \in Range(seen) : \E i \in DOMAIN sightings :
          Prints(sightings[i], e) /\ Since(i) = {i}

ReporterInv == LoopInv /\ RecordsInv /\ SendingInv /\ KeptInv /\ SeenInv

-----------------------------------------------------------------------------
(* Records of sightings *)

LEMMA KeyOfRecord ==
    ASSUME NEW s, NEW r, RecordIn(s, r), NEW i \in r
    PROVE  KeyIn(s, r) = s[i].key
BY DEF KeyIn, RecordIn

\* A new sighting changes nothing of the records there are.
LEMMA RecordKept ==
    ASSUME NEW S, NEW s \in Seq(S), NEW e \in S, NEW r, RecordIn(s, r)
    PROVE  RecordIn(Append(s, e), r) /\ KeyIn(Append(s, e), r) = KeyIn(s, r)
<1> DEFINE t == Append(s, e)
<1>1. \A i \in DOMAIN s : i \in DOMAIN t /\ t[i] = s[i]
  OBVIOUS
<1> HIDE DEF t
<1>2. RecordIn(t, r)
  BY <1>1 DEF RecordIn
<1>3. PICK i \in r : i \in DOMAIN s
  BY DEF RecordIn
<1>4. KeyIn(t, r) = t[i].key /\ KeyIn(s, r) = s[i].key
  BY <1>2, <1>3, KeyOfRecord
<1> QED BY <1>1, <1>2, <1>3, <1>4 DEF t

LEMMA RecordsKept ==
    ASSUME NEW S, NEW s \in Seq(S), NEW e \in S, NEW q, RecordsIn(s, q)
    PROVE  RecordsIn(Append(s, e), q)
<1>1. \A n \in DOMAIN q : RecordIn(s, q[n])
  BY DEF RecordsIn
<1>2. \A n \in DOMAIN q :
        /\ RecordIn(Append(s, e), q[n])
        /\ KeyIn(Append(s, e), q[n]) = KeyIn(s, q[n])
  BY <1>1, RecordKept
<1>3. q \in Seq(SUBSET DOMAIN Append(s, e))
  <2> DEFINE t == Append(s, e)
  <2>1. \A n \in DOMAIN q : q[n] \in SUBSET DOMAIN t
    BY <1>2 DEF RecordIn
  <2> HIDE DEF t
  <2> QED BY <2>1 DEF RecordsIn, t
<1> QED BY <1>2, <1>3 DEF RecordsIn

\* A batch and the rest, taken from a sequence of records, have no key in common.
LEMMA RecordsSplit ==
    ASSUME NEW s, NEW q, RecordsIn(s, q), NEW n \in 0..Len(q)
    PROVE  LET front == SubSeq(q, 1, n)
               rest == SubSeq(q, n + 1, Len(q))
           IN /\ RecordsIn(s, front) /\ RecordsIn(s, rest)
              /\ UNION Range(q) = (UNION Range(front)) \cup (UNION Range(rest))
              /\ Newer(s, front, rest)
<1> DEFINE front == SubSeq(q, 1, n)
           rest == SubSeq(q, n + 1, Len(q))
           S == SUBSET DOMAIN s
<1> HIDE DEF S
<1>1. q \in Seq(S) /\ Len(q) \in Nat /\ DOMAIN q = 1..Len(q)
  BY DEF RecordsIn, S
<1>2. /\ front \in Seq(S) /\ Len(front) = n /\ DOMAIN front = 1..n
      /\ \A k \in 1..n : front[k] = q[k]
  BY <1>1, SubSeqProperties
<1>3. /\ rest \in Seq(S) /\ Len(rest) = Len(q) - n /\ DOMAIN rest = 1..(Len(q) - n)
      /\ \A k \in 1..(Len(q) - n) : rest[k] = q[n + k]
  <2>1. n + 1 \in Int /\ Len(q) \in Int /\ \A i \in (n + 1)..Len(q) : q[i] \in S
    BY <1>1
  <2>2. /\ rest \in Seq(S)
        /\ Len(rest) = IF n + 1 <= Len(q) THEN Len(q) - (n + 1) + 1 ELSE 0
        /\ \A k \in 1..(Len(q) - (n + 1) + 1) : rest[k] = q[(n + 1) + k - 1]
    BY <1>1, <2>1, SubSeqProperties
  <2> HIDE DEF rest
  <2>3. Len(q) - (n + 1) + 1 = Len(q) - n /\ Len(q) - n \in Nat
    BY <1>1
  <2>4. \A k \in 1..(Len(q) - n) : (n + 1) + k - 1 = n + k
    BY <1>1
  <2>5. Len(rest) = Len(q) - n
    <3> DEFINE l == Len(q)
    <3>1. l \in Int /\ n \in Int /\ n <= l
      BY <1>1
    <3> HIDE DEF l
    <3>2. (IF n + 1 <= l THEN l - (n + 1) + 1 ELSE 0) = l - n
      BY <3>1
    <3> QED BY <2>2, <3>2 DEF l
  <2>6. DOMAIN rest = 1..(Len(q) - n)
    BY <2>2, <2>5
  <2>7. \A k \in 1..(Len(q) - n) : rest[k] = q[n + k]
    BY <2>2, <2>3, <2>4
  <2> QED BY <2>2, <2>5, <2>6, <2>7
<1> HIDE DEF front, rest
<1>4. RecordsIn(s, front)
  <2>1. \A k \in 1..n : k \in DOMAIN q /\ RecordIn(s, front[k])
    BY <1>1, <1>2 DEF RecordsIn
  <2>2. \A k, l \in 1..n : KeyIn(s, front[k]) = KeyIn(s, front[l]) => k = l
    BY <1>1, <1>2 DEF RecordsIn
  <2> QED BY <1>2, <2>1, <2>2 DEF RecordsIn, S
<1>5. RecordsIn(s, rest)
  <2>1. \A k \in 1..(Len(q) - n) : n + k \in DOMAIN q /\ RecordIn(s, rest[k])
    BY <1>1, <1>3 DEF RecordsIn
  <2>2. \A k, l \in 1..(Len(q) - n) : KeyIn(s, rest[k]) = KeyIn(s, rest[l]) => k = l
    <3> SUFFICES ASSUME NEW k \in 1..(Len(q) - n), NEW l \in 1..(Len(q) - n),
                        KeyIn(s, rest[k]) = KeyIn(s, rest[l])
                 PROVE  k = l
      OBVIOUS
    <3>1. n + k \in DOMAIN q /\ n + l \in DOMAIN q /\ KeyIn(s, q[n + k]) = KeyIn(s, q[n + l])
      BY <1>3, <2>1
    <3>2. n + k = n + l
      BY <3>1 DEF RecordsIn
    <3> QED BY <3>2
  <2> QED BY <1>3, <2>1, <2>2 DEF RecordsIn, S
<1>6. UNION Range(q) = (UNION Range(front)) \cup (UNION Range(rest))
  <2>1. ASSUME NEW k \in DOMAIN q
        PROVE  \/ k \in DOMAIN front /\ front[k] = q[k]
               \/ k - n \in DOMAIN rest /\ rest[k - n] = q[k]
    <3>1. CASE k <= n
      BY <1>1, <1>2, <3>1
    <3>2. CASE k > n
      <4>1. k - n \in 1..(Len(q) - n) /\ n + (k - n) = k
        BY <1>1, <3>2
      <4> QED BY <1>3, <4>1
    <3> QED BY <1>1, <3>1, <3>2
  <2>2. \A k \in DOMAIN front : k \in DOMAIN q /\ front[k] = q[k]
    BY <1>1, <1>2
  <2>3. \A k \in DOMAIN rest : n + k \in DOMAIN q /\ rest[k] = q[n + k]
    BY <1>1, <1>3
  <2>4. ASSUME NEW x \in UNION Range(q) PROVE x \in (UNION Range(front)) \cup (UNION Range(rest))
    <3>1. PICK k \in DOMAIN q : x \in q[k]
      BY DEF Range
    <3>2. CASE k \in DOMAIN front /\ front[k] = q[k]
      BY <3>1, <3>2 DEF Range
    <3>3. CASE k - n \in DOMAIN rest /\ rest[k - n] = q[k]
      BY <3>1, <3>3 DEF Range
    <3> QED BY <2>1, <3>1, <3>2, <3>3
  <2>5. ASSUME NEW x \in (UNION Range(front)) \cup (UNION Range(rest)) PROVE x \in UNION Range(q)
    <3>1. \/ \E k \in DOMAIN front : x \in front[k]
          \/ \E k \in DOMAIN rest : x \in rest[k]
      BY DEF Range
    <3> QED BY <2>2, <2>3, <3>1 DEF Range
  <2> QED BY <2>4, <2>5
<1>7. Newer(s, front, rest)
  <2> SUFFICES ASSUME NEW k \in DOMAIN front, NEW l \in DOMAIN rest,
                      KeyIn(s, front[k]) = KeyIn(s, rest[l])
               PROVE  FALSE
    BY DEF Newer
  <2>1. k \in DOMAIN q /\ n + l \in DOMAIN q /\ k < n + l
    BY <1>1, <1>2, <1>3
  <2>2. front[k] = q[k] /\ rest[l] = q[n + l]
    BY <1>2, <1>3
  <2>3. k = n + l
    BY <2>1, <2>2 DEF RecordsIn
  <2> QED BY <1>2, <1>3, <2>1, <2>3
<1> QED BY <1>4, <1>5, <1>6, <1>7 DEF front, rest

\* The records q with a new sighting e merged in.
MergedIn(s, q, e) ==
    LET waiting == {n \in DOMAIN q : KeyIn(s, q[n]) = e.key}
    IN IF waiting = {} THEN Append(q, {Len(s) + 1})
       ELSE [n \in DOMAIN q |-> IF n \in waiting THEN q[n] \cup {Len(s) + 1} ELSE q[n]]

\* A record of q grows by the new sighting and keeps its key, or it is new.
Grown(s, q, e, m, n) ==
    /\ n \in DOMAIN q /\ q[n] \subseteq m[n] /\ m[n] \subseteq q[n] \cup {Len(s) + 1}
    /\ RecordIn(Append(s, e), m[n]) /\ KeyIn(Append(s, e), m[n]) = KeyIn(s, q[n])

LEMMA RecordGrown ==
    ASSUME NEW s \in Seq(Sightings), NEW e \in Sightings, NEW r, RecordIn(s, r),
           KeyIn(s, r) = e.key
    PROVE  LET m == r \cup {Len(s) + 1}
           IN RecordIn(Append(s, e), m) /\ KeyIn(Append(s, e), m) = KeyIn(s, r)
<1> DEFINE t == Append(s, e)
           m == r \cup {Len(s) + 1}
<1>1. /\ \A i \in DOMAIN s : i \in DOMAIN t /\ t[i] = s[i]
      /\ Len(s) + 1 \in DOMAIN t /\ t[Len(s) + 1] = e
  OBVIOUS
<1> HIDE DEF t
<1>2. \A i \in m : i \in DOMAIN t /\ t[i].key = e.key
  BY <1>1, KeyOfRecord DEF RecordIn
<1>3. RecordIn(t, m)
  BY <1>2 DEF RecordIn
<1>4. KeyIn(t, m) = e.key
  <2>1. Len(s) + 1 \in m
    OBVIOUS
  <2> QED BY <1>2, <1>3, <2>1, KeyOfRecord
<1> QED BY <1>3, <1>4 DEF t

LEMMA RecordsMerged ==
    ASSUME NEW s \in Seq(Sightings), NEW e \in Sightings, NEW q, RecordsIn(s, q)
    PROVE  LET m == MergedIn(s, q, e)
           IN /\ RecordsIn(Append(s, e), m)
              /\ UNION Range(q) \subseteq UNION Range(m) /\ Len(s) + 1 \in UNION Range(m)
              /\ \A n \in DOMAIN m : Grown(s, q, e, m, n) \/ m[n] = {Len(s) + 1}
<1> DEFINE t == Append(s, e)
           new == Len(s) + 1
           m == MergedIn(s, q, e)
           waiting == {n \in DOMAIN q : KeyIn(s, q[n]) = e.key}
<1>1. /\ t \in Seq(Sightings) /\ new \in DOMAIN t /\ t[new] = e
      /\ \A i \in DOMAIN s : i \in DOMAIN t
  OBVIOUS
<1>2. \A n \in DOMAIN q : RecordIn(s, q[n])
  BY DEF RecordsIn
<1>3. \A n \in DOMAIN q : RecordIn(t, q[n]) /\ KeyIn(t, q[n]) = KeyIn(s, q[n])
  BY <1>2, RecordKept
<1>4. q \in Seq(SUBSET DOMAIN s) /\ Len(q) \in Nat /\ DOMAIN q = 1..Len(q)
  BY DEF RecordsIn
<1>5. CASE waiting = {}
  <2>1. m = Append(q, {new})
    BY <1>5 DEF MergedIn
  <2>2. /\ DOMAIN m = 1..(Len(q) + 1) /\ m[Len(q) + 1] = {new}
        /\ \A n \in DOMAIN q : n \in DOMAIN m /\ m[n] = q[n]
    BY <1>4, <2>1
  <2> HIDE DEF m, t, new
  <2>3. RecordIn(t, {new}) /\ KeyIn(t, {new}) = e.key
    <3>1. RecordIn(t, {new})
      BY <1>1 DEF RecordIn
    <3> QED BY <1>1, <3>1, KeyOfRecord
  <2>4. \A n \in DOMAIN m : n \in DOMAIN q \/ n = Len(q) + 1
    BY <1>4, <2>2
  <2>5. \A n \in DOMAIN m : RecordIn(t, m[n])
    BY <1>3, <2>2, <2>3, <2>4
  <2>6. \A n \in DOMAIN q : KeyIn(t, m[n]) # e.key
    BY <1>3, <1>5, <2>2
  <2>7. ASSUME NEW k \in DOMAIN m, NEW n \in DOMAIN m, KeyIn(t, m[k]) = KeyIn(t, m[n])
        PROVE  k = n
    <3>1. CASE k \in DOMAIN q /\ n \in DOMAIN q
      BY <1>3, <2>2, <2>7, <3>1 DEF RecordsIn
    <3>2. CASE k = Len(q) + 1 \/ n = Len(q) + 1
      BY <2>2, <2>3, <2>4, <2>6, <2>7, <3>2
    <3> QED BY <2>4, <3>1, <3>2
  <2>8. m \in Seq(SUBSET DOMAIN t)
    <3>1. q \in Seq(SUBSET DOMAIN t)
      BY RecordsKept DEF RecordsIn, t
    <3>2. {new} \in SUBSET DOMAIN t
      BY <1>1
    <3> DEFINE S == SUBSET DOMAIN t
    <3> HIDE DEF S
    <3>3. m \in Seq(S)
      BY <2>1, <3>1, <3>2 DEF S
    <3> QED BY <3>3 DEF S
  <2>9. RecordsIn(t, m)
    BY <2>5, <2>7, <2>8 DEF RecordsIn
  <2>10. \A n \in DOMAIN q : Grown(s, q, e, m, n)
    BY <1>3, <2>2 DEF Grown, t
  <2>11. UNION Range(q) \subseteq UNION Range(m) /\ new \in UNION Range(m)
    <3>1. Len(q) + 1 \in DOMAIN m
      BY <1>4, <2>2
    <3>2. new \in UNION Range(m)
      BY <2>2, <3>1 DEF Range
    <3> QED BY <2>2, <3>2 DEF Range
  <2> QED BY <2>2, <2>4, <2>9, <2>10, <2>11 DEF m, t, new
<1>6. CASE waiting # {}
  <2>1. m = [n \in DOMAIN q |-> IF n \in waiting THEN q[n] \cup {new} ELSE q[n]]
    BY <1>6 DEF MergedIn
  <2>2. /\ DOMAIN m = DOMAIN q
        /\ \A n \in waiting : m[n] = q[n] \cup {new}
        /\ \A n \in DOMAIN q \ waiting : m[n] = q[n]
    BY <2>1
  <2> HIDE DEF m
  <2>3. ASSUME NEW n \in DOMAIN q PROVE Grown(s, q, e, m, n)
    <3>1. CASE n \in waiting
      <4>1. RecordIn(s, q[n]) /\ KeyIn(s, q[n]) = e.key
        BY <1>2, <3>1
      <4>2. m[n] = q[n] \cup {new}
        BY <2>2, <3>1
      <4>3. /\ RecordIn(t, q[n] \cup {new})
            /\ KeyIn(t, q[n] \cup {new}) = KeyIn(s, q[n])
        BY <4>1, RecordGrown
      <4> QED BY <4>2, <4>3 DEF Grown
    <3>2. CASE n \notin waiting
      BY <1>3, <2>2, <3>2 DEF Grown
    <3> QED BY <3>1, <3>2
  <2> HIDE DEF t, new, waiting
  <2>4. \A n \in DOMAIN m : RecordIn(t, m[n]) /\ KeyIn(t, m[n]) = KeyIn(s, q[n])
    BY <2>2, <2>3 DEF Grown, t
  <2>5. \A k, n \in DOMAIN m : KeyIn(t, m[k]) = KeyIn(t, m[n]) => k = n
    BY <2>2, <2>4 DEF RecordsIn
  <2>6. m \in Seq(SUBSET DOMAIN t)
    <3>1. \A n \in DOMAIN m : m[n] \in SUBSET DOMAIN t
      BY <2>4 DEF RecordIn
    <3> HIDE DEF t
    <3>2. m \in [1..Len(q) -> SUBSET DOMAIN t]
      <4>1. m = [n \in 1..Len(q) |-> m[n]]
        BY <1>4, <2>1
      <4> QED BY <1>4, <2>2, <3>1, <4>1
    <3> QED BY <1>4, <3>2
  <2>7. RecordsIn(t, m)
    BY <2>4, <2>5, <2>6 DEF RecordsIn
  <2>8. UNION Range(q) \subseteq UNION Range(m) /\ new \in UNION Range(m)
    <3>1. \A n \in DOMAIN q : q[n] \subseteq m[n]
      BY <2>3 DEF Grown
    <3>2. PICK n \in waiting : n \in DOMAIN q
      BY <1>6 DEF waiting
    <3>3. new \in m[n]
      BY <2>2, <3>2
    <3> QED BY <2>2, <3>1, <3>2, <3>3 DEF Range
  <2> QED BY <2>2, <2>3, <2>7, <2>8 DEF m, t, new
<1> QED BY <1>5, <1>6

\* A new sighting is newer than what is being sent.
LEMMA NewerMerged ==
    ASSUME NEW s \in Seq(Sightings), NEW e \in Sightings, NEW q, RecordsIn(s, q),
           NEW b, RecordsIn(s, b), Newer(s, b, q)
    PROVE  Newer(Append(s, e), b, MergedIn(s, q, e))
<1> DEFINE t == Append(s, e)
           m == MergedIn(s, q, e)
<1>1. \A n \in DOMAIN b : RecordIn(s, b[n]) /\ KeyIn(t, b[n]) = KeyIn(s, b[n])
  BY RecordKept DEF RecordsIn
<1>2. \A n \in DOMAIN m : Grown(s, q, e, m, n) \/ m[n] = {Len(s) + 1}
  BY RecordsMerged
<1> HIDE DEF m
<1> SUFFICES ASSUME NEW k \in DOMAIN b, NEW n \in DOMAIN m, KeyIn(t, b[k]) = KeyIn(t, m[n]),
                    NEW i \in b[k], NEW j \in m[n]
             PROVE  i < j
  BY DEF Newer, m
<1>3. i \in Nat /\ i <= Len(s)
  BY <1>1 DEF RecordIn
<1>4. CASE j = Len(s) + 1
  BY <1>3, <1>4
<1>5. CASE j # Len(s) + 1
  <2>1. Grown(s, q, e, m, n) /\ j \in q[n]
    BY <1>2, <1>5 DEF Grown
  <2>2. n \in DOMAIN q /\ KeyIn(s, b[k]) = KeyIn(s, q[n])
    BY <1>1, <2>1 DEF Grown
  <2> QED BY <2>1, <2>2 DEF Newer
<1> QED BY <1>4, <1>5

\* The records q with those of the batch b put back whose keys are not waiting again.
RequeuedIn(s, q, b) ==
    q \o Selected(b, {n \in DOMAIN b :
                        \A m \in DOMAIN q : KeyIn(s, q[m]) # KeyIn(s, b[n])})

LEMMA RecordsRequeued ==
    ASSUME NEW s, NEW q, RecordsIn(s, q), NEW b, RecordsIn(s, b)
    PROVE  LET r == RequeuedIn(s, q, b)
           IN /\ RecordsIn(s, r)
              /\ UNION Range(q) \subseteq UNION Range(r)
              /\ \A n \in DOMAIN b :
                    \/ b[n] \subseteq UNION Range(r)
                    \/ \E m \in DOMAIN q : KeyIn(s, q[m]) = KeyIn(s, b[n])
<1> DEFINE I == {n \in DOMAIN b : \A m \in DOMAIN q : KeyIn(s, q[m]) # KeyIn(s, b[n])}
           back == Selected(b, I)
           r == q \o back
           S == SUBSET DOMAIN s
<1> HIDE DEF S
<1>1. /\ q \in Seq(S) /\ b \in Seq(S) /\ Len(q) \in Nat /\ DOMAIN q = 1..Len(q)
      /\ I \in SUBSET DOMAIN b
  BY DEF RecordsIn, S
<1> HIDE DEF I
<1>2. PICK place \in [DOMAIN back -> I] :
         /\ \A k \in DOMAIN back : back[k] = b[place[k]]
         /\ \A k, l \in DOMAIN back : k < l => place[k] < place[l]
  BY <1>1, SelectedPlaces
<1>3. /\ back \in Seq({b[n] : n \in I}) /\ {b[n] : n \in I} \subseteq S
      /\ \A n \in I : \E k \in DOMAIN back : back[k] = b[n]
  <2>1. /\ back \in Seq({b[n] : n \in I})
        /\ \A n \in I : \E k \in DOMAIN back : back[k] = b[n]
    BY <1>1, SelectedElements
  <2>2. \A n \in I : b[n] \in S
    BY <1>1
  <2> QED BY <2>1, <2>2
<1> HIDE DEF back
<1>4. back \in Seq(S) /\ Len(back) \in Nat /\ DOMAIN back = 1..Len(back)
  <2> DEFINE some == {b[n] : n \in I}
  <2>1. back \in Seq(some) /\ some \subseteq S
    BY <1>3
  <2> HIDE DEF some
  <2>2. back \in Seq(S)
    BY <2>1
  <2> QED BY <2>2
<1>5. /\ r \in Seq(S) /\ DOMAIN r = 1..(Len(q) + Len(back))
      /\ \A k \in 1..Len(q) : r[k] = q[k]
      /\ \A k \in 1..Len(back) : r[Len(q) + k] = back[k]
  BY <1>1, <1>4
<1> HIDE DEF r
<1>6. \A k \in DOMAIN r : k \in DOMAIN q \/ k - Len(q) \in DOMAIN back
  BY <1>1, <1>4, <1>5
<1>7. \A k \in DOMAIN q : k \in DOMAIN r /\ r[k] = q[k]
  BY <1>1, <1>4, <1>5
<1>8. \A k \in DOMAIN back : Len(q) + k \in DOMAIN r /\ r[Len(q) + k] = back[k]
  BY <1>1, <1>4, <1>5
<1>9. \A k \in DOMAIN r : k - Len(q) \in DOMAIN back => r[k] = back[k - Len(q)]
  <2> SUFFICES ASSUME NEW k \in DOMAIN r, k - Len(q) \in DOMAIN back
               PROVE  r[k] = back[k - Len(q)]
    OBVIOUS
  <2>1. Len(q) + (k - Len(q)) = k
    BY <1>1, <1>5
  <2> QED BY <1>8, <2>1
<1>10. \A k \in DOMAIN back : place[k] \in I /\ place[k] \in DOMAIN b
  BY <1>1, <1>2
<1>11. \A k \in DOMAIN back : RecordIn(s, back[k])
  BY <1>2, <1>10 DEF RecordsIn
<1>12. \A k \in DOMAIN r : RecordIn(s, r[k])
  BY <1>6, <1>7, <1>9, <1>11 DEF RecordsIn
<1>13. ASSUME NEW k \in DOMAIN back, NEW l \in DOMAIN back, KeyIn(s, back[k]) = KeyIn(s, back[l])
       PROVE  k = l
  <2>1. place[k] = place[l]
    BY <1>2, <1>10, <1>13 DEF RecordsIn
  <2>2. k \in Nat /\ l \in Nat /\ place[k] \in Nat /\ place[l] \in Nat
    BY <1>1, <1>4, <1>10
  <2>3. ~(k < l) /\ ~(l < k)
    <3>1. k < l => place[k] < place[l]
      BY <1>2
    <3>2. l < k => place[l] < place[k]
      BY <1>2
    <3> QED BY <2>1, <2>2, <3>1, <3>2
  <2> QED BY <2>2, <2>3
<1>14. \A k \in DOMAIN q, l \in DOMAIN back : KeyIn(s, q[k]) # KeyIn(s, back[l])
  BY <1>2, <1>10 DEF I
<1>15. ASSUME NEW k \in DOMAIN r, NEW l \in DOMAIN r, KeyIn(s, r[k]) = KeyIn(s, r[l])
       PROVE  k = l
  <2>1. CASE k \in DOMAIN q /\ l \in DOMAIN q
    BY <1>7, <1>15, <2>1 DEF RecordsIn
  <2>2. CASE k - Len(q) \in DOMAIN back /\ l - Len(q) \in DOMAIN back
    <3>1. k - Len(q) = l - Len(q)
      BY <1>9, <1>13, <1>15, <2>2
    <3> QED BY <1>1, <1>4, <1>5, <3>1
  <2>3. CASE k \in DOMAIN q /\ l - Len(q) \in DOMAIN back
    BY <1>7, <1>9, <1>14, <1>15, <2>3
  <2>4. CASE l \in DOMAIN q /\ k - Len(q) \in DOMAIN back
    BY <1>7, <1>9, <1>14, <1>15, <2>4
  <2> QED BY <1>6, <2>1, <2>2, <2>3, <2>4
<1>16. RecordsIn(s, r)
  BY <1>5, <1>12, <1>15 DEF RecordsIn, S
<1>17. UNION Range(q) \subseteq UNION Range(r)
  BY <1>7 DEF Range
<1>18. ASSUME NEW n \in DOMAIN b
       PROVE  \/ b[n] \subseteq UNION Range(r)
              \/ \E m \in DOMAIN q : KeyIn(s, q[m]) = KeyIn(s, b[n])
  <2>1. CASE n \in I
    <3>1. PICK k \in DOMAIN back : back[k] = b[n]
      BY <1>3, <2>1
    <3>2. b[n] \in Range(r)
      BY <1>8, <3>1 DEF Range
    <3> QED BY <3>2
  <2>2. CASE n \notin I
    BY <2>2 DEF I
  <2> QED BY <2>1, <2>2
<1> QED BY <1>16, <1>17, <1>18 DEF RequeuedIn, r, back, I

-----------------------------------------------------------------------------
(* The steps *)

LEMMA NamesApart ==
    /\ None \notin Loops /\ \A c \in Callers : c \notin Loops
    /\ "control" \notin Callers /\ "control" \notin Loops
    /\ Threads = Callers \cup Loops \cup {"control"}
BY ReporterAssumption DEF ReporterAssumption, Threads

LEMMA HeldBy ==
    \A x : x \in Held <=> x \in UNION Range(pending) \/ \E t \in Threads : x \in Sent(t)
BY DEF Held

LEMMA InitReporterInv == Init => ReporterInv
<1> SUFFICES ASSUME Init PROVE ReporterInv
  OBVIOUS
<1> USE DEF Init
<1>1. LoopInv
  BY NamesApart DEF LoopInv, LoopPlaces, CallerPlaces, ControlPlaces, Alive
<1>2. \A s : RecordsIn(s, <<>>)
  BY DEF RecordsIn
<1>3. RecordsInv /\ SendingInv
  BY <1>2, NamesApart DEF RecordsInv, SendingInv, Newer
<1>4. KeptInv /\ SeenInv
  BY DEF KeptInv, SeenInv, Range
<1> QED BY <1>1, <1>3, <1>4 DEF ReporterInv

\* A thread that moves between the places of flush() stays what it was to start() and
\* stop().
LEMMA FlushingThread ==
    ASSUME LoopInv, NEW t \in Threads, NEW from \in {"flush", "posting"},
           NEW to, to \in {"posting", Home(t)}, Goes(t, from, to),
           UNCHANGED lifecycle, "late" \in past' => "late" \in past,
           "late" \in past => "late" \in past'
    PROVE  LoopInv'
<1>1. /\ thread[t] = from /\ thread' = [thread EXCEPT ![t] = to]
      /\ loopThread' = loopThread
  BY DEF Goes, lifecycle
<1>2. thread'[t] = to /\ \A u \in Threads \ {t} : thread'[u] = thread[u]
  BY <1>1 DEF LoopInv
<1>3. t \in Loops => to \in {"posting", "waiting"}
  BY DEF Home
<1>4. t \notin Loops => to \in {"posting", "idle"}
  BY DEF Home
<1>5. /\ thread' \in [Threads -> LoopPlaces \cup ControlPlaces]
      /\ \A l \in Loops : thread'[l] \in LoopPlaces
      /\ \A c \in Callers : thread'[c] \in CallerPlaces
      /\ thread'["control"] \in ControlPlaces
  BY <1>1, <1>2, <1>3, <1>4, NamesApart DEF LoopInv, LoopPlaces, CallerPlaces, ControlPlaces
<1>6. \A l \in Loops : Alive(l)' => Alive(l)
  BY <1>1, <1>2, NamesApart DEF Alive
<1>7. thread'["control"] \in {"flush", "posting"} => thread["control"] \in {"flush", "posting"}
  BY <1>1, <1>2, NamesApart
<1> QED BY <1>1, <1>5, <1>6, <1>7 DEF LoopInv

\* What is held or settled stays so.
LEMMA KeptOn ==
    ASSUME KeptInv, sightings' = sightings, past \subseteq past',
           Held \cup settled \subseteq (Held \cup settled)'
    PROVE  KeptInv'
<1>1. \A i : Since(i)' = Since(i)
  BY DEF Since
<1> QED BY <1>1 DEF KeptInv

LEMMA SeenOn ==
    ASSUME SeenInv, sightings' = sightings, seen' = seen
    PROVE  SeenInv'
<1>1. \A i : Since(i)' = Since(i)
  BY DEF Since
<1> QED BY <1>1 DEF SeenInv

LEMMA NothingPendingStep ==
    ASSUME ReporterInv, NEW t \in Threads, NothingPending(t)
    PROVE  ReporterInv'
<1>1. /\ UNCHANGED <<sightings, pending, seen, batch, settled, lifecycle, past>>
      /\ Goes(t, "flush", Home(t))
  BY DEF NothingPending
<1>2. LoopInv'
  BY <1>1, FlushingThread DEF ReporterInv
<1>3. \A u \in Threads : thread'[u] = "posting" => thread[u] = "posting"
  BY <1>1 DEF Goes, Home, ReporterInv, LoopInv
<1>4. \A u \in Threads : thread[u] = "posting" => thread'[u] = "posting"
  BY <1>1 DEF Goes, ReporterInv, LoopInv
<1>5. RecordsInv' /\ SendingInv'
  BY <1>1, <1>3, <1>4 DEF ReporterInv, RecordsInv, SendingInv
<1>6. Held' = Held
  BY <1>1 DEF Held, Sent
<1>7. KeptInv' /\ SeenInv'
  BY <1>1, <1>6, KeptOn, SeenOn DEF ReporterInv
<1> QED BY <1>2, <1>5, <1>7 DEF ReporterInv

\* Detaching moves records from what is pending to what is being sent.
LEMMA DetachStep ==
    ASSUME ReporterInv, NEW t \in Threads, Detach(t)
    PROVE  ReporterInv'
<1> DEFINE n == IF Len(pending) < MaxBatch THEN Len(pending) ELSE MaxBatch
           front == SubSeq(pending, 1, n)
           rest == SubSeq(pending, n + 1, Len(pending))
<1>1. /\ Goes(t, "flush", "posting") /\ batch' = [batch EXCEPT ![t] = front]
      /\ pending' = rest
      /\ UNCHANGED <<sightings, seen, settled, lifecycle>>
      /\ past' = IF \E u \in Threads \ {t} : thread[u] = "posting"
                 THEN past \cup {"overlap"} ELSE past
  BY DEF Detach, Remember
<1>2. pending \in Seq(SUBSET DOMAIN sightings) /\ n \in 0..Len(pending)
  BY ReporterAssumption DEF ReporterAssumption, ReporterInv, RecordsInv, RecordsIn
<1> HIDE DEF n
<1>3. /\ RecordsIn(sightings, front) /\ RecordsIn(sightings, rest)
      /\ UNION Range(pending) = (UNION Range(front)) \cup (UNION Range(rest))
      /\ Newer(sightings, front, rest)
  BY <1>2, RecordsSplit DEF ReporterInv, RecordsInv
<1> HIDE DEF front, rest
<1>4. /\ batch[t] = <<>> /\ batch'[t] = front /\ DOMAIN batch' = Threads
      /\ \A u \in Threads \ {t} : batch'[u] = batch[u]
  BY <1>1 DEF Goes, ReporterInv, RecordsInv
<1>5. /\ thread'[t] = "posting" /\ thread[t] = "flush"
      /\ \A u \in Threads \ {t} : thread'[u] = thread[u]
  BY <1>1 DEF Goes, ReporterInv, LoopInv
<1>6. LoopInv'
  BY <1>1, FlushingThread DEF ReporterInv
<1>7. RecordsInv'
  BY <1>1, <1>3, <1>4, <1>5 DEF ReporterInv, RecordsInv
<1>8. SendingInv'
  <2> SUFFICES ASSUME "overlap" \notin past'
               PROVE  /\ \A u, v \in Threads : thread'[u] = "posting" /\ thread'[v] = "posting" => u = v
                      /\ \A u \in Threads : Newer(sightings, batch'[u], pending')
    BY <1>1 DEF SendingInv
  <2>1. \A u \in Threads \ {t} : thread[u] # "posting" /\ batch[u] = <<>>
    BY <1>1 DEF ReporterInv, RecordsInv
  <2>2. \A u \in Threads \ {t} : Newer(sightings, batch'[u], pending')
    BY <1>4, <2>1 DEF Newer
  <2> QED BY <1>1, <1>3, <1>4, <1>5, <2>1, <2>2
<1>9. Held \subseteq Held'
  <2> SUFFICES ASSUME NEW x \in Held PROVE x \in Held'
    OBVIOUS
  <2>1. CASE x \in UNION Range(pending)
    <3>1. x \in UNION Range(front) \/ x \in UNION Range(rest)
      BY <1>3, <2>1
    <3> QED BY <1>1, <1>4, <3>1 DEF Held, Sent
  <2>2. CASE \E u \in Threads : x \in Sent(u)
    <3>1. PICK u \in Threads : x \in Sent(u)
      BY <2>2
    <3>2. Sent(t) = {}
      BY <1>4 DEF Sent, Range
    <3>3. u # t /\ Sent(u)' = Sent(u)
      BY <1>4, <3>1, <3>2 DEF Sent
    <3> QED BY <3>1, <3>3 DEF Held
  <2> QED BY <2>1, <2>2, HeldBy
<1>10. KeptInv' /\ SeenInv'
  BY <1>1, <1>9, KeptOn, SeenOn DEF ReporterInv
<1> QED BY <1>6, <1>7, <1>8, <1>10 DEF ReporterInv

\* A batch that the API has stored or refused for good is settled.
LEMMA SettledStep ==
    ASSUME ReporterInv, NEW t \in Threads, Stored(t) \/ Refused(t)
    PROVE  ReporterInv'
<1>1. /\ Goes(t, "posting", Home(t)) /\ batch' = [batch EXCEPT ![t] = <<>>]
      /\ settled' = settled \cup Sent(t)
      /\ UNCHANGED <<sightings, pending, seen, lifecycle, past>>
  BY DEF Stored, Refused
<1>2. /\ batch'[t] = <<>> /\ DOMAIN batch' = Threads
      /\ \A u \in Threads \ {t} : batch'[u] = batch[u]
  BY <1>1 DEF ReporterInv, RecordsInv
<1>3. /\ thread'[t] # "posting" /\ thread[t] = "posting"
      /\ \A u \in Threads \ {t} : thread'[u] = thread[u]
  BY <1>1 DEF Goes, Home, ReporterInv, LoopInv
<1>4. LoopInv'
  BY <1>1, FlushingThread DEF ReporterInv
<1>5. RecordsIn(sightings, <<>>) /\ Newer(sightings, <<>>, pending)
  BY DEF RecordsIn, Newer
<1>6. Sent(t) \subseteq DOMAIN sightings
  BY DEF Sent, Range, ReporterInv, RecordsInv, RecordsIn
<1>7. RecordsInv' /\ SendingInv'
  BY <1>1, <1>2, <1>3, <1>5, <1>6 DEF ReporterInv, RecordsInv, SendingInv
<1>8. Held \cup settled \subseteq (Held \cup settled)'
  <2> SUFFICES ASSUME NEW x \in Held PROVE x \in (Held \cup settled)'
    BY <1>1
  <2>1. CASE x \in UNION Range(pending)
    BY <1>1, <2>1 DEF Held
  <2>2. CASE \E u \in Threads : x \in Sent(u)
    <3>1. PICK u \in Threads : x \in Sent(u)
      BY <2>2
    <3>2. CASE u = t
      BY <1>1, <3>1, <3>2
    <3>3. CASE u # t
      <4>1. Sent(u)' = Sent(u)
        BY <1>2, <3>3 DEF Sent
      <4> QED BY <3>1, <4>1 DEF Held
    <3> QED BY <3>2, <3>3
  <2> QED BY <2>1, <2>2, HeldBy
<1>9. KeptInv' /\ SeenInv'
  BY <1>1, <1>8, KeptOn, SeenOn DEF ReporterInv
<1> QED BY <1>4, <1>7, <1>9 DEF ReporterInv

\* A batch that is put back: the record of a key that is pending again is dropped, and
\* what is pending of it is newer.
LEMMA FaultedStep ==
    ASSUME ReporterInv, NEW t \in Threads, Faulted(t)
    PROVE  ReporterInv'
<1> DEFINE b == batch[t]
           r == RequeuedIn(sightings, pending, b)
<1>1. /\ Goes(t, "posting", Home(t)) /\ batch' = [batch EXCEPT ![t] = <<>>]
      /\ settled \subseteq settled' /\ settled' \subseteq settled \cup Sent(t)
      /\ pending' = Requeued(t) /\ past' = past \cup {"retry"}
      /\ UNCHANGED <<sightings, seen, lifecycle>>
  BY DEF Faulted, Remember
<1>2. pending' = r
  <2>1. {n \in DOMAIN b : Waiting(KeyOf(b[n])) = {}}
            = {n \in DOMAIN b : \A m \in DOMAIN pending :
                                  KeyIn(sightings, pending[m]) # KeyIn(sightings, b[n])}
    BY DEF Waiting, KeyOf, KeyIn
  <2> QED BY <1>1, <2>1 DEF Requeued, Filtered, RequeuedIn
<1> HIDE DEF r
<1>3. RecordsIn(sightings, pending) /\ RecordsIn(sightings, b)
  BY DEF ReporterInv, RecordsInv
<1>4. /\ RecordsIn(sightings, r)
      /\ UNION Range(pending) \subseteq UNION Range(r)
      /\ \A n \in DOMAIN b :
            \/ b[n] \subseteq UNION Range(r)
            \/ \E m \in DOMAIN pending :
                  KeyIn(sightings, pending[m]) = KeyIn(sightings, b[n])
  BY <1>3, RecordsRequeued DEF r
<1>5. /\ batch'[t] = <<>> /\ DOMAIN batch' = Threads
      /\ \A u \in Threads \ {t} : batch'[u] = batch[u]
  BY <1>1 DEF ReporterInv, RecordsInv
<1>6. /\ thread'[t] # "posting" /\ thread[t] = "posting"
      /\ \A u \in Threads \ {t} : thread'[u] = thread[u]
  BY <1>1 DEF Goes, Home, ReporterInv, LoopInv
<1>7. LoopInv'
  BY <1>1, FlushingThread DEF ReporterInv
<1>8. RecordsIn(sightings, <<>>) /\ Newer(sightings, <<>>, r)
  BY DEF RecordsIn, Newer
<1>9. Sent(t) \subseteq DOMAIN sightings
  BY <1>3 DEF Sent, Range, RecordsIn
<1>10. RecordsInv'
  BY <1>1, <1>2, <1>4, <1>5, <1>6, <1>8, <1>9 DEF ReporterInv, RecordsInv
<1>11. SendingInv'
  <2> SUFFICES ASSUME "overlap" \notin past'
               PROVE  /\ \A u, v \in Threads : thread'[u] = "posting" /\ thread'[v] = "posting" => u = v
                      /\ \A u \in Threads : Newer(sightings, batch'[u], pending')
    BY <1>1 DEF SendingInv
  <2>1. \A u \in Threads \ {t} : thread[u] # "posting" /\ batch[u] = <<>>
    BY <1>1, <1>6 DEF ReporterInv, RecordsInv, SendingInv
  <2>2. \A u \in Threads \ {t} : Newer(sightings, batch'[u], pending')
    BY <1>5, <2>1 DEF Newer
  <2> QED BY <1>2, <1>5, <1>6, <1>8, <2>1, <2>2
<1>12. ASSUME NEW x \in Held \cup settled
       PROVE  \/ x \in (Held \cup settled)'
              \/ \E n \in DOMAIN b, m \in DOMAIN pending :
                    x \in b[n] /\ KeyIn(sightings, pending[m]) = KeyIn(sightings, b[n])
  <2>1. CASE x \in settled
    BY <1>1, <2>1
  <2>2. CASE x \in UNION Range(pending)
    BY <1>2, <1>4, <2>2 DEF Held
  <2>3. CASE \E u \in Threads \ {t} : x \in Sent(u)
    <3>1. PICK u \in Threads \ {t} : x \in Sent(u)
      BY <2>3
    <3>2. Sent(u)' = Sent(u)
      BY <1>5 DEF Sent
    <3> QED BY <3>1, <3>2 DEF Held
  <2>4. CASE x \in Sent(t)
    <3>1. PICK n \in DOMAIN b : x \in b[n]
      BY <2>4 DEF Sent, Range
    <3>2. CASE b[n] \subseteq UNION Range(r)
      BY <1>2, <3>1, <3>2 DEF Held
    <3> QED BY <1>4, <3>1, <3>2
  <2> QED BY <2>1, <2>2, <2>3, <2>4, HeldBy
<1>13. ASSUME "overlap" \notin past, NEW i \in DOMAIN sightings
       PROVE  Since(i) \cap (Held \cup settled)' # {}
  <2>1. PICK j \in Since(i) : j \in Held \cup settled
    BY <1>13 DEF ReporterInv, KeptInv
  <2>2. CASE j \in (Held \cup settled)'
    BY <2>1, <2>2
  <2>3. CASE \E n \in DOMAIN b, m \in DOMAIN pending :
                j \in b[n] /\ KeyIn(sightings, pending[m]) = KeyIn(sightings, b[n])
    <3>1. PICK n \in DOMAIN b, m \in DOMAIN pending :
             j \in b[n] /\ KeyIn(sightings, pending[m]) = KeyIn(sightings, b[n])
      BY <2>3
    <3>2. RecordIn(sightings, b[n]) /\ RecordIn(sightings, pending[m])
      BY <1>3 DEF RecordsIn
    <3>3. PICK k : k \in pending[m] /\ k \in DOMAIN sightings
      BY <3>2 DEF RecordIn
    <3>4. sightings[k].key = sightings[j].key
      BY <3>1, <3>2, <3>3, KeyOfRecord
    <3>5. j < k
      BY <1>13, <3>1, <3>3 DEF ReporterInv, SendingInv, Newer
    <3>6. k \in Since(i)
      BY <2>1, <3>3, <3>4, <3>5 DEF Since, ReporterInv, RecordsInv
    <3>7. k \in UNION Range(pending)
      BY <3>3 DEF Range
    <3>8. k \in Held'
      BY <1>2, <1>4, <3>7 DEF Held
    <3> QED BY <3>6, <3>8
  <2> QED BY <1>12, <2>1, <2>2, <2>3
<1>14. KeptInv'
  <2>1. \A i : Since(i)' = Since(i)
    BY <1>1 DEF Since
  <2>2. "overlap" \in past' <=> "overlap" \in past
    BY <1>1
  <2> QED BY <1>1, <1>13, <2>1, <2>2 DEF KeptInv
<1>15. SeenInv'
  BY <1>1, SeenOn DEF ReporterInv
<1> QED BY <1>7, <1>10, <1>11, <1>14, <1>15 DEF ReporterInv

LEMMA FlushStep ==
    ASSUME ReporterInv, NEW t \in Threads, Flush(t)
    PROVE  ReporterInv'
BY NothingPendingStep, DetachStep, SettledStep, FaultedStep DEF Flush

LEMMA TrimmedEntries ==
    ASSUME NEW S, NEW q \in Seq(S)
    PROVE  Trimmed(q) \in Seq(S) /\ Range(Trimmed(q)) \subseteq Range(q)
<1> DEFINE l == Len(q)
           m == l - MaxTracked + 1
           rest == SubSeq(q, m, l)
<1>1. l \in Nat /\ MaxTracked \in Nat \ {0} /\ DOMAIN q = 1..l
  BY ReporterAssumption DEF ReporterAssumption
<1> HIDE DEF l
<1>2. CASE l > MaxTracked
  <2>1. m \in Int /\ l \in Int /\ m \in 1..l /\ \A i \in m..l : i \in 1..l
    BY <1>1, <1>2
  <2> HIDE DEF m
  <2>2. \A i \in m..l : q[i] \in Range(q)
    BY <1>1, <2>1 DEF Range
  <2>3. rest \in Seq(Range(q))
    BY <2>1, <2>2, SubSeqProperties
  <2>4. Trimmed(q) = rest
    BY <1>2 DEF Trimmed, l, m
  <2>5. Range(q) \subseteq S
    BY DEF Range
  <2> HIDE DEF rest
  <2> QED BY <2>3, <2>4, <2>5 DEF Range
<1>3. CASE ~(l > MaxTracked)
  BY <1>3 DEF Trimmed, l
<1> QED BY <1>2, <1>3

LEMMA NotedEntries ==
    ASSUME seen \in Seq(Entries), NEW key \in Keys, NEW fields \in Said
    PROVE  /\ Noted(key, fields) \in Seq(Entries)
           /\ \A e \in Range(Noted(key, fields)) :
                 \/ e \in Range(seen) /\ e.key # key
                 \/ e.key = key /\ e.print = Fingerprint(fields)
<1> DEFINE I == {n \in DOMAIN seen : seen[n].key # key}
           others == Selected(seen, I)
           entry == Entry(key, fields)
           q == Append(others, entry)
           some == {seen[n] : n \in I}
<1>1. others \in Seq(some)
  BY SelectedElements
<1>2. /\ \A e \in some : e \in Entries /\ e \in Range(seen) /\ e.key # key
      /\ entry \in Entries /\ entry.key = key /\ entry.print = Fingerprint(fields)
  <2>1. \A n \in I : seen[n] \in Entries /\ seen[n] \in Range(seen) /\ seen[n].key # key
    BY DEF Range
  <2>2. Fingerprint(fields) \in Said
    BY DEF Fingerprint, Said
  <2>3. entry \in Entries /\ entry.key = key /\ entry.print = Fingerprint(fields)
    <3> DEFINE print == Fingerprint(fields)
    <3> HIDE DEF print
    <3>1. [key |-> key, print |-> print, aged |-> FALSE] \in Entries
      BY <2>2 DEF Entries, print
    <3> QED BY <3>1 DEF Entry, print
  <2> QED BY <2>1, <2>3
<1>3. Noted(key, fields) = Trimmed(q)
  BY DEF Noted, Filtered
<1> HIDE DEF I, others, some, entry
<1>4. q \in Seq(some \cup {entry})
  BY <1>1
<1> HIDE DEF q
<1>5. Range(q) \subseteq some \cup {entry}
  BY <1>4 DEF Range
<1>6. Trimmed(q) \in Seq(some \cup {entry}) /\ Range(Trimmed(q)) \subseteq some \cup {entry}
  BY <1>4, <1>5, TrimmedEntries
<1>7. some \cup {entry} \subseteq Entries
  BY <1>2
<1>8. Trimmed(q) \in Seq(Entries)
  BY <1>6, <1>7
<1> QED BY <1>2, <1>3, <1>6, <1>8

\* A sighting that record() takes: nothing of what is held is lost, and it is the latest
\* of its identity.
LEMMA RecordStep ==
    ASSUME ReporterInv, NEW c \in Callers, Record(c)
    PROVE  ReporterInv'
<1>1. PICK key \in Keys, fields \in Said :
        /\ sightings' = Append(sightings, [key |-> key, fields |-> fields])
        /\ seen' = Noted(key, fields)
        /\ pending' = Merged(key, Len(sightings) + 1)
        /\ \E to \in {"flush", "idle"} : Goes(c, "idle", to)
        /\ UNCHANGED <<batch, settled, loopThread, stop, past>>
  BY DEF Record, lifecycle
<1> DEFINE e == [key |-> key, fields |-> fields]
           new == Len(sightings) + 1
           m == MergedIn(sightings, pending, e)
<1>2. e \in Sightings /\ e.key = key /\ e.fields = fields
  BY DEF Sightings
<1>3. pending' = m
  BY <1>1 DEF Merged, MergedIn, Waiting, KeyOf, KeyIn
<1>4. sightings' = Append(sightings, e)
  BY <1>1
<1> HIDE DEF e, m
<1>5. sightings \in Seq(Sightings) /\ RecordsIn(sightings, pending)
  BY DEF ReporterInv, RecordsInv
<1>6. /\ sightings' \in Seq(Sightings) /\ DOMAIN sightings' = 1..new
      /\ DOMAIN sightings = 1..Len(sightings) /\ Len(sightings) \in Nat
      /\ Len(sightings') = new /\ sightings'[new] = e
      /\ \A i \in DOMAIN sightings : sightings'[i] = sightings[i]
  BY <1>2, <1>4, <1>5
<1>7. /\ RecordsIn(sightings', m)
      /\ UNION Range(pending) \subseteq UNION Range(m) /\ new \in UNION Range(m)
  BY <1>2, <1>4, <1>5, RecordsMerged DEF m
<1> HIDE DEF new
<1>8. \A t \in Threads : RecordsIn(sightings', batch[t])
  BY <1>2, <1>4, <1>5, RecordsKept DEF ReporterInv, RecordsInv
<1>9. /\ thread[c] = "idle" /\ thread'[c] \in {"flush", "idle"} /\ c \in Threads
      /\ thread' = [thread EXCEPT ![c] = thread'[c]]
      /\ \A u \in Threads \ {c} : thread'[u] = thread[u]
  BY <1>1, NamesApart DEF Goes, ReporterInv, LoopInv
<1>10. LoopInv'
  <2>1. /\ thread' \in [Threads -> LoopPlaces \cup ControlPlaces]
        /\ \A l \in Loops : thread'[l] = thread[l] /\ Alive(l)' = Alive(l)
        /\ thread'["control"] = thread["control"]
    BY <1>9, NamesApart DEF ReporterInv, LoopInv, Alive, LoopPlaces, ControlPlaces
  <2>2. \A d \in Callers : thread'[d] \in CallerPlaces
    BY <1>9, NamesApart DEF ReporterInv, LoopInv, CallerPlaces
  <2> QED BY <1>1, <2>1, <2>2 DEF ReporterInv, LoopInv
<1>11. RecordsInv'
  BY <1>1, <1>3, <1>6, <1>7, <1>8, <1>9 DEF ReporterInv, RecordsInv, new
<1>12. SendingInv'
  <2> SUFFICES ASSUME "overlap" \notin past
               PROVE  /\ \A t, u \in Threads : thread'[t] = "posting" /\ thread'[u] = "posting" => t = u
                      /\ \A t \in Threads : Newer(sightings', batch[t], m)
    BY <1>1, <1>3 DEF SendingInv
  <2>1. \A t \in Threads : Newer(sightings', batch[t], m)
    BY <1>2, <1>4, <1>5, NewerMerged DEF m, ReporterInv, RecordsInv, SendingInv
  <2> QED BY <1>9, <2>1 DEF ReporterInv, SendingInv
<1>13. /\ \A i \in DOMAIN sightings : Since(i)' = Since(i) \cup (IF sightings[i].key = key THEN {new} ELSE {})
       /\ \A i : i = new => Since(i)' = {i}
  <2>1. ASSUME NEW i \in DOMAIN sightings
        PROVE  Since(i)' = Since(i) \cup (IF sightings[i].key = key THEN {new} ELSE {})
    <3>1. i..Len(sightings') = (i..Len(sightings)) \cup {new}
      BY <1>6 DEF new
    <3>2. \A j \in i..Len(sightings) : sightings'[j] = sightings[j]
      BY <1>6
    <3>3. new \notin i..Len(sightings)
      BY <1>6 DEF new
    <3> QED BY <1>2, <1>6, <3>1, <3>2, <3>3 DEF Since
  <2>2. ASSUME NEW i, i = new PROVE Since(i)' = {i}
    <3>1. i..Len(sightings') = {i} /\ i \in DOMAIN sightings'
      BY <1>6, <2>2 DEF new
    <3> QED BY <3>1 DEF Since
  <2> QED BY <2>1, <2>2
<1>14. Held \subseteq Held' /\ new \in Held'
  <2>1. \A t \in Threads : Sent(t)' = Sent(t)
    BY <1>1 DEF Sent
  <2> QED BY <1>3, <1>7, <2>1 DEF Held
<1>15. \A i \in DOMAIN sightings' : i \in DOMAIN sightings \/ i = new
  BY <1>6 DEF new
<1>16. KeptInv'
  <2>1. ASSUME "overlap" \notin past, NEW i \in DOMAIN sightings'
        PROVE  Since(i)' \cap (Held \cup settled)' # {}
    <3>1. CASE i = new
      BY <1>13, <1>14, <3>1
    <3>2. CASE i \in DOMAIN sightings
      <4>1. Since(i) \cap (Held \cup settled) # {}
        BY <2>1, <3>2 DEF ReporterInv, KeptInv
      <4>2. Since(i) \subseteq Since(i)'
        BY <1>13, <3>2
      <4> QED BY <1>1, <1>14, <4>1, <4>2
    <3> QED BY <1>15, <3>1, <3>2
  <2>2. ASSUME "retry" \notin past PROVE (DOMAIN sightings \subseteq Held \cup settled)'
    BY <1>1, <1>14, <1>15, <2>2 DEF ReporterInv, KeptInv
  <2> QED BY <1>1, <2>1, <2>2 DEF KeptInv
<1>17. SeenInv'
  <2>1. /\ seen' \in Seq(Entries)
        /\ \A x \in Range(seen') :
              \/ x \in Range(seen) /\ x.key # key
              \/ x.key = key /\ x.print = Fingerprint(fields)
    BY <1>1, NotedEntries DEF ReporterInv, SeenInv
  <2>2. ASSUME NEW x \in Range(seen')
        PROVE  \E i \in DOMAIN sightings' :
                  Prints(sightings'[i], x) /\ Since(i)' = {i}
    <3>1. CASE x \in Range(seen) /\ x.key # key
      <4>1. PICK i \in DOMAIN sightings :
               Prints(sightings[i], x) /\ Since(i) = {i}
        BY <3>1 DEF ReporterInv, SeenInv
      <4>2. sightings[i].key # key
        BY <3>1, <4>1 DEF Prints
      <4>3. i \in DOMAIN sightings' /\ sightings'[i] = sightings[i]
        BY <1>6 DEF new
      <4> QED BY <1>13, <4>1, <4>2, <4>3
    <3>2. CASE x.key = key /\ x.print = Fingerprint(fields)
      <4>1. PICK i \in DOMAIN sightings' : i = new
        BY <1>6 DEF new
      <4>2. Prints(sightings'[i], x)
        BY <1>2, <1>6, <3>2, <4>1 DEF Prints
      <4>3. Since(i)' = {i}
        BY <1>13, <4>1
      <4> QED BY <4>2, <4>3
    <3> QED BY <2>1, <3>1, <3>2
  <2> QED BY <2>1, <2>2 DEF SeenInv
<1> QED BY <1>10, <1>11, <1>12, <1>16, <1>17 DEF ReporterInv

\* What start(), stop() and the loop do leaves the sightings alone.
LEMMA LifecycleOnly ==
    ASSUME ReporterInv, LoopInv',
           UNCHANGED <<sightings, pending, seen, batch, settled>>,
           past \subseteq past', past' \subseteq past \cup {"late"},
           \A t \in Threads : thread'[t] = "posting" <=> thread[t] = "posting"
    PROVE  ReporterInv'
<1>1. RecordsInv' /\ SendingInv'
  BY DEF ReporterInv, RecordsInv, SendingInv
<1>2. Held' = Held
  BY DEF Held, Sent
<1>3. KeptInv' /\ SeenInv'
  BY <1>2, KeptOn, SeenOn DEF ReporterInv
<1> QED BY <1>1, <1>3 DEF ReporterInv

LEMMA StartStep ==
    ASSUME ReporterInv, Start
    PROVE  ReporterInv'
<1>1. PICK l \in Loops :
        /\ ~Alive(l) /\ loopThread' = l /\ thread' = [thread EXCEPT ![l] = "waiting"]
        /\ thread["control"] = "idle" /\ \A k \in Loops : loopThread = k => ~Alive(k)
        /\ UNCHANGED <<sightings, pending, seen, batch, settled, past>>
  BY DEF Start
<1>2. /\ thread'[l] = "waiting" /\ thread[l] # "posting" /\ l \in Threads
      /\ \A u \in Threads \ {l} : thread'[u] = thread[u]
  BY <1>1, NamesApart DEF Alive, ReporterInv, LoopInv, LoopPlaces
<1>3. thread' \in [Threads -> LoopPlaces \cup ControlPlaces]
  BY <1>1, <1>2 DEF ReporterInv, LoopInv, LoopPlaces
<1>4. \A k \in Loops \ {l} : Alive(k)' = Alive(k)
  BY <1>2, NamesApart DEF Alive
<1>5. LoopInv'
  BY <1>1, <1>2, <1>3, <1>4, NamesApart DEF ReporterInv, LoopInv, LoopPlaces
<1> QED BY <1>1, <1>2, <1>5, LifecycleOnly

\* The join of stop() comes to an end without the loop being over only while its POST
\* lasts, and then it is late.
LEMMA StopStep ==
    ASSUME ReporterInv, Stop \/ Join
    PROVE  ReporterInv'
<1>1. /\ thread["control"] \in {"idle", "joining"} /\ "control" \in Threads
      /\ thread' = [thread EXCEPT !["control"] = thread'["control"]]
      /\ thread'["control"] \in {"joining", "flush"}
      /\ UNCHANGED <<sightings, pending, seen, batch, settled>>
  BY NamesApart DEF Stop, Join, Goes, ReporterInv, LoopInv
<1>2. \A u \in Threads \ {"control"} : thread'[u] = thread[u]
  BY <1>1 DEF ReporterInv, LoopInv
<1>3. /\ \A l \in Loops : thread'[l] = thread[l] /\ Alive(l)' = Alive(l)
      /\ \A c \in Callers : thread'[c] = thread[c]
      /\ thread' \in [Threads -> LoopPlaces \cup ControlPlaces]
  BY <1>1, <1>2, NamesApart DEF Alive, ReporterInv, LoopInv, ControlPlaces
<1>4. /\ past \subseteq past' /\ past' \subseteq past \cup {"late"}
      /\ loopThread' \in Loops \cup {None}
      /\ thread'["control"] = "flush" => loopThread' = None
      /\ "late" \notin past' =>
            /\ "late" \notin past
            /\ loopThread' # loopThread => \A l \in Loops : loopThread = l => ~Alive(l)
  BY <1>1 DEF Stop, Join, Goes, Remember, ReporterInv, LoopInv
<1>5. LoopInv'
  BY <1>1, <1>3, <1>4 DEF ReporterInv, LoopInv, ControlPlaces
<1> QED BY <1>1, <1>2, <1>4, <1>5, LifecycleOnly

LEMMA LoopStep ==
    ASSUME ReporterInv, NEW l \in Loops, LoopStops(l) \/ LoopFlushes(l)
    PROVE  ReporterInv'
<1>1. /\ thread[l] = "waiting" /\ l \in Threads
      /\ thread' = [thread EXCEPT ![l] = thread'[l]] /\ thread'[l] \in {"flush", "exited"}
      /\ UNCHANGED <<sightings, pending, seen, batch, settled, loopThread, past>>
  BY NamesApart DEF LoopStops, LoopFlushes, Goes, lifecycle, ReporterInv, LoopInv
<1>2. \A u \in Threads \ {l} : thread'[u] = thread[u]
  BY <1>1 DEF ReporterInv, LoopInv
<1>3. thread' \in [Threads -> LoopPlaces \cup ControlPlaces]
  BY <1>1 DEF ReporterInv, LoopInv, LoopPlaces
<1>4. \A k \in Loops : Alive(k)' => Alive(k)
  BY <1>1, <1>2, NamesApart DEF Alive
<1>5. LoopInv'
  BY <1>1, <1>2, <1>3, <1>4, NamesApart DEF ReporterInv, LoopInv, LoopPlaces
<1> QED BY <1>1, <1>2, <1>5, LifecycleOnly

\* A report that ages keeps its fingerprint.
LEMMA AgeStep ==
    ASSUME ReporterInv, Age
    PROVE  ReporterInv'
<1>1. PICK n \in DOMAIN seen :
        seen' = [m \in DOMAIN seen |->
                   IF m <= n THEN [seen[m] EXCEPT !.aged = TRUE] ELSE seen[m]]
  BY DEF Age
<1>2. UNCHANGED <<sightings, pending, batch, settled, thread, loopThread, stop, past>>
  BY DEF Age, lifecycle
<1>3. seen \in Seq(Entries) /\ DOMAIN seen = 1..Len(seen) /\ Len(seen) \in Nat
  BY DEF ReporterInv, SeenInv
<1>4. DOMAIN seen' = DOMAIN seen
  BY <1>1
<1>5. ASSUME NEW m \in DOMAIN seen
      PROVE  /\ seen'[m] \in Entries
             /\ seen'[m].key = seen[m].key /\ seen'[m].print = seen[m].print
  <2>1. seen[m] \in Entries
    BY <1>3
  <2>2. seen'[m] = [seen[m] EXCEPT !.aged = TRUE] \/ seen'[m] = seen[m]
    BY <1>1
  <2> QED BY <2>1, <2>2 DEF Entries
<1>6. seen' \in Seq(Entries)
  <2>1. seen' = [m \in 1..Len(seen) |-> seen'[m]]
    BY <1>1, <1>3
  <2>2. seen' \in [1..Len(seen) -> Entries]
    BY <1>3, <1>5, <2>1
  <2> QED BY <1>3, <2>2
<1>7. \A i : Since(i)' = Since(i)
  BY <1>2 DEF Since
<1>8. SeenInv'
  <2>1. ASSUME NEW e \in Range(seen')
        PROVE  \E i \in DOMAIN sightings' :
                  Prints(sightings'[i], e) /\ Since(i)' = {i}
    <3>1. PICK m \in DOMAIN seen : e = seen'[m]
      BY <1>4 DEF Range
    <3>2. seen[m] \in Range(seen)
      BY DEF Range
    <3>3. PICK i \in DOMAIN sightings :
             Prints(sightings[i], seen[m]) /\ Since(i) = {i}
      BY <3>2 DEF ReporterInv, SeenInv
    <3>4. e.key = seen[m].key /\ e.print = seen[m].print
      BY <1>5, <3>1
    <3> QED BY <1>2, <1>7, <3>3, <3>4 DEF Prints
  <2> QED BY <1>6, <2>1 DEF SeenInv
<1>9. LoopInv' /\ RecordsInv' /\ SendingInv'
  BY <1>2 DEF ReporterInv, LoopInv, Alive, RecordsInv, SendingInv
<1>10. Held' = Held
  BY <1>2 DEF Held, Sent
<1>11. KeptInv'
  BY <1>2, <1>10, KeptOn DEF ReporterInv
<1> QED BY <1>8, <1>9, <1>11 DEF ReporterInv

LEMMA NextReporterInv == ReporterInv /\ [Next]_vars => ReporterInv'
<1> SUFFICES ASSUME ReporterInv, [Next]_vars PROVE ReporterInv'
  OBVIOUS
<1>1. CASE \E c \in Callers : Record(c) \/ Flush(c)
  BY <1>1, RecordStep, FlushStep, NamesApart
<1>2. CASE Age
  BY <1>2, AgeStep
<1>3. CASE \E l \in Loops : LoopRuns(l)
  BY <1>3, LoopStep, FlushStep, NamesApart DEF LoopRuns
<1>4. CASE Start
  BY <1>4, StartStep
<1>5. CASE Stop \/ Join
  BY <1>5, StopStep
<1>6. CASE Flush("control")
  BY <1>6, FlushStep, NamesApart
<1>7. CASE UNCHANGED vars
  <2>1. LoopInv'
    BY <1>7 DEF vars, ReporterInv, LoopInv, Alive
  <2> QED BY <1>7, <2>1, LifecycleOnly DEF vars
<1> QED BY <1>1, <1>2, <1>3, <1>4, <1>5, <1>6, <1>7 DEF Next

LEMMA ReporterInvariant == Spec => []ReporterInv
BY InitReporterInv, NextReporterInv, PTL DEF Spec

-----------------------------------------------------------------------------
(* The theorems *)

\* Of every sighting that record() takes, it or a newer one of the identity is pending,
\* being sent or settled, as long as one thread sends at a time; and without a retry no
\* field of it is lost (identity_reporter.py:129-132, 209).
THEOREM SightingsKept == Spec => []NothingForgotten
<1>1. ReporterInv => NothingForgotten
  <2> SUFFICES ASSUME ReporterInv PROVE NothingForgotten
    OBVIOUS
  <2>1. \A i \in DOMAIN sightings : i \in Since(i)
    BY DEF Since, ReporterInv, RecordsInv
  <2> QED BY <2>1 DEF ReporterInv, KeptInv, NothingForgotten
<1> QED BY <1>1, ReporterInvariant, PTL

\* Fields with one fingerprint differ only in what is falsy or absent of both.
LEMMA PrintedAlike ==
    ASSUME NEW fields \in Said, NEW others \in Said,
           Fingerprint(fields) = Fingerprint(others), NEW f \in Fields
    PROVE  fields[f] = others[f] \/ {fields[f], others[f]} \subseteq Falsy \cup {Absent}
<1> DEFINE Looks(v) == IF v \in Falsy THEN Absent ELSE v
<1>1. Fingerprint(fields)[f] = Looks(fields[f]) /\ Fingerprint(others)[f] = Looks(others[f])
  BY DEF Fingerprint
<1>2. Looks(fields[f]) = Looks(others[f])
  BY <1>1
<1> QED BY <1>2

\* What record() would suppress says nothing true that the identity's latest sighting does
\* not say, and this one is on its way or settled, unless threads sent at a time and a
\* batch was put back (identity_reporter.py:95-97, 117-126).
THEOREM SuppressionHides == Spec => []SuppressionHonest
<1>1. ReporterInv => SuppressionHonest
  <2> SUFFICES ASSUME ReporterInv, "overlap" \notin past \/ "retry" \notin past,
                      NEW key \in Keys, NEW fields \in Said, Suppressed(key, fields)
               PROVE  \E i \in Held \cup settled :
                         /\ sightings[i].key = key /\ Since(i) = {i}
                         /\ \A f \in Fields :
                               \/ fields[f] = sightings[i].fields[f]
                               \/ {fields[f], sightings[i].fields[f]} \subseteq Falsy \cup {Absent}
    BY DEF SuppressionHonest
  <2>1. PICK e \in Range(seen) : e.key = key /\ e.print = Fingerprint(fields)
    BY DEF Suppressed, Entry
  <2>2. PICK i \in DOMAIN sightings : Prints(sightings[i], e) /\ Since(i) = {i}
    BY DEF ReporterInv, SeenInv
  <2>3. i \in Held \cup settled
    BY <2>2 DEF ReporterInv, KeptInv
  <2>4. sightings[i].key = key /\ Fingerprint(fields) = Fingerprint(sightings[i].fields)
    BY <2>1, <2>2 DEF Prints
  <2>5. sightings[i].fields \in Said
    <3>1. sightings[i] \in Sightings
      BY <2>2 DEF ReporterInv, RecordsInv
    <3> QED BY <3>1 DEF Sightings
  <2> QED BY <2>2, <2>3, <2>4, <2>5, PrintedAlike
<1> QED BY <1>1, ReporterInvariant, PTL

\* start() never makes a second flush loop, and stop() leaves none behind, unless a POST
\* outlasts the join.
THEOREM LoopIsAlone == Spec => []OneLoop
<1>1. ReporterInv => OneLoop
  <2> SUFFICES ASSUME ReporterInv, "late" \notin past
               PROVE  /\ Cardinality({l \in Loops : Alive(l)}) <= 1
                      /\ thread["control"] = "flush" => \A l \in Loops : ~Alive(l)
    BY DEF OneLoop
  <2>1. \A l \in Loops : Alive(l) => loopThread = l
    BY DEF ReporterInv, LoopInv
  <2>2. {l \in Loops : Alive(l)} = {} \/ {l \in Loops : Alive(l)} = {loopThread}
    BY <2>1
  <2>3. Cardinality({l \in Loops : Alive(l)}) <= 1
    <3>1. Cardinality({}) = 0 /\ Cardinality({loopThread}) = 1
      BY FS_EmptySet, FS_Singleton
    <3> QED BY <2>2, <3>1
  <2>4. thread["control"] = "flush" => \A l \in Loops : ~Alive(l)
    BY <2>1, NamesApart DEF ReporterInv, LoopInv
  <2> QED BY <2>3, <2>4
<1> QED BY <1>1, ReporterInvariant, PTL
=============================================================================
