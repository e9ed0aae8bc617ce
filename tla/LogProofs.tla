------------------------------- MODULE LogProofs -------------------------------
(***************************************************************************)
(* Theorems about logging: with any number of goroutines no record is lost *)
(* or written twice, and with any attributes and groups collected a record *)
(* shows each where it belongs.                                            *)
(***************************************************************************)
EXTENDS LogBatch, LogRecord, WellFoundedInduction, TLAPS

-------------------------------------------------------------------------------
(* Batches.                                                                   *)

\* Record r waits to be appended by g, is in handler h's slice, was written with b.
Pending(g, r) == at[g] = "append" /\ job[g][2] = r
Held(h, r) == \E i \in 1 .. logs[h].len : heap[logs[h].array][i] = r
Written(b, r) == \E i \in DOMAIN batches[b] : batches[b][i] = r

Accepted == (1 .. issued) \ dropped

\* Every slice lies within its array.
SlicesSound ==
  /\ heap \in Seq(Seq(Nat)) /\ logs \in [Handlers -> [array : Nat, len : Nat]]
  /\ \A h \in Handlers :
       IF logs[h].array = NoArray THEN logs[h].len = 0
       ELSE logs[h].array \in 1 .. Len(heap) /\ logs[h].len <= Len(heap[logs[h].array])

\* No two handlers write to one array.
ArraysApart ==
  \A h, k \in Handlers : h # k => logs[h].array = NoArray \/ logs[h].array # logs[k].array

BatchTypes ==
  /\ sharing \in {"none", "fresh", "shared"}
  /\ at \in [Loggers -> {"idle", "append", "compare", "write"}]
  /\ job \in [Loggers -> Handlers \X Nat]
  /\ issued \in Nat /\ dropped \subseteq 1 .. issued /\ batches \in Seq(Seq(Nat))

\* What is in a slice or was written was accepted; a record that is still to be
\* appended is in no slice and no batch, and no other goroutine has it.
RecordsKnown ==
  /\ \A h \in Handlers, r \in Nat : Held(h, r) => r \in Accepted
  /\ \A b \in DOMAIN batches, r \in Nat : Written(b, r) => r \in Accepted
  /\ \A g \in Loggers, r \in Nat : Pending(g, r) =>
       /\ r \in Accepted
       /\ \A k \in Loggers : Pending(k, r) => k = g
       /\ \A h \in Handlers : ~Held(h, r)
       /\ \A b \in DOMAIN batches : ~Written(b, r)

\* Record r is in one place.
Once(r) == \E p \in Places(r) : Places(r) = {p}

\* Before a handler is copied, nobody logs through the copy.
NotCopied ==
  sharing = "none" =>
    logs["derived"].array = NoArray /\ \A g \in Loggers : job[g][1] = "base"

LogInv ==
  /\ BatchTypes /\ SlicesSound /\ RecordsKnown /\ NotCopied
  /\ sharing # "shared" => ArraysApart /\ \A r \in Accepted : Once(r)
-------------------------------------------------------------------------------
\* t is s, over S, with element j replaced.
IsUpdate(t, S, s, j, x) ==
  /\ t \in Seq(S) /\ Len(t) = Len(s) /\ t[j] = x
  /\ \A i \in 1 .. Len(s) : i # j => t[i] = s[i]

LEMMA ElementSet ==
  ASSUME NEW S, NEW s \in Seq(S), NEW j \in 1 .. Len(s), NEW x \in S
  PROVE  IsUpdate([s EXCEPT ![j] = x], S, s, j, x)
  BY DEF IsUpdate

LEMMA OneMore ==
  ASSUME NEW n \in Nat, NEW m \in Nat, n + 1 \in 1 .. m
  PROVE  /\ \A i \in 1 .. n + 1 : i = n + 1 \/ i \in 1 .. n
         /\ \A i \in 1 .. n : i \in 1 .. n + 1 /\ i \in 1 .. m /\ i # n + 1
         /\ n + 1 \in 1 .. n + 1
  OBVIOUS

\* A prefix of a sequence.
LEMMA Prefix ==
  ASSUME NEW S, NEW s \in Seq(S), NEW n \in Nat, n <= Len(s)
  PROVE  \A i \in 1 .. n : i \in 1 .. Len(s) /\ s[i] \in S
  OBVIOUS

\* t, of length m, starts with the first n elements of c and x.
IsGrown(t, c, n, m, x) ==
  /\ t \in Seq(Nat) /\ Len(t) = m /\ t[n + 1] = x
  /\ \A i \in 1 .. n : t[i] = c[i]

LEMMA Larger ==
  ASSUME NEW m \in Nat, NEW n \in Nat, n + 1 \in 1 .. m, NEW c, NEW x \in Nat,
         \A i \in 1 .. n : c[i] \in Nat
  PROVE  IsGrown([i \in 1 .. m |-> IF i <= n THEN c[i] ELSE IF i = n + 1 THEN x ELSE 0], c, n, m, x)
<1> DEFINE t == [i \in 1 .. m |-> IF i <= n THEN c[i] ELSE IF i = n + 1 THEN x ELSE 0]
<1>1. t \in [1 .. m -> Nat]
  OBVIOUS
<1>2. t[n + 1] = x /\ \A i \in 1 .. n : t[i] = c[i]
  OBVIOUS
<1> HIDE DEF t
<1>3. t \in Seq(Nat) /\ Len(t) = m
  BY <1>1
<1>4. IsGrown(t, c, n, m, x)
  BY Zenon, <1>2, <1>3 DEF IsGrown
<1> QED
  BY Zenon, <1>4 DEF t

\* The elements of a handler's slice.
LEMMA ContentsAre ==
  ASSUME SlicesSound, NEW h \in Handlers
  PROVE  /\ Contents(logs[h]) \in Seq(Nat) /\ DOMAIN Contents(logs[h]) = 1 .. logs[h].len
         /\ \A i \in 1 .. logs[h].len :
              Contents(logs[h])[i] \in Nat /\ Contents(logs[h])[i] = heap[logs[h].array][i]
<1>1. logs[h].len \in Nat /\ \A i \in 1 .. logs[h].len : heap[logs[h].array][i] \in Nat
  <2>1. logs[h].len \in Nat
    BY DEF SlicesSound
  <2>2. CASE logs[h].array = NoArray
    BY <2>2 DEF SlicesSound
  <2>3. CASE logs[h].array # NoArray
    <3>1. heap[logs[h].array] \in Seq(Nat) /\ logs[h].len <= Len(heap[logs[h].array])
      BY <2>3 DEF SlicesSound
    <3> QED
      BY Zenon, <2>1, <3>1, Prefix
  <2> QED
    BY Zenon, <2>1, <2>2, <2>3
<1> QED
  BY <1>1 DEF Contents

LEMMA HeldOccurs ==
  ASSUME SlicesSound
  PROVE  \A h \in Handlers : \A r : Occurs(Contents(logs[h]), r) <=> Held(h, r)
  BY Zenon, ContentsAre DEF Occurs, Held

\* The places of a record, in terms of these predicates, before and after a step.
PlacesOf(r) ==
  {<<"job", g>> : g \in {g \in Loggers : Pending(g, r)}}
    \cup {<<"logs", h>> : h \in {h \in Handlers : Held(h, r)}}
    \cup {<<"batch", b>> : b \in {b \in DOMAIN batches : Written(b, r)}}

LEMMA PlacesAre == SlicesSound => \A r : Places(r) = PlacesOf(r)
<1> SUFFICES ASSUME SlicesSound, NEW r PROVE Places(r) = PlacesOf(r)
  OBVIOUS
<1>1. {h \in Handlers : Occurs(Contents(logs[h]), r)} = {h \in Handlers : Held(h, r)}
  BY Zenon, HeldOccurs
<1> QED
  BY Zenon, <1>1 DEF Places, PlacesOf, Pending, Written, Occurs

LEMMA PlacesNext == SlicesSound' => \A r : Places(r)' = PlacesOf(r)'
<1>1. (SlicesSound => \A r : Places(r) = PlacesOf(r))'
  BY PlacesAre, PTL
<1> QED
  BY Zenon, <1>1

\* What append does to the slices, where it writes in place and where it moves: the
\* handler's slice gets the record; another handler's keeps what it has, or, if it
\* shares the array, may have one of its records replaced by the new one.
Appended(h, r) ==
  /\ SlicesSound'
  /\ \A k \in Handlers : k # h => logs'[k] = logs[k]
  /\ logs'[h].array = logs[h].array \/ \A k \in Handlers : logs[k].array # logs'[h].array
  /\ logs'[h].array # NoArray
  /\ \A x \in Nat : Held(h, x)' <=> Held(h, x) \/ x = r
  /\ \A k \in Handlers, x \in Nat : Held(k, x)' => Held(k, x) \/ x = r
  /\ \A k \in Handlers, x \in Nat :
       k # h /\ (logs[h].array = NoArray \/ logs[k].array # logs[h].array) =>
         (Held(k, x)' <=> Held(k, x))

LEMMA InPlace ==
  ASSUME SlicesSound, NEW h \in Handlers, NEW r \in Nat, AppendTo(h, r), logs[h].len < Cap(logs[h])
  PROVE  Appended(h, r)
<1> DEFINE a == logs[h].array
           n == logs[h].len
<1>1. /\ a # NoArray /\ a \in 1 .. Len(heap) /\ n \in Nat /\ n + 1 \in 1 .. Len(heap[a])
      /\ heap[a] \in Seq(Nat)
  BY DEF SlicesSound, Cap, NoArray
<1>2. /\ heap' = [heap EXCEPT ![a][n + 1] = r]
      /\ logs' = [logs EXCEPT ![h].len = n + 1]
  BY DEF AppendTo
<1>3. /\ logs' \in [Handlers -> [array : Nat, len : Nat]]
      /\ logs'[h].array = a /\ logs'[h].len = n + 1
      /\ \A k \in Handlers : k # h => logs'[k] = logs[k]
      /\ \A k \in Handlers : logs'[k].array = logs[k].array
  <2>0. PICK l \in [array : Nat, len : Nat] : l = logs[h]
    BY Zenon DEF SlicesSound
  <2>1. PICK s : s = [logs[h] EXCEPT !.len = n + 1] BY Zenon
  <2>2. s \in [array : Nat, len : Nat] /\ s.array = a /\ s.len = n + 1
    <3>1. s = [l EXCEPT !.len = n + 1] /\ a = l.array BY Zenon, <2>0, <2>1
    <3>2. n + 1 \in Nat BY <1>1
    <3>3. QED BY <3>1, <3>2
  <2>3. logs' = [logs EXCEPT ![h] = s] BY Zenon, <1>2, <2>1
  <2>4. QED BY Zenon, <2>1, <2>2, <2>3 DEF SlicesSound
<1> DEFINE q == [heap[a] EXCEPT ![n + 1] = r]
<1>4. heap \in Seq(Seq(Nat)) /\ heap' = [heap EXCEPT ![a] = q]
  BY Zenon, <1>2 DEF SlicesSound
<1>5. /\ q \in Seq(Nat) /\ Len(q) = Len(heap[a]) /\ q[n + 1] = r
      /\ \A i \in 1 .. Len(heap[a]) : i # n + 1 => q[i] = heap[a][i]
  <2>1. IsUpdate(q, Nat, heap[a], n + 1, r)
    BY Zenon, <1>1, ElementSet
  <2> HIDE DEF q
  <2> QED
    BY Zenon, <2>1 DEF IsUpdate
<1> HIDE DEF q
<1>6. /\ heap' \in Seq(Seq(Nat)) /\ Len(heap') = Len(heap) /\ heap'[a] = q
      /\ \A c \in 1 .. Len(heap) : c # a => heap'[c] = heap[c]
  <2>1. IsUpdate(heap', Seq(Nat), heap, a, q)
    BY Zenon, <1>1, <1>4, <1>5, ElementSet
  <2> QED
    BY Zenon, <2>1 DEF IsUpdate
<1>9. SlicesSound'
  <2>1. \A k \in Handlers :
          IF logs'[k].array = NoArray THEN logs'[k].len = 0
          ELSE logs'[k].array \in 1 .. Len(heap') /\ logs'[k].len <= Len(heap'[logs'[k].array])
    <3> SUFFICES ASSUME NEW k \in Handlers
                 PROVE  IF logs'[k].array = NoArray THEN logs'[k].len = 0
                        ELSE /\ logs'[k].array \in 1 .. Len(heap')
                             /\ logs'[k].len <= Len(heap'[logs'[k].array])
      OBVIOUS
    <3>1. CASE k = h
      <4>1. n + 1 <= Len(heap[a])
        BY <1>1
      <4> QED
        BY Zenon, <1>1, <1>3, <1>5, <1>6, <3>1, <4>1
    <3>2. CASE k # h
      <4>1. logs'[k] = logs[k] /\ Len(heap'[a]) = Len(heap[a])
        BY Zenon, <1>3, <1>5, <1>6, <3>2
      <4> QED
        BY Zenon, <1>6, <4>1 DEF SlicesSound
    <3> QED
      BY Zenon, <3>1, <3>2
  <2> QED
    BY Zenon, <1>3, <1>6, <2>1 DEF SlicesSound
<1>7. \A x \in Nat : Held(h, x)' <=> Held(h, x) \/ x = r
  <2>1. \A x : Held(h, x)' <=> \E i \in 1 .. n + 1 : q[i] = x
    BY Zenon, <1>3, <1>6 DEF Held
  <2>2. \A x : (\E i \in 1 .. n + 1 : q[i] = x) <=> (\E i \in 1 .. n : heap[a][i] = x) \/ x = r
    <3>1. /\ \A i \in 1 .. n + 1 : i = n + 1 \/ i \in 1 .. n
          /\ \A i \in 1 .. n : i \in 1 .. n + 1 /\ i \in 1 .. Len(heap[a]) /\ i # n + 1
          /\ n + 1 \in 1 .. n + 1
      <4>1. Len(heap[a]) \in Nat
        BY <1>1
      <4> QED
        BY Zenon, <1>1, <4>1, OneMore
    <3>2. \A i \in 1 .. n : q[i] = heap[a][i]
      BY Zenon, <1>5, <3>1
    <3> QED
      BY Zenon, <3>1, <3>2, <1>5
  <2> QED
    BY Zenon, <2>1, <2>2 DEF Held
<1>8. ASSUME NEW k \in Handlers, k # h, NEW x \in Nat
      PROVE  /\ Held(k, x)' => Held(k, x) \/ x = r
             /\ logs[k].array # a => (Held(k, x)' <=> Held(k, x))
  <2>1. logs'[k] = logs[k]
    BY <1>3, <1>8
  <2>2. CASE logs[k].array = NoArray
    BY <2>1, <2>2 DEF Held, SlicesSound
  <2>3. CASE logs[k].array = a
    <3>1. \A i \in 1 .. logs[k].len : i \in 1 .. Len(heap[a])
      BY <1>1, <2>3 DEF SlicesSound
    <3>2. \A i \in 1 .. logs[k].len : q[i] = r \/ q[i] = heap[a][i]
      BY Zenon, <1>5, <3>1
    <3> QED
      BY Zenon, <1>6, <2>1, <2>3, <3>2 DEF Held
  <2>4. CASE logs[k].array # NoArray /\ logs[k].array # a
    <3>1. heap'[logs[k].array] = heap[logs[k].array]
      BY <1>6, <2>4 DEF SlicesSound
    <3> QED
      BY Zenon, <2>1, <3>1 DEF Held
  <2> QED
    BY Zenon, <2>2, <2>3, <2>4
<1> QED
  BY Zenon, <1>1, <1>3, <1>7, <1>8, <1>9 DEF Appended

LEMMA Moves ==
  ASSUME SlicesSound, NEW h \in Handlers, NEW r \in Nat, AppendTo(h, r), ~(logs[h].len < Cap(logs[h]))
  PROVE  Appended(h, r)
<1> DEFINE s == logs[h]
           m == IF Cap(s) = 0 THEN 1 ELSE 2 * Cap(s)
           grown == [i \in 1 .. m |->
                       IF i <= s.len THEN Contents(s)[i] ELSE IF i = s.len + 1 THEN r ELSE 0]
<1>1. s.len \in Nat /\ Cap(s) \in Nat /\ s.len <= Cap(s)
  BY DEF SlicesSound, Cap
<1>2. m \in Nat /\ s.len + 1 \in 1 .. m
  BY <1>1
<1>3. heap' = Append(heap, grown) /\ logs' = [logs EXCEPT ![h] = [array |-> Len(heap) + 1, len |-> s.len + 1]]
  BY Zenon DEF AppendTo
<1>4. /\ Contents(s) \in Seq(Nat) /\ DOMAIN Contents(s) = 1 .. s.len
      /\ \A i \in 1 .. s.len : Contents(s)[i] \in Nat /\ Contents(s)[i] = heap[s.array][i]
  BY Zenon, ContentsAre
<1> HIDE DEF m
<1>5. /\ grown \in Seq(Nat) /\ Len(grown) = m /\ grown[s.len + 1] = r
      /\ \A i \in 1 .. s.len : grown[i] = heap[s.array][i]
  <2>1. \A i \in 1 .. s.len : Contents(s)[i] \in Nat
    BY Zenon, <1>4
  <2>2. IsGrown(grown, Contents(s), s.len, m, r)
    BY Zenon, <1>1, <1>2, <2>1, Larger
  <2> HIDE DEF grown, s
  <2> QED
    BY Zenon, <1>4, <2>2 DEF IsGrown
<1> HIDE DEF grown
<1>6. /\ heap' \in Seq(Seq(Nat)) /\ Len(heap') = Len(heap) + 1 /\ Len(heap) \in Nat
      /\ heap'[Len(heap) + 1] = grown
      /\ \A c \in 1 .. Len(heap) : heap'[c] = heap[c]
  BY <1>3, <1>5 DEF SlicesSound
<1>7. /\ logs' \in [Handlers -> [array : Nat, len : Nat]]
      /\ logs'[h].array = Len(heap) + 1 /\ logs'[h].len = s.len + 1
      /\ \A k \in Handlers : k # h => logs'[k] = logs[k]
  BY <1>1, <1>3, <1>6 DEF SlicesSound
<1>8. \A k \in Handlers : logs[k].array # Len(heap) + 1
  <2> SUFFICES ASSUME NEW k \in Handlers PROVE logs[k].array # Len(heap) + 1
    OBVIOUS
  <2>1. logs[k].array = 0 \/ logs[k].array \in 1 .. Len(heap)
    BY DEF SlicesSound, NoArray
  <2> QED
    BY <1>6, <2>1
<1>9. SlicesSound'
  <2>1. \A k \in Handlers :
          IF logs'[k].array = NoArray THEN logs'[k].len = 0
          ELSE logs'[k].array \in 1 .. Len(heap') /\ logs'[k].len <= Len(heap'[logs'[k].array])
    <3> SUFFICES ASSUME NEW k \in Handlers
                 PROVE  IF logs'[k].array = NoArray THEN logs'[k].len = 0
                        ELSE /\ logs'[k].array \in 1 .. Len(heap')
                             /\ logs'[k].len <= Len(heap'[logs'[k].array])
      OBVIOUS
    <3>1. CASE k = h
      BY <1>2, <1>5, <1>6, <1>7, <3>1 DEF NoArray
    <3>2. CASE k # h
      <4>1. logs'[k] = logs[k]
        BY Zenon, <1>7, <3>2
      <4>2. CASE logs[k].array = NoArray
        BY Zenon, <4>1, <4>2 DEF SlicesSound
      <4>3. CASE logs[k].array # NoArray
        <5>1. logs[k].array \in 1 .. Len(heap) /\ logs[k].len <= Len(heap[logs[k].array])
          BY Zenon, <4>3 DEF SlicesSound
        <5> QED
          BY <1>6, <4>1, <4>3, <5>1
      <4> QED
        BY Zenon, <4>2, <4>3
    <3> QED
      BY Zenon, <3>1, <3>2
  <2> QED
    BY Zenon, <1>6, <1>7, <2>1 DEF SlicesSound
<1>10. \A x \in Nat : Held(h, x)' <=> Held(h, x) \/ x = r
  <2>1. \A x : Held(h, x)' <=> \E i \in 1 .. s.len + 1 : grown[i] = x
    BY Zenon, <1>6, <1>7 DEF Held
  <2>2. \A i \in 1 .. s.len + 1 : (i = s.len + 1 /\ grown[i] = r) \/ (i \in 1 .. s.len /\ grown[i] = heap[s.array][i])
    BY Zenon, <1>1, <1>2, <1>5, OneMore
  <2>3. s.len + 1 \in 1 .. s.len + 1 /\ \A i \in 1 .. s.len : i \in 1 .. s.len + 1 /\ grown[i] = heap[s.array][i]
    BY Zenon, <1>1, <1>2, <1>5, OneMore
  <2>4. \A x : (\E i \in 1 .. s.len + 1 : grown[i] = x) <=> (\E i \in 1 .. s.len : heap[s.array][i] = x) \/ x = r
    BY Zenon, <2>2, <2>3, <1>5
  <2> QED
    BY Zenon, <2>1, <2>4 DEF Held
<1>11. ASSUME NEW k \in Handlers, k # h, NEW x \in Nat
       PROVE  Held(k, x)' <=> Held(k, x)
  <2>1. logs'[k] = logs[k]
    BY <1>7, <1>11
  <2>2. CASE logs[k].array = NoArray
    BY <2>1, <2>2 DEF Held, SlicesSound
  <2>3. CASE logs[k].array # NoArray
    <3>1. heap'[logs[k].array] = heap[logs[k].array]
      BY <1>6, <2>3 DEF SlicesSound
    <3> QED
      BY Zenon, <2>1, <3>1 DEF Held
  <2> QED
    BY Zenon, <2>2, <2>3
<1>12. logs'[h].array # NoArray
  BY <1>6, <1>7 DEF NoArray
<1> QED
  BY Zenon, <1>7, <1>8, <1>9, <1>10, <1>11, <1>12 DEF Appended

LEMMA AppendEffect ==
  ASSUME SlicesSound, NEW h \in Handlers, NEW r \in Nat, AppendTo(h, r)
  PROVE  Appended(h, r)
  BY Zenon, InPlace, Moves

-------------------------------------------------------------------------------
\* A record whose predicates do not change stays where it is.
LEMMA SamePlaces ==
  ASSUME SlicesSound, SlicesSound', NEW r,
         \A g \in Loggers : Pending(g, r)' <=> Pending(g, r),
         \A h \in Handlers : Held(h, r)' <=> Held(h, r),
         {b \in DOMAIN batches' : Written(b, r)'} = {b \in DOMAIN batches : Written(b, r)}
  PROVE  Places(r)' = Places(r)
<1>1. {g \in Loggers : Pending(g, r)'} = {g \in Loggers : Pending(g, r)}
  BY Zenon
<1>2. {h \in Handlers : Held(h, r)'} = {h \in Handlers : Held(h, r)}
  BY Zenon
<1> QED
  BY Zenon, <1>1, <1>2, PlacesAre, PlacesNext DEF PlacesOf

\* A record that is in one place only.
LEMMA OnlyJob ==
  ASSUME SlicesSound', NEW g \in Loggers, NEW r, Pending(g, r)',
         \A k \in Loggers : Pending(k, r)' => k = g,
         \A h \in Handlers : ~Held(h, r)', \A b \in DOMAIN batches' : ~Written(b, r)'
  PROVE  Once(r)'
<1>1. PlacesOf(r)' = {<<"job", g>>}
  BY DEF PlacesOf
<1> QED
  BY Zenon, <1>1, PlacesNext DEF Once

LEMMA OnlyLogs ==
  ASSUME SlicesSound', NEW h \in Handlers, NEW r, Held(h, r)',
         \A k \in Handlers : Held(k, r)' => k = h,
         \A g \in Loggers : ~Pending(g, r)', \A b \in DOMAIN batches' : ~Written(b, r)'
  PROVE  Once(r)'
<1>1. PlacesOf(r)' = {<<"logs", h>>}
  BY DEF PlacesOf
<1> QED
  BY Zenon, <1>1, PlacesNext DEF Once

LEMMA OnlyBatch ==
  ASSUME SlicesSound', NEW b \in DOMAIN batches', NEW r, Written(b, r)',
         \A c \in DOMAIN batches' : Written(c, r)' => c = b,
         \A g \in Loggers : ~Pending(g, r)', \A h \in Handlers : ~Held(h, r)'
  PROVE  Once(r)'
<1>1. PlacesOf(r)' = {<<"batch", b>>}
  BY DEF PlacesOf
<1> QED
  BY Zenon, <1>1, PlacesNext DEF Once

\* A record that is in a slice and in one place is in no other.
LEMMA HeldAlone ==
  ASSUME SlicesSound, NEW h \in Handlers, NEW r, Held(h, r), Once(r)
  PROVE  /\ \A g \in Loggers : ~Pending(g, r)
         /\ \A k \in Handlers : Held(k, r) => k = h
         /\ \A b \in DOMAIN batches : ~Written(b, r)
<1>1. PICK p : PlacesOf(r) = {p}
  BY Zenon, PlacesAre DEF Once
<1>2. <<"logs", h>> \in PlacesOf(r)
  BY Zenon DEF PlacesOf
<1>3. \A g \in Loggers : Pending(g, r) => <<"job", g>> \in PlacesOf(r)
  BY Zenon DEF PlacesOf
<1>4. \A k \in Handlers : Held(k, r) => <<"logs", k>> \in PlacesOf(r)
  BY Zenon DEF PlacesOf
<1>5. \A b \in DOMAIN batches : Written(b, r) => <<"batch", b>> \in PlacesOf(r)
  BY Zenon DEF PlacesOf
<1> QED
  BY <1>1, <1>2, <1>3, <1>4, <1>5

\* A step that leaves slices and batches alone.
LEMMA SliceFrame ==
  ASSUME UNCHANGED <<heap, logs, batches>>
  PROVE  /\ SlicesSound' <=> SlicesSound
         /\ ArraysApart' <=> ArraysApart
         /\ \A h \in Handlers, r \in Nat : Held(h, r)' <=> Held(h, r)
         /\ DOMAIN batches' = DOMAIN batches
         /\ \A b \in DOMAIN batches, r \in Nat : Written(b, r)' <=> Written(b, r)
  BY Zenon DEF SlicesSound, ArraysApart, Held, Written

LEMMA HandleStep ==
  ASSUME LogInv, NEW g \in Loggers, NEW h \in Handlers, Handle(g, h)
  PROVE  LogInv'
<1>1. BatchTypes /\ SlicesSound /\ RecordsKnown /\ SlicesSound'
  BY Zenon, SliceFrame DEF LogInv, Handle
<1>0. PICK r0 \in Nat : r0 = issued + 1
  BY <1>1 DEF BatchTypes
<1>2. /\ issued' = r0 /\ job' = [job EXCEPT ![g] = <<h, r0>>] /\ at' = [at EXCEPT ![g] = "append"]
      /\ at[g] = "idle" /\ UNCHANGED <<heap, logs, sharing, dropped, batches>>
  BY Zenon, <1>0 DEF Handle
<1>3. /\ r0 \in Nat /\ Accepted \subseteq Nat
      /\ r0 \notin Accepted /\ Accepted' = Accepted \cup {r0}
      /\ dropped' \subseteq 1 .. issued' /\ issued' \in Nat
  BY <1>0, <1>1, <1>2 DEF BatchTypes, Accepted
<1>4. at' \in [Loggers -> {"idle", "append", "compare", "write"}] /\ job' \in [Loggers -> Handlers \X Nat]
  BY <1>1, <1>2, <1>3 DEF BatchTypes
<1>5. BatchTypes'
  BY Zenon, <1>1, <1>2, <1>3, <1>4 DEF BatchTypes
<1>6. /\ \A r : Pending(g, r)' <=> r = r0
      /\ \A r : ~Pending(g, r)
      /\ \A k \in Loggers : \A r : k # g => (Pending(k, r)' <=> Pending(k, r))
  BY <1>1, <1>2, <1>3 DEF BatchTypes, Pending
<1>7. /\ \A k \in Handlers, r \in Nat : Held(k, r)' <=> Held(k, r)
      /\ DOMAIN batches' = DOMAIN batches
      /\ \A b \in DOMAIN batches, r \in Nat : Written(b, r)' <=> Written(b, r)
      /\ ArraysApart' <=> ArraysApart
  BY Zenon, <1>2, SliceFrame
<1>8. /\ \A k \in Handlers : ~Held(k, r0)
      /\ \A b \in DOMAIN batches : ~Written(b, r0)
      /\ \A k \in Loggers : ~Pending(k, r0)
  BY Zenon, <1>1, <1>3 DEF RecordsKnown
<1>9. RecordsKnown'
  <2>1. /\ \A k \in Handlers, r \in Nat : Held(k, r)' => r \in Accepted'
        /\ \A b \in DOMAIN batches', r \in Nat : Written(b, r)' => r \in Accepted'
    BY Zenon, <1>1, <1>3, <1>7 DEF RecordsKnown
  <2>2. ASSUME NEW k \in Loggers, NEW r \in Nat, Pending(k, r)'
        PROVE  /\ r \in Accepted'
               /\ \A l \in Loggers : Pending(l, r)' => l = k
               /\ \A x \in Handlers : ~Held(x, r)'
               /\ \A b \in DOMAIN batches' : ~Written(b, r)'
    <3>1. CASE k = g
      BY Zenon, <1>3, <1>6, <1>7, <1>8, <2>2, <3>1
    <3>2. CASE k # g
      <4>1. Pending(k, r) /\ r # r0
        BY Zenon, <1>6, <1>8, <2>2, <3>2
      <4>2. /\ r \in Accepted
            /\ \A l \in Loggers : Pending(l, r) => l = k
            /\ \A x \in Handlers : ~Held(x, r)
            /\ \A b \in DOMAIN batches : ~Written(b, r)
        BY Zenon, <1>1, <4>1 DEF RecordsKnown
      <4> QED
        BY Zenon, <1>3, <1>6, <1>7, <4>1, <4>2
    <3> QED
      BY Zenon, <3>1, <3>2
  <2> QED
    BY Zenon, <2>1, <2>2 DEF RecordsKnown
<1>10. ASSUME sharing # "shared"
       PROVE  ArraysApart' /\ \A r \in Accepted' : Once(r)'
  <2>1. ASSUME NEW r \in Accepted, r # r0
        PROVE  Once(r)'
    <3>1. \A k \in Loggers : Pending(k, r)' <=> Pending(k, r)
      BY Zenon, <1>6, <2>1
    <3>2. {b \in DOMAIN batches' : Written(b, r)'} = {b \in DOMAIN batches : Written(b, r)}
      BY Zenon, <1>3, <1>7
    <3>3. Places(r)' = Places(r)
      BY Zenon, <1>1, <1>3, <1>7, <3>1, <3>2, SamePlaces
    <3> QED
      BY Zenon, <1>10, <3>3 DEF LogInv, Once
  <2>2. Once(r0)'
    BY Zenon, <1>1, <1>3, <1>6, <1>7, <1>8, OnlyJob
  <2> QED
    BY Zenon, <1>3, <1>7, <1>10, <2>1, <2>2 DEF LogInv
<1>11. sharing = "none" => h = "base" /\ NotCopied
  BY Zenon DEF Handle, LogInv, Handlers
<1>12. NotCopied'
  BY <1>1, <1>2, <1>11 DEF NotCopied, BatchTypes
<1> QED
  BY Zenon, <1>1, <1>2, <1>5, <1>9, <1>10, <1>12 DEF LogInv

\* A step of one goroutine after which some of the records it had are not pending.
LEMMA FilteredStep ==
  ASSUME LogInv, NEW g \in Loggers, Filtered(g)
  PROVE  LogInv'
<1>1. BatchTypes /\ SlicesSound /\ RecordsKnown /\ SlicesSound'
  BY Zenon, SliceFrame DEF LogInv, Filtered
<1>2. PICK r0 \in Nat : r0 = job[g][2]
  BY <1>1 DEF BatchTypes
<1>3. /\ dropped' = dropped \cup {r0} /\ at' = [at EXCEPT ![g] = "idle"] /\ at[g] = "append"
      /\ UNCHANGED <<heap, logs, sharing, job, issued, batches>>
  BY Zenon, <1>2 DEF Filtered
<1>4. Pending(g, r0)
  BY Zenon, <1>2, <1>3 DEF Pending
<1>5. r0 \in Accepted
  BY Zenon, <1>1, <1>4 DEF RecordsKnown
<1>6. Accepted \subseteq Nat /\ Accepted' = Accepted \ {r0} /\ dropped' \subseteq 1 .. issued
  BY <1>1, <1>3, <1>5 DEF BatchTypes, Accepted
<1>7. at' \in [Loggers -> {"idle", "append", "compare", "write"}]
  BY <1>1, <1>3 DEF BatchTypes
<1>8. BatchTypes'
  BY Zenon, <1>1, <1>3, <1>6, <1>7 DEF BatchTypes
<1>9. /\ \A r : ~Pending(g, r)'
      /\ \A k \in Loggers : \A r : k # g => (Pending(k, r)' <=> Pending(k, r))
  BY <1>1, <1>3 DEF BatchTypes, Pending
<1>10. /\ \A k \in Handlers, r \in Nat : Held(k, r)' <=> Held(k, r)
       /\ DOMAIN batches' = DOMAIN batches
       /\ \A b \in DOMAIN batches, r \in Nat : Written(b, r)' <=> Written(b, r)
       /\ ArraysApart' <=> ArraysApart
  BY Zenon, <1>3, SliceFrame
<1>11. /\ \A k \in Handlers : ~Held(k, r0)
       /\ \A b \in DOMAIN batches : ~Written(b, r0)
       /\ \A k \in Loggers : Pending(k, r0) => k = g
  BY Zenon, <1>1, <1>4 DEF RecordsKnown
<1>12. \A r : Pending(g, r) => r = r0
  BY Zenon, <1>2 DEF Pending
<1>13. RecordsKnown'
  <2>1. /\ \A k \in Handlers, r \in Nat : Held(k, r)' => r \in Accepted'
        /\ \A b \in DOMAIN batches', r \in Nat : Written(b, r)' => r \in Accepted'
    <3>1. ASSUME NEW k \in Handlers, NEW r \in Nat, Held(k, r)' PROVE r \in Accepted'
      <4>1. Held(k, r) BY Zenon, <1>10, <3>1
      <4>2. r \in Accepted /\ r # r0 BY Zenon, <1>1, <1>11, <4>1 DEF RecordsKnown
      <4>3. QED BY Zenon, <1>6, <4>2
    <3>2. ASSUME NEW b \in DOMAIN batches', NEW r \in Nat, Written(b, r)' PROVE r \in Accepted'
      <4>1. b \in DOMAIN batches /\ Written(b, r) BY Zenon, <1>10, <3>2
      <4>2. r \in Accepted /\ r # r0 BY Zenon, <1>1, <1>11, <4>1 DEF RecordsKnown
      <4>3. QED BY Zenon, <1>6, <4>2
    <3>3. QED BY Zenon, <3>1, <3>2
  <2>2. ASSUME NEW k \in Loggers, NEW r \in Nat, Pending(k, r)'
        PROVE  /\ r \in Accepted'
               /\ \A l \in Loggers : Pending(l, r)' => l = k
               /\ \A x \in Handlers : ~Held(x, r)'
               /\ \A b \in DOMAIN batches' : ~Written(b, r)'
    <3>1. k # g /\ Pending(k, r) /\ r # r0
      BY Zenon, <1>9, <1>11, <2>2
    <3>2. /\ r \in Accepted
          /\ \A l \in Loggers : Pending(l, r) => l = k
          /\ \A x \in Handlers : ~Held(x, r)
          /\ \A b \in DOMAIN batches : ~Written(b, r)
      BY Zenon, <1>1, <3>1 DEF RecordsKnown
    <3> QED
      BY Zenon, <1>6, <1>9, <1>10, <3>1, <3>2
  <2> QED
    BY Zenon, <2>1, <2>2 DEF RecordsKnown
<1>14. ASSUME sharing # "shared", NEW r \in Accepted'
       PROVE  Once(r)'
  <2>1. r \in Accepted /\ r # r0 /\ r \in Nat
    BY Zenon, <1>6
  <2>2. \A k \in Loggers : Pending(k, r)' <=> Pending(k, r)
    BY Zenon, <1>9, <1>12, <2>1
  <2>3. {b \in DOMAIN batches' : Written(b, r)'} = {b \in DOMAIN batches : Written(b, r)}
    BY Zenon, <1>10, <2>1
  <2>4. Places(r)' = Places(r)
    BY Zenon, <1>1, <1>10, <2>1, <2>2, <2>3, SamePlaces
  <2> QED
    BY Zenon, <1>14, <2>1, <2>4 DEF LogInv, Once
<1>15. NotCopied'
  BY Zenon, <1>3 DEF LogInv, NotCopied
<1> QED
  BY Zenon, <1>1, <1>3, <1>8, <1>10, <1>13, <1>14, <1>15 DEF LogInv

LEMMA AppendStep ==
  ASSUME LogInv, NEW g \in Loggers, AppendRecord(g)
  PROVE  LogInv'
<1>1. BatchTypes /\ SlicesSound /\ RecordsKnown
  BY Zenon DEF LogInv
<1>2. PICK r0 \in Nat, h \in Handlers : r0 = job[g][2] /\ h = job[g][1]
  BY Zenon, <1>1 DEF BatchTypes
<1>3. /\ AppendTo(h, r0) /\ at' = [at EXCEPT ![g] = "compare"] /\ at[g] = "append"
      /\ UNCHANGED <<sharing, job, issued, dropped, batches>>
  BY Zenon, <1>2 DEF AppendRecord
<1>4. Appended(h, r0)
  BY Zenon, <1>1, <1>3, AppendEffect
<1>5. Pending(g, r0)
  BY Zenon, <1>2, <1>3 DEF Pending
<1>6. /\ r0 \in Accepted
      /\ \A k \in Handlers : ~Held(k, r0)
      /\ \A b \in DOMAIN batches : ~Written(b, r0)
      /\ \A k \in Loggers : Pending(k, r0) => k = g
  BY Zenon, <1>1, <1>5 DEF RecordsKnown
<1>7. at' \in [Loggers -> {"idle", "append", "compare", "write"}]
  BY <1>1, <1>3 DEF BatchTypes
<1>8. BatchTypes' /\ Accepted' = Accepted /\ Accepted \subseteq Nat
  BY <1>1, <1>3, <1>7 DEF BatchTypes, Accepted
<1>9. /\ \A r : ~Pending(g, r)'
      /\ \A k \in Loggers : \A r : k # g => (Pending(k, r)' <=> Pending(k, r))
  BY <1>1, <1>3 DEF BatchTypes, Pending
<1>10. DOMAIN batches' = DOMAIN batches
       /\ \A b \in DOMAIN batches : \A r : Written(b, r)' <=> Written(b, r)
  BY Zenon, <1>3 DEF Written
<1>11. \A r : Pending(g, r) => r = r0
  BY Zenon, <1>2 DEF Pending
<1>12. SlicesSound' /\ \A k \in Handlers, r \in Nat : Held(k, r)' => Held(k, r) \/ r = r0
  BY Zenon, <1>4 DEF Appended
<1>13. RecordsKnown'
  <2>1. /\ \A k \in Handlers, r \in Nat : Held(k, r)' => r \in Accepted'
        /\ \A b \in DOMAIN batches', r \in Nat : Written(b, r)' => r \in Accepted'
    BY Zenon, <1>1, <1>6, <1>8, <1>10, <1>12 DEF RecordsKnown
  <2>2. ASSUME NEW k \in Loggers, NEW r \in Nat, Pending(k, r)'
        PROVE  /\ r \in Accepted'
               /\ \A l \in Loggers : Pending(l, r)' => l = k
               /\ \A x \in Handlers : ~Held(x, r)'
               /\ \A b \in DOMAIN batches' : ~Written(b, r)'
    <3>1. k # g /\ Pending(k, r) /\ r # r0
      BY Zenon, <1>6, <1>9, <2>2
    <3>2. /\ r \in Accepted
          /\ \A l \in Loggers : Pending(l, r) => l = k
          /\ \A x \in Handlers : ~Held(x, r)
          /\ \A b \in DOMAIN batches : ~Written(b, r)
      BY Zenon, <1>1, <3>1 DEF RecordsKnown
    <3> QED
      BY Zenon, <1>8, <1>9, <1>10, <1>12, <3>1, <3>2
  <2> QED
    BY Zenon, <2>1, <2>2 DEF RecordsKnown
<1>14. ASSUME sharing # "shared"
       PROVE  ArraysApart' /\ \A r \in Accepted' : Once(r)'
  <2>1. ArraysApart
    BY Zenon, <1>14 DEF LogInv
  <2>2. ArraysApart'
    <3>1. /\ \A k \in Handlers : k # h => logs'[k] = logs[k]
          /\ logs'[h].array = logs[h].array \/ \A k \in Handlers : logs[k].array # logs'[h].array
          /\ logs'[h].array # NoArray
      BY Zenon, <1>4 DEF Appended
    <3>2. ASSUME NEW k \in Handlers, k # h PROVE logs'[h].array # logs'[k].array
      <4>1. logs'[k] = logs[k] BY Zenon, <3>1, <3>2
      <4>2. CASE logs'[h].array = logs[h].array BY Zenon, <2>1, <3>1, <3>2, <4>1, <4>2 DEF ArraysApart
      <4>3. CASE \A l \in Handlers : logs[l].array # logs'[h].array BY Zenon, <3>2, <4>1, <4>3
      <4>4. QED BY Zenon, <3>1, <4>2, <4>3
    <3>3. ASSUME NEW k \in Handlers, NEW l \in Handlers, k # l, k # h, l # h
          PROVE  logs'[k].array = NoArray \/ logs'[k].array # logs'[l].array
      <4>1. logs'[k] = logs[k] /\ logs'[l] = logs[l] BY Zenon, <3>1, <3>3
      <4>2. QED BY Zenon, <2>1, <3>3, <4>1 DEF ArraysApart
    <3>4. QED BY Zenon, <3>2, <3>3 DEF ArraysApart
  <2>3. \A k \in Handlers, r \in Nat : k # h => (Held(k, r)' <=> Held(k, r))
    BY Zenon, <1>4, <2>1 DEF ArraysApart, Appended
  <2>4. \A r \in Nat : Held(h, r)' <=> Held(h, r) \/ r = r0
    BY Zenon, <1>4 DEF Appended
  <2>5. ASSUME NEW r \in Accepted, r # r0
        PROVE  Once(r)'
    <3>1. \A k \in Loggers : Pending(k, r)' <=> Pending(k, r)
      BY Zenon, <1>9, <1>11, <2>5
    <3>2. \A k \in Handlers : Held(k, r)' <=> Held(k, r)
      BY Zenon, <1>8, <2>3, <2>4, <2>5
    <3>3. {b \in DOMAIN batches' : Written(b, r)'} = {b \in DOMAIN batches : Written(b, r)}
      BY Zenon, <1>10
    <3>4. Places(r)' = Places(r)
      BY Zenon, <1>1, <1>12, <3>1, <3>2, <3>3, SamePlaces
    <3> QED
      BY Zenon, <1>14, <3>4 DEF LogInv, Once
  <2>6. Once(r0)'
    <3>1. Held(h, r0)' /\ \A k \in Handlers : Held(k, r0)' => k = h
      BY Zenon, <1>6, <2>3, <2>4
    <3>2. \A k \in Loggers : ~Pending(k, r0)'
      BY Zenon, <1>6, <1>9
    <3>3. \A b \in DOMAIN batches' : ~Written(b, r0)'
      BY Zenon, <1>6, <1>10
    <3> QED
      BY Zenon, <1>12, <3>1, <3>2, <3>3, OnlyLogs
  <2> QED
    BY Zenon, <1>8, <2>2, <2>5, <2>6
<1>15. NotCopied'
  <2>1. sharing = "none" => h = "base" /\ NotCopied
    BY Zenon, <1>2 DEF LogInv, NotCopied
  <2>2. h = "base" => logs'["derived"] = logs["derived"]
    BY <1>1, <1>3 DEF AppendTo, SlicesSound, Handlers
  <2> QED
    BY Zenon, <1>3, <2>1, <2>2 DEF NotCopied
<1> QED
  BY Zenon, <1>3, <1>8, <1>12, <1>13, <1>14, <1>15 DEF LogInv

LEMMA CompareStep ==
  ASSUME LogInv, NEW g \in Loggers, Compare(g)
  PROVE  LogInv'
<1>1. BatchTypes /\ SlicesSound /\ RecordsKnown /\ SlicesSound'
  BY Zenon, SliceFrame DEF LogInv, Compare
<1>2. PICK a \in {"idle", "write"} : at' = [at EXCEPT ![g] = a]
  BY Zenon DEF Compare
<1>3. at[g] = "compare" /\ UNCHANGED <<heap, logs, sharing, job, issued, dropped, batches>>
  BY Zenon DEF Compare
<1>4. BatchTypes' /\ Accepted' = Accepted /\ Accepted \subseteq Nat
  BY <1>1, <1>2, <1>3 DEF BatchTypes, Accepted
<1>5. \A k \in Loggers : \A r : Pending(k, r)' <=> Pending(k, r)
  BY <1>1, <1>2, <1>3 DEF BatchTypes, Pending
<1>6. /\ \A k \in Handlers, r \in Nat : Held(k, r)' <=> Held(k, r)
      /\ DOMAIN batches' = DOMAIN batches
      /\ \A b \in DOMAIN batches, r \in Nat : Written(b, r)' <=> Written(b, r)
      /\ ArraysApart' <=> ArraysApart
  BY Zenon, <1>3, SliceFrame
<1>7. RecordsKnown' /\ NotCopied'
  BY Zenon, <1>1, <1>3, <1>4, <1>5, <1>6 DEF LogInv, RecordsKnown, NotCopied
<1>8. ASSUME sharing # "shared", NEW r \in Accepted
      PROVE  Once(r)'
  <2>1. {b \in DOMAIN batches' : Written(b, r)'} = {b \in DOMAIN batches : Written(b, r)}
    BY Zenon, <1>4, <1>6
  <2>2. Places(r)' = Places(r)
    BY Zenon, <1>1, <1>4, <1>5, <1>6, <2>1, SamePlaces
  <2> QED
    BY Zenon, <1>8, <2>2 DEF LogInv, Once
<1> QED
  BY Zenon, <1>1, <1>3, <1>4, <1>6, <1>7, <1>8 DEF LogInv

\* What WriteAll leaves in the slices and what it writes.
LEMMA WriteAllEffect ==
  ASSUME BatchTypes, SlicesSound, NEW g \in Loggers, NEW h \in Handlers, h = job[g][1], WriteAll(g)
  PROVE  /\ SlicesSound' /\ batches' \in Seq(Seq(Nat))
         /\ ArraysApart' <=> ArraysApart
         /\ logs'["derived"].array = logs["derived"].array
         /\ \A r : ~Held(h, r)'
         /\ \A k \in Handlers : \A r : k # h => (Held(k, r)' <=> Held(k, r))
         /\ DOMAIN batches \subseteq DOMAIN batches'
         /\ \A b \in DOMAIN batches : \A r : Written(b, r)' <=> Written(b, r)
         /\ \A b \in DOMAIN batches' \ DOMAIN batches :
              b = Len(batches) + 1 /\ \A r : Written(b, r)' <=> Held(h, r)
         /\ (\A r : ~Held(h, r)) \/ Len(batches) + 1 \in DOMAIN batches' \ DOMAIN batches
<1>1. /\ batches' = IF logs[h].len = 0 THEN batches ELSE Append(batches, Contents(logs[h]))
      /\ logs' = [logs EXCEPT ![h].len = 0] /\ heap' = heap
  BY Zenon DEF WriteAll
<1>2. /\ logs' \in [Handlers -> [array : Nat, len : Nat]] /\ logs'[h].len = 0
      /\ \A k \in Handlers : logs'[k].array = logs[k].array /\ (k # h => logs'[k] = logs[k])
  BY <1>1 DEF SlicesSound
<1>3. "derived" \in Handlers
  BY DEF Handlers
<1>4. SlicesSound'
  <2>1. ASSUME NEW k \in Handlers
        PROVE  IF logs'[k].array = NoArray THEN logs'[k].len = 0
               ELSE logs'[k].array \in 1 .. Len(heap) /\ logs'[k].len <= Len(heap[logs'[k].array])
    <3>1. CASE k # h
      BY Zenon, <1>2, <3>1 DEF SlicesSound
    <3>2. CASE k = h
      <4>1. logs[h].array # NoArray => heap[logs[h].array] \in Seq(Nat) /\ logs[h].array \in 1 .. Len(heap)
        BY DEF SlicesSound
      <4> QED
        BY <1>2, <3>2, <4>1
    <3> QED
      BY Zenon, <3>1, <3>2
  <2>2. heap' \in Seq(Seq(Nat))
    BY Zenon, <1>1 DEF SlicesSound
  <2>3. \A k \in Handlers :
          IF logs'[k].array = NoArray THEN logs'[k].len = 0
          ELSE logs'[k].array \in 1 .. Len(heap') /\ logs'[k].len <= Len(heap'[logs'[k].array])
    BY Zenon, <1>1, <2>1
  <2> QED
    BY Zenon, <1>1, <1>2, <2>2, <2>3 DEF SlicesSound
<1>5. ArraysApart' <=> ArraysApart
  <2>1. \A k \in Handlers : logs'[k].array = logs[k].array
    BY Zenon, <1>2
  <2>2. ASSUME ArraysApart PROVE ArraysApart'
    BY Zenon, <2>1, <2>2 DEF ArraysApart
  <2>3. ASSUME ArraysApart' PROVE ArraysApart
    BY Zenon, <2>1, <2>3 DEF ArraysApart
  <2> QED
    BY Zenon, <2>2, <2>3
<1>6. \A r : ~Held(h, r)'
  BY <1>2 DEF Held
<1>7. \A k \in Handlers : \A r : k # h => (Held(k, r)' <=> Held(k, r))
  BY Zenon, <1>1, <1>2 DEF Held
<1>8. CASE logs[h].len = 0
  <2>1. batches' = batches
    BY Zenon, <1>1, <1>8
  <2>2. \A r : ~Held(h, r)
    BY <1>8 DEF Held
  <2> QED
    BY Zenon, <1>2, <1>3, <1>4, <1>5, <1>6, <1>7, <2>1, <2>2 DEF BatchTypes, Written
<1>9. CASE logs[h].len # 0
  <2>1. PICK c \in Seq(Nat) : c = Contents(logs[h])
    BY Zenon, ContentsAre
  <2>2. batches' = Append(batches, c)
    BY Zenon, <1>1, <1>9, <2>1
  <2>3. batches \in Seq(Seq(Nat))
    BY Zenon DEF BatchTypes
  <2>4. /\ batches' \in Seq(Seq(Nat)) /\ DOMAIN batches \subseteq DOMAIN batches'
        /\ \A b \in DOMAIN batches : batches'[b] = batches[b]
        /\ \A b \in DOMAIN batches' \ DOMAIN batches : b = Len(batches) + 1 /\ batches'[b] = c
        /\ Len(batches) + 1 \in DOMAIN batches' \ DOMAIN batches
    BY <2>1, <2>2, <2>3
  <2>5. \A r : (\E i \in DOMAIN c : c[i] = r) <=> Held(h, r)
    BY Zenon, <2>1, HeldOccurs DEF Occurs
  <2>6. \A b \in DOMAIN batches' \ DOMAIN batches : \A r : Written(b, r)' <=> Held(h, r)
    BY Zenon, <2>4, <2>5 DEF Written
  <2>7. \A b \in DOMAIN batches : \A r : Written(b, r)' <=> Written(b, r)
    BY Zenon, <2>4 DEF Written
  <2> QED
    BY Zenon, <1>2, <1>3, <1>4, <1>5, <1>6, <1>7, <2>4, <2>6, <2>7
<1> QED
  BY Zenon, <1>8, <1>9

LEMMA WriteAllStep ==
  ASSUME LogInv, NEW g \in Loggers, WriteAll(g)
  PROVE  LogInv'
<1>1. BatchTypes /\ SlicesSound /\ RecordsKnown
  BY Zenon DEF LogInv
<1>2. PICK h \in Handlers : h = job[g][1]
  BY <1>1 DEF BatchTypes
<1>3. /\ SlicesSound' /\ batches' \in Seq(Seq(Nat))
      /\ ArraysApart' <=> ArraysApart
      /\ logs'["derived"].array = logs["derived"].array
      /\ \A r : ~Held(h, r)'
      /\ \A k \in Handlers : \A r : k # h => (Held(k, r)' <=> Held(k, r))
      /\ DOMAIN batches \subseteq DOMAIN batches'
      /\ \A b \in DOMAIN batches : \A r : Written(b, r)' <=> Written(b, r)
      /\ \A b \in DOMAIN batches' \ DOMAIN batches :
           b = Len(batches) + 1 /\ \A r : Written(b, r)' <=> Held(h, r)
      /\ (\A r : ~Held(h, r)) \/ Len(batches) + 1 \in DOMAIN batches' \ DOMAIN batches
  BY Zenon, <1>1, <1>2, WriteAllEffect
<1>4. /\ at[g] = "write" /\ at' = [at EXCEPT ![g] = "idle"]
      /\ UNCHANGED <<heap, sharing, job, issued, dropped>>
  BY Zenon DEF WriteAll
<1>5. at' \in [Loggers -> {"idle", "append", "compare", "write"}]
  BY <1>1, <1>4 DEF BatchTypes
<1>6. BatchTypes' /\ Accepted' = Accepted /\ Accepted \subseteq Nat
  BY <1>1, <1>3, <1>4, <1>5 DEF BatchTypes, Accepted
<1>7. \A k \in Loggers : \A r : Pending(k, r)' <=> Pending(k, r)
  BY <1>1, <1>4 DEF BatchTypes, Pending
<1>8. \A k \in Handlers : \A r : Held(k, r)' => Held(k, r)
  BY Zenon, <1>3
<1>9. \A b \in DOMAIN batches' : \A r : Written(b, r)' =>
        (b \in DOMAIN batches /\ Written(b, r)) \/ Held(h, r)
  BY Zenon, <1>3
<1>10. RecordsKnown'
  <2>1. /\ \A k \in Handlers, r \in Nat : Held(k, r)' => r \in Accepted'
        /\ \A b \in DOMAIN batches', r \in Nat : Written(b, r)' => r \in Accepted'
    BY Zenon, <1>1, <1>6, <1>8, <1>9 DEF RecordsKnown
  <2>2. ASSUME NEW k \in Loggers, NEW r \in Nat, Pending(k, r)'
        PROVE  /\ r \in Accepted'
               /\ \A l \in Loggers : Pending(l, r)' => l = k
               /\ \A x \in Handlers : ~Held(x, r)'
               /\ \A b \in DOMAIN batches' : ~Written(b, r)'
    <3>1. /\ r \in Accepted
          /\ \A l \in Loggers : Pending(l, r) => l = k
          /\ \A x \in Handlers : ~Held(x, r)
          /\ \A b \in DOMAIN batches : ~Written(b, r)
      BY Zenon, <1>1, <1>7, <2>2 DEF RecordsKnown
    <3> QED
      BY Zenon, <1>6, <1>7, <1>8, <1>9, <3>1
  <2> QED
    BY Zenon, <2>1, <2>2 DEF RecordsKnown
<1>11. ASSUME sharing # "shared", NEW r \in Accepted
       PROVE  Once(r)'
  <2>1. Once(r)
    BY Zenon, <1>11 DEF LogInv
  <2>2. CASE Held(h, r)
    <3>1. /\ \A k \in Loggers : ~Pending(k, r)
          /\ \A k \in Handlers : Held(k, r) => k = h
          /\ \A b \in DOMAIN batches : ~Written(b, r)
      BY Zenon, <1>1, <2>1, <2>2, HeldAlone
    <3>2. PICK b \in DOMAIN batches' : b = Len(batches) + 1 /\ b \notin DOMAIN batches
      BY Zenon, <1>3, <2>2
    <3>3. Written(b, r)' /\ \A c \in DOMAIN batches' : Written(c, r)' => c = b
      BY Zenon, <1>3, <2>2, <3>1, <3>2
    <3>4. /\ \A k \in Loggers : ~Pending(k, r)'
          /\ \A k \in Handlers : ~Held(k, r)'
      BY Zenon, <1>3, <1>7, <3>1
    <3> QED
      BY Zenon, <1>3, <3>3, <3>4, OnlyBatch
  <2>3. CASE ~Held(h, r)
    <3>1. \A k \in Handlers : Held(k, r)' <=> Held(k, r)
      BY Zenon, <1>3, <2>3
    <3>2. {b \in DOMAIN batches' : Written(b, r)'} = {b \in DOMAIN batches : Written(b, r)}
      BY Zenon, <1>3, <2>3
    <3>3. Places(r)' = Places(r)
      BY Zenon, <1>1, <1>3, <1>7, <3>1, <3>2, SamePlaces
    <3> QED
      BY Zenon, <2>1, <3>3 DEF Once
  <2> QED
    BY Zenon, <2>2, <2>3
<1>12. NotCopied'
  BY Zenon, <1>3, <1>4 DEF LogInv, NotCopied
<1> QED
  BY Zenon, <1>3, <1>4, <1>6, <1>10, <1>11, <1>12 DEF LogInv

\* A copy taken before the first record starts with no array of its own; one taken
\* later shares the array, and only what RecordsKnown says remains true.
LEMMA DeriveStep ==
  ASSUME LogInv, Derive
  PROVE  LogInv'
<1>1. BatchTypes /\ SlicesSound /\ RecordsKnown
  BY Zenon DEF LogInv
<1>2. /\ sharing = "none" /\ logs' = [logs EXCEPT !["derived"] = logs["base"]]
      /\ sharing' = IF logs["base"].array = NoArray THEN "fresh" ELSE "shared"
      /\ UNCHANGED <<heap, at, job, issued, dropped, batches>>
  BY Zenon DEF Derive
<1>3. /\ logs' \in [Handlers -> [array : Nat, len : Nat]]
      /\ logs'["derived"] = logs["base"] /\ logs'["base"] = logs["base"]
      /\ \A k \in Handlers : k \in {"base", "derived"} /\ "base" \in Handlers
  BY <1>1, <1>2 DEF SlicesSound, Handlers
<1>4. \A k \in Handlers : logs'[k] = logs["base"]
  BY Zenon, <1>3
<1>5. SlicesSound'
  BY Zenon, <1>1, <1>2, <1>3, <1>4 DEF SlicesSound
<1>6. BatchTypes' /\ Accepted' = Accepted /\ Accepted \subseteq Nat
  BY <1>1, <1>2 DEF BatchTypes, Accepted
<1>7. /\ \A k \in Loggers : \A r : Pending(k, r)' <=> Pending(k, r)
      /\ DOMAIN batches' = DOMAIN batches
      /\ \A b \in DOMAIN batches : \A r : Written(b, r)' <=> Written(b, r)
      /\ \A k \in Handlers : \A r : Held(k, r)' <=> Held("base", r)
  BY Zenon, <1>2, <1>4 DEF Pending, Written, Held
<1>8. RecordsKnown'
  BY Zenon, <1>1, <1>3, <1>6, <1>7 DEF RecordsKnown
<1>9. ASSUME sharing' # "shared"
      PROVE  ArraysApart' /\ \A r \in Accepted : Once(r)'
  <2>1. logs["base"].array = NoArray /\ logs["derived"].array = NoArray
    BY Zenon, <1>2, <1>9 DEF LogInv, NotCopied
  <2>2. ArraysApart'
    BY Zenon, <1>4, <2>1 DEF ArraysApart
  <2>3. \A k \in Handlers : logs[k].len = 0
    BY Zenon, <1>1, <1>3, <2>1 DEF SlicesSound
  <2>4. \A k \in Handlers : \A r : ~Held(k, r)
    BY <2>3 DEF Held
  <2>5. ASSUME NEW r \in Accepted
        PROVE  Once(r)'
    <3>1. \A k \in Handlers : Held(k, r)' <=> Held(k, r)
      BY Zenon, <1>3, <1>7, <2>4
    <3>2. {b \in DOMAIN batches' : Written(b, r)'} = {b \in DOMAIN batches : Written(b, r)}
      BY Zenon, <1>7
    <3>3. Places(r)' = Places(r)
      BY Zenon, <1>1, <1>5, <1>7, <3>1, <3>2, SamePlaces
    <3>4. sharing # "shared"
      BY Zenon, <1>2
    <3> QED
      BY Zenon, <3>3, <3>4 DEF LogInv, Once
  <2> QED
    BY Zenon, <2>2, <2>5
<1>10. sharing' # "none"
  BY Zenon, <1>2
<1> QED
  BY Zenon, <1>5, <1>6, <1>8, <1>9, <1>10 DEF LogInv, NotCopied

-------------------------------------------------------------------------------
LEMMA LogInitial == LogInit => LogInv
<1> SUFFICES ASSUME LogInit PROVE LogInv
  OBVIOUS
<1>1. /\ heap = <<>> /\ logs = [h \in Handlers |-> [array |-> NoArray, len |-> 0]]
      /\ sharing = "none" /\ at = [g \in Loggers |-> "idle"]
      /\ job = [g \in Loggers |-> <<"base", 0>>] /\ issued = 0 /\ dropped = {} /\ batches = <<>>
  BY Zenon DEF LogInit
<1>2. "derived" \in Handlers /\ "base" \in Handlers /\ \A g \in Loggers : job[g] = <<"base", 0>>
  BY Zenon, <1>1 DEF Handlers
<1>3. /\ SlicesSound /\ \A h \in Handlers : logs[h].array = NoArray /\ logs[h].len = 0
      /\ \A h \in Handlers : \A r : ~Held(h, r)
  BY <1>1 DEF SlicesSound, NoArray, Held
<1>4. BatchTypes /\ Accepted = {} /\ DOMAIN batches = {}
  BY <1>1, <1>2 DEF BatchTypes, Accepted
<1>5. \A g \in Loggers : \A r : ~Pending(g, r)
  BY Zenon, <1>1 DEF Pending
<1>6. ArraysApart /\ RecordsKnown
  BY Zenon, <1>3, <1>4, <1>5 DEF ArraysApart, RecordsKnown
<1>7. NotCopied
  BY <1>2, <1>3 DEF NotCopied
<1> QED
  BY Zenon, <1>3, <1>4, <1>6, <1>7 DEF LogInv

LEMMA LogStep == LogInv /\ [LogNext]_logVars => LogInv'
<1> SUFFICES ASSUME LogInv, [LogNext]_logVars PROVE LogInv'
  OBVIOUS
<1>1. ASSUME NEW g \in Loggers, NEW h \in Handlers, Handle(g, h) PROVE LogInv'
  BY Zenon, <1>1, HandleStep
<1>2. ASSUME NEW g \in Loggers, Filtered(g) PROVE LogInv'
  BY Zenon, <1>2, FilteredStep
<1>3. ASSUME NEW g \in Loggers, AppendRecord(g) PROVE LogInv'
  BY Zenon, <1>3, AppendStep
<1>4. ASSUME NEW g \in Loggers, Compare(g) PROVE LogInv'
  BY Zenon, <1>4, CompareStep
<1>5. ASSUME NEW g \in Loggers, WriteAll(g) PROVE LogInv'
  BY Zenon, <1>5, WriteAllStep
<1>6. CASE Derive
  BY Zenon, <1>6, DeriveStep
<1>7. CASE UNCHANGED logVars
  <2>1. UNCHANGED <<heap, logs, sharing, at, job, issued, dropped, batches>>
    BY Zenon, <1>7 DEF logVars
  <2>2. BatchTypes' <=> BatchTypes
    BY Zenon, <2>1 DEF BatchTypes
  <2>3. /\ SlicesSound' <=> SlicesSound
        /\ ArraysApart' <=> ArraysApart
        /\ NotCopied' <=> NotCopied
    BY Zenon, <2>1 DEF SlicesSound, ArraysApart, NotCopied
  <2>4. Accepted' = Accepted
    BY Zenon, <2>1 DEF Accepted
  <2>5. /\ \A g : \A r : Pending(g, r)' <=> Pending(g, r)
        /\ \A h : \A r : Held(h, r)' <=> Held(h, r)
        /\ \A b : \A r : Written(b, r)' <=> Written(b, r)
    BY Zenon, <2>1 DEF Pending, Held, Written
  <2>6. RecordsKnown' <=> RecordsKnown
    BY Zenon, <2>1, <2>4, <2>5 DEF RecordsKnown
  <2>7. \A r : Places(r)' = Places(r)
    BY Zenon, <2>1 DEF Places, Contents, Occurs
  <2>8. \A r : Once(r)' <=> Once(r)
    BY Zenon, <2>7 DEF Once
  <2> QED
    BY Zenon, <2>1, <2>2, <2>3, <2>4, <2>6, <2>8 DEF LogInv
<1> QED
  BY Zenon, <1>1, <1>2, <1>3, <1>4, <1>5, <1>6, <1>7 DEF LogNext

\* The inductive invariant of the batching handler, for any number of goroutines,
\* records and any batch size: slices lie within their arrays, a record still to be
\* appended is nowhere else, and as long as no copy shares an array every accepted
\* record is in one place.
THEOREM LogInductive == LogSpec => []LogInv
  BY LogInitial, LogStep, PTL DEF LogSpec

LEMMA OnceFromInv == LogInv => EachRecordOnce
<1> SUFFICES ASSUME LogInv PROVE EachRecordOnce
  OBVIOUS
<1>1. batches \in Seq(Seq(Nat)) /\ RecordsKnown
  BY Zenon DEF LogInv, BatchTypes
<1>2. \A b \in DOMAIN batches : \A i \in DOMAIN batches[b] : batches[b][i] \in Nat
  BY <1>1
<1>3. \A b \in DOMAIN batches : \A i \in DOMAIN batches[b] : Written(b, batches[b][i])
  BY Zenon DEF Written
<1>4. \A b \in DOMAIN batches : \A i \in DOMAIN batches[b] : batches[b][i] \in Accepted
  BY Zenon, <1>1, <1>2, <1>3 DEF RecordsKnown
<1> QED
  BY Zenon, <1>4 DEF LogInv, EachRecordOnce, Once, Accepted

\* LogHandler.Handle and WriteAll neither lose nor repeat a record: between the
\* unlock and the comparison other goroutines may append, fill and empty the slice,
\* and still every record the filter let through is pending, held or written, once.
THEOREM RecordedOnce == LogSpec => []EachRecordOnce
  BY LogInductive, OnceFromInv, PTL

-------------------------------------------------------------------------------
(* The arrangement of attributes.                                             *)

GoaTypes == [group : Groups \cup {NoGroup}, attrs : Seq(Attributes)]

\* The attributes of a list say where they are; groups have none.
Placed(s) ==
  /\ s \in Seq(GoaTypes)
  /\ \A i \in DOMAIN s :
       /\ s[i].group # NoGroup => s[i].attrs = <<>>
       /\ \A n \in DOMAIN s[i].attrs : s[i].attrs[n].at = i /\ s[i].attrs[n].nr = n

\* The same for those of a record, which come after the list.
OwnPlaced(s, o) == o \in Seq(Attributes) /\ \A n \in DOMAIN o : o[n].at = Len(s) + 1 /\ o[n].nr = n

\* What is further down on the stack t beats what is above it.
Ordered(s, t) == \A i, j \in DOMAIN t : i < j => Beats(s, t[i], t[j])

\* The stack t holds the attributes since the last group before element r.
Waiting(s, r, t) == t \in Seq(Attributes) /\ Elements(t) = Section(s, r) /\ Ordered(s, t)

\* The groups after element r have their maps, and m has no others.
Visited(s, r, m) ==
  /\ \A h \in DOMAIN s : h > r /\ s[h].group # NoGroup /\ Section(s, h) # {} => s[h].group \in DOMAIN m
  /\ \A g \in DOMAIN m : \E h \in DOMAIN s :
       h > r /\ FirstFrom(s, r + 1, h) /\ s[h].group = g /\ Shows(s, m[g], Section(s, h))

RecordInv ==
  /\ Placed(goas) /\ OwnPlaced(goas, own)
  /\ handling = "walking" =>
       rest \in 0 .. Len(goas) /\ Waiting(goas, rest, stack) /\ Visited(goas, rest, grouped)
  /\ DataAsCollected

LEMMA LeastOf ==
  ASSUME NEW T \in SUBSET Nat, T # {}
  PROVE  \E x \in T : \A y \in T : x <= y
<1>1. IsWellFoundedOn(OpToRel(<, Nat), Nat) BY NatLessThanWellFounded
<1>2. PICK x \in T : \A y \in T : ~(<<y, x>> \in OpToRel(<, Nat)) BY Zenon, <1>1, WFMin
<1>3. ASSUME NEW y \in T PROVE x <= y
  <2>1. x \in Nat /\ y \in Nat OBVIOUS
  <2>2. ASSUME y < x PROVE <<y, x>> \in OpToRel(<, Nat)
    BY <2>1, <2>2 DEF OpToRel
  <2>3. ~(y < x) BY Zenon, <1>2, <2>2
  <2>4. QED BY <2>1, <2>3
<1>4. QED BY Zenon, <1>3

\* A set of numbers up to n has a greatest element.
LEMMA Greatest ==
  ASSUME NEW n \in Nat, NEW T \in SUBSET (0 .. n), T # {}
  PROVE  \E x \in T : \A y \in T : y <= x
<1> DEFINE U == {n - x : x \in T}
<1>1. U \in SUBSET Nat OBVIOUS
<1>2. U # {} BY Zenon
<1> HIDE DEF U
<1>3. PICK u \in U : \A y \in U : u <= y BY Zenon, <1>1, <1>2, LeastOf
<1>4. PICK x \in T : u = n - x BY Zenon, <1>3 DEF U
<1>5. ASSUME NEW y \in T PROVE y <= x
  <2>1. n - y \in U BY Zenon DEF U
  <2>2. n - x <= n - y BY Zenon, <1>3, <1>4, <2>1
  <2>3. QED BY <2>2
<1>6. QED BY Zenon, <1>5

\* Attribute a is the last one of key k in s, and at i.
LastAt(s, k, i, a) ==
  /\ i \in DOMAIN s /\ s[i].key = k /\ a = s[i]
  /\ \A j \in DOMAIN s : s[j].key = k => j <= i

\* What a key has after a list was appended to a map: its last attribute in there.
LEMMA LastAppended ==
  ASSUME NEW m, NEW s \in Seq(Attributes), NEW l \in DOMAIN s
  PROVE  \E i : LastAt(s, s[l].key, i, AppendAttrs(m, s)[s[l].key])
<1>0. PICK k : k = s[l].key OBVIOUS
<1> DEFINE T == {i \in DOMAIN s : s[i].key = k}
           Is(i) == s[i].key = k /\ \A j \in DOMAIN s : s[j].key = k => j <= i
<1>1. Len(s) \in Nat /\ DOMAIN s = 1 .. Len(s) OBVIOUS
<1>2. T \in SUBSET (0 .. Len(s)) BY <1>1
<1>3. l \in T BY Zenon, <1>0
<1> HIDE DEF T
<1>4. PICK x \in T : \A y \in T : y <= x BY Zenon, <1>1, <1>2, <1>3, Greatest
<1>5. x \in DOMAIN s /\ Is(x) BY Zenon, <1>4 DEF T
<1>6. PICK c : c = CHOOSE i \in DOMAIN s : Is(i) OBVIOUS
<1>7. c \in DOMAIN s /\ Is(c) BY Zenon, <1>5, <1>6
<1>8. k \in DOMAIN m \cup {s[i].key : i \in DOMAIN s} BY Zenon, <1>0
<1>9. AppendAttrs(m, s)[k] = s[c] BY Zenon, <1>5, <1>6, <1>8 DEF AppendAttrs
<1>10. LastAt(s, k, c, AppendAttrs(m, s)[k]) BY Zenon, <1>7, <1>9 DEF LastAt
<1>11. QED BY Zenon, <1>0, <1>10

\* Other keys keep what they had, and the keys are those of both.
LEMMA Kept ==
  ASSUME NEW m, NEW s
  PROVE  /\ DOMAIN AppendAttrs(m, s) = DOMAIN m \cup {a.key : a \in Elements(s)}
         /\ \A k \in DOMAIN m : (\A i \in DOMAIN s : s[i].key # k) => AppendAttrs(m, s)[k] = m[k]
<1>1. DOMAIN AppendAttrs(m, s) = DOMAIN m \cup {s[i].key : i \in DOMAIN s}
  BY Zenon DEF AppendAttrs
<1>2. {s[i].key : i \in DOMAIN s} = {a.key : a \in Elements(s)} BY Zenon DEF Elements
<1>3. ASSUME NEW k \in DOMAIN m, \A i \in DOMAIN s : s[i].key # k
      PROVE  AppendAttrs(m, s)[k] = m[k]
  <2>1. k \in DOMAIN m \cup {s[i].key : i \in DOMAIN s} BY Zenon
  <2>2. ~ \E i \in DOMAIN s : s[i].key = k BY Zenon, <1>3
  <2>3. QED BY Zenon, <2>1, <2>2 DEF AppendAttrs
<1>4. QED BY Zenon, <1>1, <1>2, <1>3

\* The stack is turned around.
LEMMA Popped ==
  ASSUME NEW s \in Seq(Attributes)
  PROVE  /\ PopByLength(s) \in Seq(Attributes) /\ DOMAIN PopByLength(s) = 1 .. Len(s)
         /\ \A i \in 1 .. Len(s) : Len(s) + 1 - i \in DOMAIN s /\ PopByLength(s)[i] = s[Len(s) + 1 - i]
         /\ Elements(PopByLength(s)) = Elements(s)
<1>1. Len(s) \in Nat /\ DOMAIN s = 1 .. Len(s) /\ \A i \in DOMAIN s : s[i] \in Attributes OBVIOUS
<1>2. \A i \in 1 .. Len(s) : Len(s) + 1 - i \in 1 .. Len(s) /\ Len(s) + 1 - (Len(s) + 1 - i) = i
  BY <1>1
<1>3. /\ DOMAIN PopByLength(s) = 1 .. Len(s)
      /\ \A i \in 1 .. Len(s) : PopByLength(s)[i] = s[Len(s) + 1 - i]
  BY Zenon DEF PopByLength
<1>4. PopByLength(s) \in [1 .. Len(s) -> Attributes]
  BY Zenon, <1>1, <1>2 DEF PopByLength
<1>5. PopByLength(s) \in Seq(Attributes) BY <1>1, <1>4
<1>6. ASSUME NEW a PROVE a \in Elements(PopByLength(s)) <=> a \in Elements(s)
  <2>1. ASSUME a \in Elements(PopByLength(s)) PROVE a \in Elements(s)
    BY Zenon, <1>1, <1>2, <1>3, <2>1 DEF Elements
  <2>2. ASSUME a \in Elements(s) PROVE a \in Elements(PopByLength(s))
    <3>1. PICK i \in 1 .. Len(s) : a = s[i] BY Zenon, <1>1, <2>2 DEF Elements
    <3>2. PopByLength(s)[Len(s) + 1 - i] = s[i] BY Zenon, <1>2, <1>3
    <3>3. QED BY Zenon, <1>2, <1>3, <3>1, <3>2 DEF Elements
  <2>3. QED BY Zenon, <2>1, <2>2
<1>7. QED BY Zenon, <1>1, <1>2, <1>3, <1>5, <1>6

LEMMA Unfolded ==
  ASSUME NEW s, NEW a \in Elements(s)
  PROVE  \E i \in DOMAIN s : a = s[i]
BY Zenon DEF Elements

\* An ordered stack is emptied into the map its attributes amount to.
LEMMA Emptied ==
  ASSUME NEW list, NEW s \in Seq(Attributes), Ordered(list, s)
  PROVE  Shows(list, AppendAttrs(Nothing, PopByLength(s)), Elements(s))
<1>2. PICK r : r = PopByLength(s) OBVIOUS
<1>1. PICK m : m = AppendAttrs(Nothing, r) OBVIOUS
<1>3. Len(s) \in Nat /\ DOMAIN s = 1 .. Len(s) OBVIOUS
<1>4. /\ r \in Seq(Attributes) /\ DOMAIN r = 1 .. Len(s)
      /\ \A i \in 1 .. Len(s) : Len(s) + 1 - i \in DOMAIN s /\ r[i] = s[Len(s) + 1 - i]
      /\ Elements(r) = Elements(s)
  BY Zenon, <1>2, Popped
<1>5. DOMAIN Nothing = {} BY Zenon DEF Nothing
<1>6. DOMAIN m = {a.key : a \in Elements(s)}
  <2>1. DOMAIN m = DOMAIN Nothing \cup {a.key : a \in Elements(r)} BY Zenon, <1>1, Kept
  <2>2. QED BY Zenon, <1>4, <1>5, <2>1
<1>7. ASSUME NEW k \in DOMAIN m
      PROVE  /\ m[k] \in Elements(s) /\ m[k].key = k
             /\ \A b \in Elements(s) : b.key = k => b = m[k] \/ Beats(list, m[k], b)
  <2>1. PICK a \in Elements(s) : a.key = k BY Zenon, <1>6
  <2>2. PICK l \in DOMAIN r : a = r[l]
    <3>1. a \in Elements(r) BY Zenon, <1>4
    <3>2. QED BY Zenon, <3>1, Unfolded
  <2>3. PICK i \in DOMAIN r : /\ r[i].key = k /\ m[k] = r[i]
                              /\ \A j \in DOMAIN r : r[j].key = k => j <= i
    <3>1. \E i : LastAt(r, r[l].key, i, AppendAttrs(Nothing, r)[r[l].key]) BY Zenon, <1>4, LastAppended
    <3>2. r[l].key = k BY Zenon, <2>1, <2>2
    <3>3. QED BY Zenon, <1>1, <3>1, <3>2 DEF LastAt
  <2>4. m[k] \in Elements(s) BY Zenon, <1>4, <2>3 DEF Elements
  <2>5. ASSUME NEW b \in Elements(s), b.key = k PROVE b = m[k] \/ Beats(list, m[k], b)
    <3>1. PICK j \in DOMAIN r : b = r[j]
      <4>1. b \in Elements(r) BY Zenon, <1>4
      <4>2. QED BY Zenon, <4>1, Unfolded
    <3>2. j <= i BY Zenon, <2>3, <2>5, <3>1
    <3>3. CASE j = i BY Zenon, <2>3, <3>1, <3>3
    <3>4. CASE j # i
      <4>1. Len(s) + 1 - i < Len(s) + 1 - j BY <1>3, <1>4, <3>2, <3>4
      <4>2. Beats(list, s[Len(s) + 1 - i], s[Len(s) + 1 - j]) BY Zenon, <1>4, <4>1 DEF Ordered
      <4>3. QED BY Zenon, <1>4, <2>3, <3>1, <4>2
    <3>5. QED BY Zenon, <3>3, <3>4
  <2>6. QED BY Zenon, <2>3, <2>4, <2>5
<1>8. QED BY Zenon, <1>1, <1>2, <1>6, <1>7 DEF Shows

LEMMA SeqFacts ==
  ASSUME NEW T, NEW s \in Seq(T)
  PROVE  /\ Len(s) \in Nat /\ DOMAIN s = 1 .. Len(s) /\ \A i \in DOMAIN s : s[i] \in T
         /\ \A i \in DOMAIN s : i \in Nat /\ i >= 1 /\ i <= Len(s)
OBVIOUS

LEMMA ListFacts ==
  ASSUME NEW s, Placed(s)
  PROVE  /\ Len(s) \in Nat /\ DOMAIN s = 1 .. Len(s) /\ \A i \in DOMAIN s : s[i] \in GoaTypes
         /\ \A i \in DOMAIN s : i \in Nat /\ i >= 1 /\ i <= Len(s)
<1>1. s \in Seq(GoaTypes) BY Zenon DEF Placed
<1>2. QED BY Zenon, <1>1, SeqFacts

\* The record's own attributes replace what was collected.
LEMMA OwnShow ==
  ASSUME NEW s, Placed(s), NEW o, OwnPlaced(s, o), NEW m, NEW S \in SUBSET Attributes, Shows(s, m, S),
         \A a \in S : a.at <= Len(s)
  PROVE  Shows(s, AppendAttrs(m, o), S \cup Elements(o))
<1>1. PICK t : t = AppendAttrs(m, o) OBVIOUS
<1>2. o \in Seq(Attributes) BY Zenon DEF OwnPlaced
<1>3. DOMAIN t = {a.key : a \in S \cup Elements(o)}
  <2>1. DOMAIN t = DOMAIN m \cup {a.key : a \in Elements(o)} BY Zenon, <1>1, Kept
  <2>2. DOMAIN m = {a.key : a \in S} BY Zenon DEF Shows
  <2>3. QED BY Zenon, <2>1, <2>2
<1>4. Len(s) \in Nat BY Zenon, ListFacts
<1>5. ASSUME NEW k \in DOMAIN t
      PROVE  /\ t[k] \in S \cup Elements(o) /\ t[k].key = k
             /\ \A b \in S \cup Elements(o) : b.key = k => b = t[k] \/ Beats(s, t[k], b)
  <2>1. CASE \E l \in DOMAIN o : o[l].key = k
    <3>1. PICK l \in DOMAIN o : o[l].key = k BY <2>1
    <3>2. \E i : LastAt(o, o[l].key, i, AppendAttrs(m, o)[o[l].key]) BY Zenon, <1>2, LastAppended
    <3>3. PICK i \in DOMAIN o : /\ o[i].key = k /\ t[k] = o[i]
                                  /\ \A j \in DOMAIN o : o[j].key = k => j <= i
      BY Zenon, <1>1, <3>1, <3>2 DEF LastAt
    <3>4. t[k] \in Elements(o) BY Zenon, <3>3 DEF Elements
    <3>5. t[k].at = Len(s) + 1 /\ t[k].nr = i BY Zenon, <3>3 DEF OwnPlaced
    <3>6. ASSUME NEW b \in S PROVE Beats(s, t[k], b)
      <4>1. b.at \in Nat /\ b.at <= Len(s) BY <3>6 DEF Attributes
      <4>2. t[k].at > b.at BY <1>4, <3>5, <4>1
      <4>3. QED BY Zenon, <4>2 DEF Beats
    <3>7. ASSUME NEW b \in Elements(o), b.key = k PROVE b = t[k] \/ Beats(s, t[k], b)
      <4>1. PICK j \in DOMAIN o : b = o[j] BY Zenon, Unfolded
      <4>2. j <= i /\ b.at = Len(s) + 1 /\ b.nr = j BY Zenon, <3>3, <3>7, <4>1 DEF OwnPlaced
      <4>3. CASE j = i BY Zenon, <3>3, <4>1, <4>3
      <4>4. CASE j # i
        <5>1. i > j /\ Len(s) + 1 > Len(s)
          BY <1>2, <1>4, <4>2, <4>4
        <5>2. QED BY Zenon, <3>5, <4>2, <5>1 DEF Beats
      <4>5. QED BY Zenon, <4>3, <4>4
    <3>8. QED BY Zenon, <3>3, <3>4, <3>6, <3>7
  <2>2. CASE \A l \in DOMAIN o : o[l].key # k
    <3>1. ASSUME NEW b \in Elements(o) PROVE b.key # k
      <4>1. PICK l \in DOMAIN o : b = o[l] BY Zenon, Unfolded
      <4>2. QED BY Zenon, <2>2, <4>1
    <3>2. k \in DOMAIN m BY Zenon, <1>3, <3>1 DEF Shows
    <3>3. t[k] = m[k] BY Zenon, <1>1, <2>2, <3>2, Kept
    <3>4. QED BY Zenon, <3>1, <3>2, <3>3 DEF Shows
  <2>3. QED BY Zenon, <2>1, <2>2
<1>6. QED BY Zenon, <1>1, <1>3, <1>5 DEF Shows

\* Attribute a is in the list, at its place.
InList(s, a) == a.at \in DOMAIN s /\ a.nr \in DOMAIN s[a.at].attrs /\ a = s[a.at].attrs[a.nr]

LEMMA SectionIs ==
  ASSUME NEW s, Placed(s), NEW h, NEW a
  PROVE  a \in Section(s, h) <=> InList(s, a) /\ a.at > h /\ \A i \in h + 1 .. a.at : s[i].group = NoGroup
<1>1. a \in UNION {Elements(s[i].attrs) : i \in DOMAIN s} <=> InList(s, a)
  <2>1. ASSUME a \in UNION {Elements(s[i].attrs) : i \in DOMAIN s} PROVE InList(s, a)
    <3>1. PICK i \in DOMAIN s : a \in Elements(s[i].attrs) BY Zenon, <2>1
    <3>2. PICK n \in DOMAIN s[i].attrs : a = s[i].attrs[n] BY Zenon, <3>1, Unfolded
    <3>3. a.at = i /\ a.nr = n BY Zenon, <3>2 DEF Placed
    <3>4. QED BY Zenon, <3>2, <3>3 DEF InList
  <2>2. ASSUME InList(s, a) PROVE a \in UNION {Elements(s[i].attrs) : i \in DOMAIN s}
    <3>1. a \in Elements(s[a.at].attrs) BY Zenon, <2>2 DEF InList, Elements
    <3>2. QED BY Zenon, <2>2, <3>1 DEF InList
  <2>3. QED BY Zenon, <2>1, <2>2
<1>2. QED BY Zenon, <1>1 DEF Section

LEMMA InListTypes ==
  ASSUME NEW s, Placed(s), NEW a, InList(s, a)
  PROVE  a \in Attributes /\ a.at \in 1 .. Len(s) /\ a.at \in Nat
<1>1. DOMAIN s = 1 .. Len(s) /\ \A i \in DOMAIN s : s[i] \in GoaTypes
  BY Zenon, ListFacts
<1>2. a.at \in 1 .. Len(s) /\ s[a.at] \in GoaTypes BY Zenon, <1>1 DEF InList
<1>3. s[a.at].attrs \in Seq(Attributes) BY Zenon, <1>2 DEF GoaTypes
<1>4. \A n \in DOMAIN s[a.at].attrs : s[a.at].attrs[n] \in Attributes BY <1>3
<1>5. \A i \in 1 .. Len(s) : i \in Nat BY Zenon, ListFacts
<1>6. QED BY Zenon, <1>2, <1>4, <1>5 DEF InList

LEMMA SectionTypes ==
  ASSUME NEW s, Placed(s), NEW h
  PROVE  /\ Section(s, h) \in SUBSET Attributes
         /\ \A a \in Section(s, h) : a.at <= Len(s) /\ a.at > h
<1>1. ASSUME NEW a \in Section(s, h) PROVE a \in Attributes /\ a.at <= Len(s) /\ a.at > h
  <2>1. InList(s, a) /\ a.at > h BY Zenon, SectionIs
  <2>2. a \in Attributes /\ a.at \in 1 .. Len(s) BY Zenon, <2>1, InListTypes
  <2>3. \A i \in 1 .. Len(s) : i <= Len(s) BY Zenon, ListFacts
  <2>4. QED BY Zenon, <2>1, <2>2, <2>3
<1>2. QED BY Zenon, <1>1

LEMMA Below ==
  ASSUME NEW r \in Nat
  PROVE  /\ (r - 1) + 1 = r /\ r > r - 1 /\ \A i \in r .. r : i = r
         /\ \A x \in Nat : x > r - 1 => r \in r .. x /\ (x = r \/ x > r)
         /\ \A x \in Nat : x > r => x > r - 1
         /\ \A x \in Nat : \A i \in r .. x : i = r \/ i \in r + 1 .. x
         /\ \A x \in Nat : \A i \in r + 1 .. x : i \in r .. x
OBVIOUS

\* Before a group nothing is waiting.
LEMMA SectionBeforeGroup ==
  ASSUME NEW s, Placed(s), NEW r \in Nat, r \in DOMAIN s, s[r].group # NoGroup
  PROVE  Section(s, r - 1) = {}
<1>1. ASSUME NEW a \in Section(s, r - 1) PROVE FALSE
  <2>1. InList(s, a) /\ a.at > r - 1 /\ \A i \in (r - 1) + 1 .. a.at : s[i].group = NoGroup
    BY Zenon, SectionIs
  <2>2. a.at \in 1 .. Len(s) BY Zenon, <2>1, InListTypes
  <2>3. a.at \in Nat BY Zenon, <2>1, InListTypes
  <2>4. r \in (r - 1) + 1 .. a.at BY Zenon, <2>1, <2>3, Below
  <2>5. QED BY Zenon, <2>1, <2>4
<1>2. QED BY Zenon, <1>1

\* Visiting attributes adds them to those waiting.
LEMMA SectionWithAttrs ==
  ASSUME NEW s, Placed(s), NEW r \in Nat, r \in DOMAIN s, s[r].group = NoGroup
  PROVE  Section(s, r - 1) = Section(s, r) \cup Elements(s[r].attrs)
<1>0. r \in Nat /\ r \in DOMAIN s OBVIOUS
<1>1. ASSUME NEW a \in Section(s, r - 1) PROVE a \in Section(s, r) \cup Elements(s[r].attrs)
  <2>1. InList(s, a) /\ a.at > r - 1 /\ \A i \in (r - 1) + 1 .. a.at : s[i].group = NoGroup
    BY Zenon, SectionIs
  <2>2. a.at \in 1 .. Len(s) BY Zenon, <2>1, InListTypes
  <2>3. CASE a.at = r BY Zenon, <2>1, <2>3 DEF InList, Elements
  <2>4. CASE a.at # r
    <3>1. a.at > r /\ \A i \in r + 1 .. a.at : i \in (r - 1) + 1 .. a.at
      <4>1. a.at \in Nat BY Zenon, <2>1, InListTypes
      <4>2. QED BY Zenon, <2>1, <2>4, <4>1, Below
    <3>2. a \in Section(s, r) BY Zenon, <2>1, <3>1, SectionIs
    <3>3. QED BY Zenon, <3>2
  <2>5. QED BY Zenon, <2>3, <2>4
<1>2. ASSUME NEW a \in Section(s, r) PROVE a \in Section(s, r - 1)
  <2>1. InList(s, a) /\ a.at > r /\ \A i \in r + 1 .. a.at : s[i].group = NoGroup
    BY Zenon, SectionIs
  <2>2. a.at \in 1 .. Len(s) BY Zenon, <2>1, InListTypes
  <2>3. a.at > r - 1 /\ \A i \in (r - 1) + 1 .. a.at : i = r \/ i \in r + 1 .. a.at
    <3>1. a.at \in Nat BY Zenon, <2>1, InListTypes
    <3>2. QED BY Zenon, <2>1, <3>1, Below
  <2>4. QED BY Zenon, <2>1, <2>3, SectionIs
<1>3. ASSUME NEW a \in Elements(s[r].attrs) PROVE a \in Section(s, r - 1)
  <2>1. PICK n \in DOMAIN s[r].attrs : a = s[r].attrs[n] BY Zenon, Unfolded
  <2>2. a.at = r /\ a.nr = n BY Zenon, <1>0, <2>1 DEF Placed
  <2>3. InList(s, a) BY Zenon, <1>0, <2>1, <2>2 DEF InList
  <2>4. r > r - 1 /\ \A i \in (r - 1) + 1 .. r : i = r BY Zenon, Below
  <2>5. QED BY Zenon, <2>2, <2>3, <2>4, SectionIs
<1>4. QED BY Zenon, <1>1, <1>2, <1>3

\* Beyond the last attributes there is no section.
LEMMA NothingBeyond ==
  ASSUME NEW s, Placed(s), NEW r \in Nat, \A i \in DOMAIN s : i > r => s[i].group # NoGroup,
         NEW h \in Nat, h >= r
  PROVE  Section(s, h) = {}
<1>1. ASSUME NEW a \in Section(s, h) PROVE FALSE
  <2>1. InList(s, a) /\ a.at > h /\ \A i \in h + 1 .. a.at : s[i].group = NoGroup BY Zenon, SectionIs
  <2>2. a.at \in DOMAIN s /\ a.at \in Nat BY Zenon, <2>1, InListTypes DEF InList
  <2>3. PICK x \in Nat : x = a.at BY Zenon, <2>2
  <2>4. x > h BY Zenon, <2>1, <2>3
  <2>5. x > r /\ x \in h + 1 .. x BY <2>4
  <2>6. QED BY Zenon, <2>1, <2>2, <2>3, <2>5
<1>2. QED BY Zenon, <1>1

LEMMA TrimmedIs ==
  ASSUME Placed(goas)
  PROVE  Trimmed \in 0 .. Len(goas) /\ \A i \in DOMAIN goas : i > Trimmed => goas[i].group # NoGroup
<1> DEFINE T == {n \in 0 .. Len(goas) : n = 0 \/ goas[n].group = NoGroup}
           Is(n) == /\ n = 0 \/ goas[n].group = NoGroup
                    /\ \A i \in n + 1 .. Len(goas) : goas[i].group # NoGroup
<1>1. Len(goas) \in Nat /\ DOMAIN goas = 1 .. Len(goas) BY Zenon, ListFacts
<1>2. T \in SUBSET (0 .. Len(goas)) BY Zenon
<1>3. 0 \in T
  <2>1. 0 \in 0 .. Len(goas) BY <1>1
  <2>2. QED BY Zenon, <2>1
<1> HIDE DEF T
<1>4. PICK x \in T : \A y \in T : y <= x BY Zenon, <1>1, <1>2, <1>3, Greatest
<1>5. x \in 0 .. Len(goas) /\ (x = 0 \/ goas[x].group = NoGroup) BY Zenon, <1>4 DEF T
<1>6. ASSUME NEW i \in x + 1 .. Len(goas), goas[i].group = NoGroup PROVE FALSE
  <2>1. i \in 0 .. Len(goas) /\ ~(i <= x) BY <1>1, <1>5
  <2>2. i \in T BY Zenon, <1>6, <2>1 DEF T
  <2>3. QED BY Zenon, <1>4, <2>1, <2>2
<1>7. Is(x) BY Zenon, <1>5, <1>6
<1> HIDE DEF Is
<1>8. PICK n : n = Trimmed OBVIOUS
<1>9. n = CHOOSE m \in 0 .. Len(goas) : Is(m) BY Zenon, <1>8 DEF Trimmed, Is
<1>10. n \in 0 .. Len(goas) /\ Is(n) BY Zenon, <1>5, <1>7, <1>9
<1>11. ASSUME NEW i \in DOMAIN goas, i > n PROVE goas[i].group # NoGroup
  <2>1. i \in n + 1 .. Len(goas) BY <1>1, <1>10, <1>11
  <2>2. QED BY Zenon, <1>10, <2>1 DEF Is
<1>12. QED BY Zenon, <1>8, <1>10, <1>11

\* The attributes l are those of element i, numbered.
IsListed(l, i) == l \in Seq(Attributes) /\ \A n \in DOMAIN l : l[n].at = i /\ l[n].nr = n

LEMMA ListedIs ==
  ASSUME NEW keys \in Seq(Attrs \cup {SourceKey}), NEW i \in Nat
  PROVE  IsListed(Listed(keys, i), i)
<1>1. /\ Len(keys) \in Nat /\ DOMAIN keys = 1 .. Len(keys) /\ \A n \in DOMAIN keys : keys[n] \in Attrs \cup {SourceKey}
      /\ \A n \in DOMAIN keys : n \in Nat
  BY Zenon, SeqFacts
<1>2. \A n \in DOMAIN keys : Attr(keys[n], i, n) \in Attributes BY <1>1 DEF Attr, Attributes
<1>3. PICK l : l = Listed(keys, i) OBVIOUS
<1>4. l \in [1 .. Len(keys) -> Attributes] BY Zenon, <1>1, <1>2, <1>3 DEF Listed
<1>5. l \in Seq(Attributes) BY <1>1, <1>4
<1>6. \A n \in DOMAIN l : l[n] = Attr(keys[n], i, n) BY Zenon, <1>3 DEF Listed
<1>7. \A n \in DOMAIN l : l[n].at = i /\ l[n].nr = n BY <1>6 DEF Attr
<1>8. IsListed(l, i) BY Zenon, <1>5, <1>7 DEF IsListed
<1>9. QED BY Zenon, <1>3, <1>8

LEMMA WithSource ==
  ASSUME NEW keys \in Seq(Attrs), NEW source \in {<<>>, <<SourceKey>>}
  PROVE  source \o keys \in Seq(Attrs \cup {SourceKey})
<1>1. keys \in Seq(Attrs \cup {SourceKey}) OBVIOUS
<1>2. \A T, k : k \in T => <<k>> \in Seq(T) OBVIOUS
<1>3. <<SourceKey>> \in Seq(Attrs \cup {SourceKey}) BY Zenon, <1>2
<1>4. <<>> \in Seq(Attrs \cup {SourceKey}) OBVIOUS
<1>5. source \in Seq(Attrs \cup {SourceKey}) BY Zenon, <1>3, <1>4
<1>6. QED BY <1>1, <1>5

LEMMA NoOwn == \A s : OwnPlaced(s, <<>>)
<1>1. <<>> \in Seq(Attributes) /\ \A n \in DOMAIN <<>> : FALSE OBVIOUS
<1>2. QED BY Zenon, <1>1 DEF OwnPlaced

LEMMA NothingDomain == DOMAIN Nothing = {}
BY Zenon DEF Nothing

\* t is s with a and b after it.
WithTwo(T, t, s, a, b) ==
  /\ t \in Seq(T) /\ DOMAIN t = 1 .. Len(s) + 2
  /\ \A i \in 1 .. Len(s) : t[i] = s[i]
  /\ t[Len(s) + 1] = a /\ t[Len(s) + 2] = b

LEMMA TwoMore ==
  ASSUME NEW T, NEW s \in Seq(T), NEW a \in T, NEW b \in T
  PROVE  WithTwo(T, s \o <<a, b>>, s, a, b)
<1>1. <<a, b>> \in Seq(T) /\ Len(<<a, b>>) = 2 OBVIOUS
<1>2. PICK t : t = s \o <<a, b>> BY Zenon
<1>3. Len(s) \in Nat /\ DOMAIN s = 1 .. Len(s) OBVIOUS
<1>4. t \in Seq(T) /\ Len(t) = Len(s) + 2 BY <1>1, <1>2
<1>5. \A i \in 1 .. Len(s) : t[i] = s[i] BY <1>1, <1>2, <1>3
<1>6. t[Len(s) + 1] = a /\ t[Len(s) + 2] = b BY <1>1, <1>2, <1>3
<1>7. DOMAIN t = 1 .. Len(s) + 2 BY <1>4
<1>8. QED BY Zenon, <1>2, <1>4, <1>5, <1>6, <1>7 DEF WithTwo

\* A list grows by two elements.
LEMMA Longer ==
  ASSUME NEW s, Placed(s), NEW x \in GoaTypes,
         x.group # NoGroup => x.attrs = <<>>,
         \A n \in DOMAIN x.attrs : x.attrs[n].at = Len(s) + 2 /\ x.attrs[n].nr = n
  PROVE  Placed(s \o <<Hole, x>>)
<1>1. PICK t : t = s \o <<Hole, x>> BY Zenon
<1>2. s \in Seq(GoaTypes) /\ Len(s) \in Nat BY Zenon, ListFacts DEF Placed
<1>3. Hole \in GoaTypes BY DEF Hole, GoaTypes
<1>6. /\ t \in Seq(GoaTypes) /\ DOMAIN t = 1 .. Len(s) + 2
      /\ \A i \in 1 .. Len(s) : t[i] = s[i]
      /\ t[Len(s) + 1] = Hole /\ t[Len(s) + 2] = x
  <2>1. WithTwo(GoaTypes, s \o <<Hole, x>>, s, Hole, x) BY Zenon, <1>2, <1>3, TwoMore
  <2>2. WithTwo(GoaTypes, t, s, Hole, x) BY Zenon, <1>1, <2>1
  <2>3. QED BY Zenon, <2>2 DEF WithTwo
<1>7. Hole.group = NoGroup /\ \A n \in DOMAIN Hole.attrs : FALSE BY DEF Hole
<1>8. \A i \in 1 .. Len(s) + 2 : i \in 1 .. Len(s) \/ i = Len(s) + 1 \/ i = Len(s) + 2 BY <1>2
<1>9. DOMAIN s = 1 .. Len(s) BY Zenon, ListFacts
<1>10. ASSUME NEW i \in DOMAIN t
       PROVE  /\ t[i].group # NoGroup => t[i].attrs = <<>>
              /\ \A n \in DOMAIN t[i].attrs : t[i].attrs[n].at = i /\ t[i].attrs[n].nr = n
  <2>1. CASE i \in 1 .. Len(s)
    <3>1. t[i] = s[i] /\ i \in DOMAIN s BY Zenon, <1>6, <1>9, <2>1
    <3>2. /\ s[i].group # NoGroup => s[i].attrs = <<>>
          /\ \A n \in DOMAIN s[i].attrs : s[i].attrs[n].at = i /\ s[i].attrs[n].nr = n
      BY Zenon, <3>1 DEF Placed
    <3>3. QED BY Zenon, <3>1, <3>2
  <2>2. CASE i = Len(s) + 1 BY Zenon, <1>6, <1>7, <2>2
  <2>3. CASE i = Len(s) + 2 BY Zenon, <1>6, <2>3
  <2>4. QED BY Zenon, <1>6, <1>8, <2>1, <2>2, <2>3
<1>11. QED BY Zenon, <1>1, <1>6, <1>10 DEF Placed

LEMMA DerivedStep ==
  ASSUME RecordInv, NEW x \in GoaTypes, Derived(x),
         x.group # NoGroup => x.attrs = <<>>,
         \A n \in DOMAIN x.attrs : x.attrs[n].at = Len(goas) + 2 /\ x.attrs[n].nr = n
  PROVE  RecordInv'
<1>1. goas' = goas \o <<Hole, x>> /\ own' = <<>> /\ handling' = "idle" BY Zenon DEF Derived
<1>2. Placed(goas) BY Zenon DEF RecordInv
<1>3. Placed(goas \o <<Hole, x>>) BY Zenon, <1>2, Longer
<1>4. Placed(goas') BY Zenon, <1>1, <1>3
<1>5. OwnPlaced(goas', own') BY Zenon, <1>1, NoOwn
<1>6. handling' # "walking" /\ handling' # "logged" BY <1>1
<1>7. QED BY Zenon, <1>4, <1>5, <1>6 DEF RecordInv, DataAsCollected

LEMMA HandleRecordStep ==
  ASSUME RecordInv, NEW keys \in AttrLists \cup {<<>>}, NEW source \in {<<>>, <<SourceKey>>},
         HandleRecord(keys, source)
  PROVE  RecordInv'
<1>1. /\ goas' = goas /\ own' = Listed(source \o keys, Len(goas) + 1) /\ handling' = "walking"
      /\ stack' = <<>> /\ grouped' = Nothing
      /\ rest' = IF keys = <<>> THEN Trimmed ELSE Len(goas)
  BY Zenon DEF HandleRecord
<1>2. Placed(goas) BY Zenon DEF RecordInv
<1>3. Len(goas) \in Nat /\ \A i \in DOMAIN goas : i \in Nat /\ i <= Len(goas) BY Zenon, <1>2, ListFacts
<1>4. source \o keys \in Seq(Attrs \cup {SourceKey})
  <2>1. <<>> \in Seq(Attrs) OBVIOUS
  <2>2. keys \in Seq(Attrs) BY Zenon, <2>1, RecordAssumption
  <2>3. QED BY Zenon, <2>2, WithSource
<1>5. OwnPlaced(goas', own')
  <2>1. Len(goas) + 1 \in Nat BY <1>3
  <2>2. IsListed(Listed(source \o keys, Len(goas) + 1), Len(goas) + 1) BY Zenon, <1>4, <2>1, ListedIs
  <2>3. IsListed(own', Len(goas) + 1) BY Zenon, <1>1, <2>2
  <2>4. QED BY Zenon, <1>1, <2>3 DEF OwnPlaced, IsListed
<1>6. rest' \in 0 .. Len(goas) /\ \A i \in DOMAIN goas : i > rest' => goas[i].group # NoGroup
  <2>1. CASE keys = <<>> BY Zenon, <1>1, <1>2, <2>1, TrimmedIs
  <2>2. CASE keys # <<>>
    <3>1. rest' = Len(goas) BY Zenon, <1>1, <2>2
    <3>2. Len(goas) \in 0 .. Len(goas) /\ \A i \in DOMAIN goas : ~(i > Len(goas)) BY <1>3
    <3>3. QED BY Zenon, <3>1, <3>2
  <2>3. QED BY Zenon, <2>1, <2>2
<1>7. PICK r \in Nat : r = rest' BY <1>3, <1>6
<1>8. r \in 0 .. Len(goas) /\ \A i \in DOMAIN goas : i > r => goas[i].group # NoGroup BY Zenon, <1>6, <1>7
<1>9. \A h \in Nat : h >= r => Section(goas, h) = {} BY Zenon, <1>2, <1>8, NothingBeyond
<1>10. Waiting(goas, r, <<>>)
  <2>1. <<>> \in Seq(Attributes) /\ DOMAIN <<>> = {} OBVIOUS
  <2>2. Elements(<<>>) = {} BY Zenon, <2>1 DEF Elements
  <2>3. r >= r BY <1>7
  <2>4. QED BY Zenon, <1>9, <2>1, <2>2, <2>3 DEF Waiting, Ordered
<1>11. Visited(goas, r, Nothing)
  <2>1. \A h \in DOMAIN goas : h > r => h \in Nat /\ h >= r BY <1>3
  <2>2. QED BY Zenon, <1>9, <2>1, NothingDomain DEF Visited
<1>12. handling' # "logged" BY <1>1
<1>13. QED BY Zenon, <1>1, <1>2, <1>5, <1>7, <1>8, <1>10, <1>11, <1>12 DEF RecordInv, DataAsCollected

\* A group takes what waits.
LEMMA VisitGroupStep ==
  ASSUME RecordInv, VisitGroup
  PROVE  RecordInv'
<1>1. PICK r \in Nat : r = rest /\ r > 0 /\ r \in 0 .. Len(goas)
  <2>1. rest \in 0 .. Len(goas) /\ rest > 0 BY Zenon DEF RecordInv, VisitGroup
  <2>2. Len(goas) \in Nat BY Zenon, ListFacts DEF RecordInv
  <2>3. rest \in Nat BY <2>1, <2>2
  <2>4. QED BY Zenon, <2>1, <2>3
<1>2. /\ goas' = goas /\ own' = own /\ handling' = "walking" /\ rest' = r - 1 /\ stack' = <<>>
      /\ goas[r].group # NoGroup
      /\ grouped' = [g \in DOMAIN grouped \cup {goas[r].group} |->
           IF g = goas[r].group THEN AppendAttrs(Nothing, PopByLength(stack)) ELSE grouped[g]]
  BY Zenon, <1>1 DEF VisitGroup
<1>3. /\ Placed(goas) /\ OwnPlaced(goas, own)
      /\ Waiting(goas, r, stack) /\ Visited(goas, r, grouped)
  BY Zenon, <1>1 DEF RecordInv, VisitGroup
<1>4. Len(goas) \in Nat /\ DOMAIN goas = 1 .. Len(goas) /\ \A i \in DOMAIN goas : i \in Nat
  BY Zenon, <1>3, ListFacts
<1>5. r \in DOMAIN goas BY <1>1, <1>4
<1>6. /\ r - 1 \in 0 .. Len(goas) /\ (r - 1) + 1 = r /\ r > r - 1
      /\ \A h \in Nat : h > r - 1 => h = r \/ h > r
      /\ \A h \in Nat : h > r => h > r - 1
  BY <1>1, <1>4
<1>7. Waiting(goas, r - 1, <<>>)
  <2>1. <<>> \in Seq(Attributes) /\ DOMAIN <<>> = {} OBVIOUS
  <2>2. Elements(<<>>) = {} BY Zenon, <2>1 DEF Elements
  <2>3. Section(goas, r - 1) = {} BY Zenon, <1>2, <1>3, <1>5, SectionBeforeGroup
  <2>4. QED BY Zenon, <2>1, <2>2, <2>3 DEF Waiting, Ordered
<1>8. PICK m : m = AppendAttrs(Nothing, PopByLength(stack)) OBVIOUS
<1>9. Shows(goas, m, Section(goas, r))
  <2>1. Shows(goas, AppendAttrs(Nothing, PopByLength(stack)), Elements(stack))
    BY Zenon, <1>3, Emptied DEF Waiting
  <2>2. QED BY Zenon, <1>3, <1>8, <2>1 DEF Waiting
<1>10. PICK w : w = grouped' OBVIOUS
<1>11. /\ DOMAIN w = DOMAIN grouped \cup {goas[r].group}
       /\ w[goas[r].group] = m
       /\ \A g \in DOMAIN grouped : g # goas[r].group => w[g] = grouped[g]
  BY Zenon, <1>2, <1>8, <1>10
<1>12. Visited(goas, r - 1, w)
  <2>1. ASSUME NEW h \in DOMAIN goas, h > r - 1, goas[h].group # NoGroup, Section(goas, h) # {}
        PROVE  goas[h].group \in DOMAIN w
    <3>1. CASE h = r BY Zenon, <1>11, <3>1
    <3>2. CASE h > r BY Zenon, <1>3, <1>11, <2>1, <3>2 DEF Visited
    <3>3. QED BY Zenon, <1>4, <1>6, <2>1, <3>1, <3>2
  <2>2. ASSUME NEW g \in DOMAIN w
        PROVE  \E h \in DOMAIN goas : /\ h > r - 1 /\ FirstFrom(goas, (r - 1) + 1, h)
                                      /\ goas[h].group = g /\ Shows(goas, w[g], Section(goas, h))
    <3>1. CASE g = goas[r].group
      <4>1. \A i \in r .. r - 1 : FALSE BY <1>1
      <4>2. FirstFrom(goas, (r - 1) + 1, r) BY Zenon, <1>2, <1>6, <4>1 DEF FirstFrom
      <4>3. QED BY Zenon, <1>5, <1>6, <1>9, <1>11, <3>1, <4>2
    <3>2. CASE g # goas[r].group
      <4>1. g \in DOMAIN grouped /\ w[g] = grouped[g] BY Zenon, <1>11, <3>2
      <4>2. PICK h \in DOMAIN goas : /\ h > r /\ FirstFrom(goas, r + 1, h)
                                     /\ goas[h].group = g /\ Shows(goas, grouped[g], Section(goas, h))
        BY Zenon, <1>3, <4>1 DEF Visited
      <4>3. \A i \in r .. h - 1 : i = r \/ i \in r + 1 .. h - 1 BY <1>1, <1>4
      <4>4. FirstFrom(goas, r, h) BY Zenon, <3>2, <4>2, <4>3 DEF FirstFrom
      <4>5. QED BY Zenon, <1>4, <1>6, <4>1, <4>2, <4>4
    <3>3. QED BY Zenon, <3>1, <3>2
  <2>3. QED BY Zenon, <2>1, <2>2 DEF Visited
<1>13. handling' # "logged" BY <1>2
<1>14. QED BY Zenon, <1>2, <1>3, <1>6, <1>7, <1>10, <1>12, <1>13 DEF RecordInv, DataAsCollected

\* v is s and then u.
IsJoined(T, v, s, u) ==
  /\ v \in Seq(T) /\ Len(s) \in Nat /\ Len(u) \in Nat
  /\ DOMAIN v = 1 .. Len(s) + Len(u)
  /\ \A i \in 1 .. Len(s) : i \in DOMAIN s /\ v[i] = s[i]
  /\ \A i \in 1 .. Len(u) : i \in DOMAIN u /\ v[Len(s) + i] = u[i]
  /\ \A i \in 1 .. Len(s) + Len(u) :
       i \in 1 .. Len(s) \/ \E j \in 1 .. Len(u) : i = Len(s) + j

LEMMA Join ==
  ASSUME NEW T, NEW s \in Seq(T), NEW u \in Seq(T)
  PROVE  IsJoined(T, s \o u, s, u)
<1>1. PICK t : t = s \o u BY Zenon
<1>2. /\ Len(s) \in Nat /\ DOMAIN s = 1 .. Len(s)
      /\ Len(u) \in Nat /\ DOMAIN u = 1 .. Len(u) OBVIOUS
<1>3. t \in Seq(T) /\ Len(t) = Len(s) + Len(u) BY <1>1
<1>4. DOMAIN t = 1 .. Len(s) + Len(u) BY <1>3
<1>5. \A i \in 1 .. Len(s) : t[i] = s[i] BY <1>1, <1>2
<1>6. \A i \in 1 .. Len(u) : t[Len(s) + i] = u[i] BY <1>1, <1>2
<1>7. ASSUME NEW i \in 1 .. Len(s) + Len(u), ~(i \in 1 .. Len(s)) PROVE \E j \in 1 .. Len(u) : i = Len(s) + j
  <2>1. i - Len(s) \in 1 .. Len(u) /\ i = Len(s) + (i - Len(s)) BY <1>2, <1>7
  <2>2. QED BY Zenon, <2>1
<1>8. QED BY Zenon, <1>1, <1>2, <1>3, <1>4, <1>5, <1>6, <1>7 DEF IsJoined

\* Attributes of element r are pushed on what waits after it.
LEMMA Pushed ==
  ASSUME NEW s, Placed(s), NEW r \in Nat, r \in DOMAIN s, s[r].group = NoGroup,
         NEW t, Waiting(s, r, t)
  PROVE  Waiting(s, r - 1, t \o s[r].attrs)
<1>1. PICK u : u = s[r].attrs OBVIOUS
<1>2. u \in Seq(Attributes)
  <2>1. s[r] \in GoaTypes BY Zenon, ListFacts
  <2>2. QED BY Zenon, <1>1, <2>1 DEF GoaTypes
<1>3. t \in Seq(Attributes) BY Zenon DEF Waiting
<1>4. PICK v : v = t \o u BY Zenon
<1>5. /\ v \in Seq(Attributes) /\ Len(t) \in Nat /\ Len(u) \in Nat
      /\ DOMAIN v = 1 .. Len(t) + Len(u)
      /\ \A i \in 1 .. Len(t) : i \in DOMAIN t /\ v[i] = t[i]
      /\ \A i \in 1 .. Len(u) : i \in DOMAIN u /\ v[Len(t) + i] = u[i]
      /\ \A i \in 1 .. Len(t) + Len(u) :
           i \in 1 .. Len(t) \/ \E j \in 1 .. Len(u) : i = Len(t) + j
  <2>1. IsJoined(Attributes, t \o u, t, u) BY Zenon, <1>2, <1>3, Join
  <2>2. IsJoined(Attributes, v, t, u) BY Zenon, <1>4, <2>1
  <2>3. QED BY Zenon, <2>2 DEF IsJoined
<1>6. DOMAIN t = 1 .. Len(t) /\ DOMAIN u = 1 .. Len(u) BY Zenon, <1>2, <1>3, SeqFacts
<1>7. \A i \in 1 .. Len(t) : i \in 1 .. Len(t) + Len(u) BY <1>5
<1>8. \A i \in 1 .. Len(u) : Len(t) + i \in 1 .. Len(t) + Len(u) BY <1>5
<1>9. Elements(v) = Elements(t) \cup Elements(u)
  <2>1. ASSUME NEW a \in Elements(v) PROVE a \in Elements(t) \cup Elements(u)
    <3>1. PICK i \in DOMAIN v : a = v[i] BY Zenon, Unfolded
    <3>2. CASE i \in 1 .. Len(t) BY Zenon, <1>5, <3>1, <3>2 DEF Elements
    <3>3. CASE \E j \in 1 .. Len(u) : i = Len(t) + j BY Zenon, <1>5, <3>1, <3>3 DEF Elements
    <3>4. QED BY Zenon, <1>5, <3>1, <3>2, <3>3
  <2>2. ASSUME NEW a \in Elements(t) PROVE a \in Elements(v)
    <3>1. PICK i \in DOMAIN t : a = t[i] BY Zenon, Unfolded
    <3>2. QED BY Zenon, <1>5, <1>6, <1>7, <3>1 DEF Elements
  <2>3. ASSUME NEW a \in Elements(u) PROVE a \in Elements(v)
    <3>1. PICK i \in DOMAIN u : a = u[i] BY Zenon, Unfolded
    <3>2. QED BY Zenon, <1>5, <1>6, <1>8, <3>1 DEF Elements
  <2>4. QED BY Zenon, <2>1, <2>2, <2>3
<1>10. Elements(v) = Section(s, r - 1)
  <2>1. Section(s, r - 1) = Section(s, r) \cup Elements(s[r].attrs) BY Zenon, SectionWithAttrs
  <2>2. QED BY Zenon, <1>1, <1>9, <2>1 DEF Waiting
<1>11. \A n \in DOMAIN u : u[n].at = r /\ u[n].nr = n BY Zenon, <1>1 DEF Placed
<1>12. r <= Len(s) /\ Len(s) \in Nat BY Zenon, ListFacts
<1>13. ASSUME NEW i \in DOMAIN v, NEW j \in DOMAIN v, i < j PROVE Beats(s, v[i], v[j])
  <2>1. CASE i \in 1 .. Len(t) /\ j \in 1 .. Len(t)
    <3>1. Beats(s, t[i], t[j]) BY Zenon, <1>5, <1>13, <2>1 DEF Waiting, Ordered
    <3>2. v[i] = t[i] /\ v[j] = t[j] BY Zenon, <1>5, <2>1
    <3>3. QED BY Zenon, <3>1, <3>2
  <2>2. CASE i \in 1 .. Len(t) /\ \E l \in 1 .. Len(u) : j = Len(t) + l
    <3>1. PICK l \in 1 .. Len(u) : j = Len(t) + l BY Zenon, <2>2
    <3>2. v[i] = t[i] /\ i \in DOMAIN t /\ v[j] = u[l] /\ l \in DOMAIN u BY Zenon, <1>5, <2>2, <3>1
    <3>3. t[i] \in Section(s, r) BY Zenon, <3>2 DEF Waiting, Elements
    <3>4. v[i].at > r BY Zenon, <3>2, <3>3, SectionTypes
    <3>5. v[j].at = r BY Zenon, <1>11, <3>2
    <3>6. QED BY Zenon, <3>4, <3>5 DEF Beats
  <2>3. CASE \E l \in 1 .. Len(u) : i = Len(t) + l
    <3>1. PICK l \in 1 .. Len(u) : i = Len(t) + l BY Zenon, <2>3
    <3>2. ~(j \in 1 .. Len(t)) BY <1>5, <1>13, <3>1
    <3>3. PICK k \in 1 .. Len(u) : j = Len(t) + k BY Zenon, <1>5, <3>2
    <3>4. l < k BY <1>5, <1>13, <3>1, <3>3
    <3>5. v[i].at = r /\ v[i].nr = l /\ v[j].at = r /\ v[j].nr = k
      <4>1. v[i] = u[l] /\ l \in DOMAIN u BY Zenon, <1>5, <3>1
      <4>2. v[j] = u[k] /\ k \in DOMAIN u BY Zenon, <1>5, <3>3
      <4>3. QED BY Zenon, <1>11, <4>1, <4>2
    <3>6. ~(r > Len(s)) BY <1>12
    <3>7. QED BY Zenon, <3>4, <3>5, <3>6 DEF Beats
  <2>4. QED BY Zenon, <1>5, <2>1, <2>2, <2>3
<1>14. QED BY Zenon, <1>1, <1>4, <1>5, <1>10, <1>13 DEF Waiting, Ordered

LEMMA VisitAttrsStep ==
  ASSUME RecordInv, VisitAttrs
  PROVE  RecordInv'
<1>1. PICK r \in Nat : r = rest /\ r > 0 /\ r \in 0 .. Len(goas)
  <2>1. rest \in 0 .. Len(goas) /\ rest > 0 BY Zenon DEF RecordInv, VisitAttrs
  <2>2. Len(goas) \in Nat BY Zenon, ListFacts DEF RecordInv
  <2>3. rest \in Nat BY <2>1, <2>2
  <2>4. QED BY Zenon, <2>1, <2>3
<1>2. /\ goas' = goas /\ own' = own /\ handling' = "walking" /\ rest' = r - 1
      /\ stack' = stack \o goas[r].attrs /\ goas[r].group = NoGroup /\ grouped' = grouped
  BY Zenon, <1>1 DEF VisitAttrs
<1>3. /\ Placed(goas) /\ OwnPlaced(goas, own)
      /\ Waiting(goas, r, stack) /\ Visited(goas, r, grouped)
  BY Zenon, <1>1 DEF RecordInv, VisitAttrs
<1>4. Len(goas) \in Nat /\ DOMAIN goas = 1 .. Len(goas) /\ \A i \in DOMAIN goas : i \in Nat
  BY Zenon, <1>3, ListFacts
<1>5. r \in DOMAIN goas BY <1>1, <1>4
<1>6. /\ r - 1 \in 0 .. Len(goas) /\ (r - 1) + 1 = r
      /\ \A h \in Nat : h > r - 1 => h = r \/ h > r
      /\ \A h \in Nat : h > r => h > r - 1
  BY <1>1, <1>4
<1>7. Waiting(goas, r - 1, stack \o goas[r].attrs) BY Zenon, <1>2, <1>3, <1>5, Pushed
<1>8. Visited(goas, r - 1, grouped)
  <2>1. ASSUME NEW h \in DOMAIN goas, h > r - 1, goas[h].group # NoGroup, Section(goas, h) # {}
        PROVE  goas[h].group \in DOMAIN grouped
    BY Zenon, <1>2, <1>3, <1>4, <1>6, <2>1 DEF Visited
  <2>2. ASSUME NEW g \in DOMAIN grouped
        PROVE  \E h \in DOMAIN goas : /\ h > r - 1 /\ FirstFrom(goas, (r - 1) + 1, h)
                                      /\ goas[h].group = g /\ Shows(goas, grouped[g], Section(goas, h))
    <3>1. PICK h \in DOMAIN goas : /\ h > r /\ FirstFrom(goas, r + 1, h)
                                   /\ goas[h].group = g /\ Shows(goas, grouped[g], Section(goas, h))
      BY Zenon, <1>3 DEF Visited
    <3>2. \A i \in r .. h - 1 : i = r \/ i \in r + 1 .. h - 1 BY <1>1, <1>4
    <3>3. FirstFrom(goas, r, h) BY Zenon, <1>2, <3>1, <3>2 DEF FirstFrom
    <3>4. QED BY Zenon, <1>4, <1>6, <3>1, <3>3
  <2>3. QED BY Zenon, <2>1, <2>2 DEF Visited
<1>9. handling' # "logged" BY <1>2
<1>10. QED BY Zenon, <1>2, <1>3, <1>6, <1>7, <1>8, <1>9 DEF RecordInv, DataAsCollected

LEMMA FinishStep ==
  ASSUME RecordInv, FinishRecord
  PROVE  RecordInv'
<1>1. /\ goas' = goas /\ own' = own /\ handling' = "logged" /\ grouped' = grouped
      /\ plain' = AppendAttrs(AppendAttrs(Nothing, PopByLength(stack)), own)
  BY Zenon DEF FinishRecord
<1>2. /\ Placed(goas) /\ OwnPlaced(goas, own)
      /\ Waiting(goas, 0, stack) /\ Visited(goas, 0, grouped)
  BY Zenon DEF RecordInv, FinishRecord
<1>3. PICK m : m = AppendAttrs(Nothing, PopByLength(stack)) OBVIOUS
<1>4. Shows(goas, m, Section(goas, 0))
  <2>1. Shows(goas, AppendAttrs(Nothing, PopByLength(stack)), Elements(stack))
    BY Zenon, <1>2, Emptied DEF Waiting
  <2>2. QED BY Zenon, <1>2, <1>3, <2>1 DEF Waiting
<1>5. Shows(goas, AppendAttrs(m, own), Section(goas, 0) \cup Elements(own))
  BY Zenon, <1>2, <1>4, OwnShow, SectionTypes
<1>6. \A h \in DOMAIN goas : h > 0
  <2>1. \A h \in DOMAIN goas : h \in Nat /\ h >= 1 BY Zenon, <1>2, ListFacts
  <2>2. QED BY <2>1
<1>7. \A h \in DOMAIN goas : goas[h].group # NoGroup /\ Section(goas, h) # {} =>
        goas[h].group \in DOMAIN grouped
  BY Zenon, <1>2, <1>6 DEF Visited
<1>8. 0 + 1 = 1 OBVIOUS
<1>9. \A g \in DOMAIN grouped : \E h \in DOMAIN goas :
        FirstFrom(goas, 1, h) /\ goas[h].group = g /\ Shows(goas, grouped[g], Section(goas, h))
  BY Zenon, <1>2, <1>8 DEF Visited
<1>10. handling' # "walking" BY <1>1
<1>11. DataAsCollected' BY Zenon, <1>1, <1>3, <1>5, <1>7, <1>9 DEF DataAsCollected
<1>12. QED BY Zenon, <1>1, <1>2, <1>10, <1>11 DEF RecordInv

LEMMA RecordStep == RecordInv /\ [RecordNext]_recordVars => RecordInv'
<1> SUFFICES ASSUME RecordInv, [RecordNext]_recordVars PROVE RecordInv' OBVIOUS
<1>1. ASSUME NEW g \in Groups, DeriveGroup(g) PROVE RecordInv'
  <2>1. PICK x : x = WithGroup(g) OBVIOUS
  <2>2. x.group = g /\ x.attrs = <<>> /\ x \in GoaTypes BY <2>1 DEF WithGroup, GoaTypes
  <2>3. \A n \in DOMAIN x.attrs : FALSE BY <2>2
  <2>4. Derived(x) BY Zenon, <1>1, <2>1 DEF DeriveGroup
  <2>5. QED BY Zenon, <2>2, <2>3, <2>4, DerivedStep
<1>2. ASSUME NEW keys \in AttrLists, DeriveAttrs(keys) PROVE RecordInv'
  <2>1. PICK l : l = Listed(keys, Len(goas) + 2) OBVIOUS
  <2>2. PICK x : x = WithAttrs(l) OBVIOUS
  <2>3. Len(goas) + 2 \in Nat
    <3>1. Len(goas) \in Nat BY Zenon, ListFacts DEF RecordInv
    <3>2. QED BY <3>1
  <2>4. keys \in Seq(Attrs \cup {SourceKey})
    <3>1. keys \in Seq(Attrs) BY Zenon, RecordAssumption
    <3>2. QED BY <3>1
  <2>5. l \in Seq(Attributes) /\ \A n \in DOMAIN l : l[n].at = Len(goas) + 2 /\ l[n].nr = n
    <3>1. IsListed(Listed(keys, Len(goas) + 2), Len(goas) + 2) BY Zenon, <2>3, <2>4, ListedIs
    <3>2. IsListed(l, Len(goas) + 2) BY Zenon, <2>1, <3>1
    <3>3. QED BY Zenon, <3>2 DEF IsListed
  <2>6. x.group = NoGroup /\ x.attrs = l /\ x \in GoaTypes BY <2>2, <2>5 DEF WithAttrs, GoaTypes
  <2>7. \A n \in DOMAIN x.attrs : x.attrs[n].at = Len(goas) + 2 /\ x.attrs[n].nr = n
    BY Zenon, <2>5, <2>6
  <2>8. Derived(x) BY Zenon, <1>2, <2>1, <2>2 DEF DeriveAttrs
  <2>9. QED BY Zenon, <2>6, <2>7, <2>8, DerivedStep
<1>3. ASSUME NEW keys \in AttrLists \cup {<<>>}, NEW source \in {<<>>, <<SourceKey>>},
             HandleRecord(keys, source)
      PROVE  RecordInv'
  BY Zenon, <1>3, HandleRecordStep
<1>4. CASE UNCHANGED recordVars
  BY Zenon, <1>4 DEF recordVars, RecordInv, DataAsCollected
<1>5. QED BY Zenon, <1>1, <1>2, <1>3, <1>4, VisitGroupStep, VisitAttrsStep, FinishStep DEF RecordNext

LEMMA RecordInitial == RecordInit => RecordInv
<1> SUFFICES ASSUME RecordInit PROVE RecordInv OBVIOUS
<1>1. goas = <<>> /\ own = <<>> /\ handling = "idle" BY Zenon DEF RecordInit
<1>2. <<>> \in Seq(GoaTypes) /\ \A i \in DOMAIN <<>> : FALSE OBVIOUS
<1>3. Placed(<<>>) BY Zenon, <1>2 DEF Placed
<1>4. handling # "walking" /\ handling # "logged" BY <1>1
<1>5. QED BY Zenon, <1>1, <1>3, <1>4, NoOwn DEF RecordInv, DataAsCollected

THEOREM RecordInductive == RecordSpec => []RecordInv
BY RecordInitial, RecordStep, PTL DEF RecordSpec

\* Every attribute collected shows where it belongs.
THEOREM ArrangedAsCollected == RecordSpec => []DataAsCollected
<1>1. RecordInv => DataAsCollected BY Zenon DEF RecordInv
<1>2. QED BY <1>1, RecordInductive, PTL
===============================================================================
