------------------------------- MODULE LogBatch -------------------------------
(***************************************************************************)
(* tools/logs: LogHandler collects records and hands them to WriteFunc in  *)
(* batches.  WithAttrs and WithGroup copy the handler: the copy shares the *)
(* mutex and the backing array of the slice logs, but not its length.      *)
(*                                                                         *)
(* Slices are modelled as Go has them: an array in a heap and a length;    *)
(* append writes in place while the array has room and otherwise moves to  *)
(* a new array of twice the size.  What a record says is left out (module  *)
(* LogRecord), as are the bytes of its payload.                            *)
(***************************************************************************)
EXTENDS Naturals, Sequences

CONSTANTS
  Loggers,       \* goroutines that log
  BatchSize,
  MaxRecords     \* bound on the records logged

ASSUME BatchAssumption == BatchSize \in Nat \ {0} /\ MaxRecords \in Nat

VARIABLES
  heap,     \* heap[a]: the slots of array a, 0 where nothing was written yet
  logs,     \* logs[h]: array and length of handler h's slice
  sharing,  \* none, fresh or shared: whether the copy was taken over an existing array
  at,       \* at[g]: idle, append, compare (after the unlock), write
  job,      \* job[g]: the handler and the record g is logging
  length,   \* length[g]: logLength, read under the mutex
  issued,   \* records logged so far are 1 .. issued
  dropped,  \* records the filter refused
  batches   \* what WriteFunc was called with, in order

logVars == <<heap, logs, sharing, at, job, length, issued, dropped, batches>>

Handlers == {"base", "derived"}
NoArray == 0
Records == 1 .. MaxRecords
Slices == [array : 0 .. MaxRecords, len : 0 .. MaxRecords]

LogTypeOK ==
  /\ heap \in Seq(Seq(0 .. MaxRecords))
  /\ logs \in [Handlers -> Slices]
  /\ sharing \in {"none", "fresh", "shared"}
  /\ at \in [Loggers -> {"idle", "append", "compare", "write"}]
  /\ job \in [Loggers -> Handlers \X (0 .. MaxRecords)]
  /\ length \in [Loggers -> 0 .. MaxRecords]
  /\ issued \in 0 .. MaxRecords /\ dropped \subseteq Records
  /\ batches \in Seq(Seq(0 .. MaxRecords))

\* NewBaseLogHandler: no slice yet.
LogInit ==
  /\ heap = <<>>
  /\ logs = [h \in Handlers |-> [array |-> NoArray, len |-> 0]]
  /\ sharing = "none"
  /\ at = [g \in Loggers |-> "idle"] /\ job = [g \in Loggers |-> <<"base", 0>>]
  /\ length = [g \in Loggers |-> 0]
  /\ issued = 0 /\ dropped = {} /\ batches = <<>>

Cap(s) == IF s.array = NoArray THEN 0 ELSE Len(heap[s.array])

Contents(s) == [i \in 1 .. s.len |-> heap[s.array][i]]

\* Go's append of one record: in place, or in a new array of twice the size.
AppendTo(h, r) ==
  LET s == logs[h]
      grown == [i \in 1 .. IF Cap(s) = 0 THEN 1 ELSE 2 * Cap(s) |->
                  IF i <= s.len THEN Contents(s)[i] ELSE IF i = s.len + 1 THEN r ELSE 0]
  IN  IF s.len < Cap(s)
      THEN /\ heap' = [heap EXCEPT ![s.array][s.len + 1] = r]
           /\ logs' = [logs EXCEPT ![h].len = @ + 1]
      ELSE /\ heap' = Append(heap, grown)
           /\ logs' = [logs EXCEPT ![h] = [array |-> Len(heap) + 1, len |-> s.len + 1]]

\* WithAttrs or WithGroup copies the handler, and with it the slice header.
Derive ==
  /\ sharing = "none"
  /\ logs' = [logs EXCEPT !["derived"] = logs["base"]]
  /\ sharing' = IF logs["base"].array = NoArray THEN "fresh" ELSE "shared"
  /\ UNCHANGED <<heap, at, job, length, issued, dropped, batches>>

\* Handle starts with an enabled record, and the filter lets it through.
Handle(g, h) ==
  /\ at[g] = "idle" /\ issued < MaxRecords
  /\ h = "derived" => sharing # "none"
  /\ issued' = issued + 1
  /\ job' = [job EXCEPT ![g] = <<h, issued + 1>>]
  /\ at' = [at EXCEPT ![g] = "append"]
  /\ UNCHANGED <<heap, logs, sharing, length, dropped, batches>>

\* Filterrable refuses the record.
Filtered(g) ==
  /\ at[g] = "append"
  /\ dropped' = dropped \cup {job[g][2]}
  /\ at' = [at EXCEPT ![g] = "idle"]
  /\ UNCHANGED <<heap, logs, sharing, job, length, issued, batches>>

\* The append and the length, under the mutex.
AppendRecord(g) ==
  /\ at[g] = "append"
  /\ AppendTo(job[g][1], job[g][2])
  /\ length' = [length EXCEPT ![g] = logs[job[g][1]].len + 1]
  /\ at' = [at EXCEPT ![g] = "compare"]
  /\ UNCHANGED <<sharing, job, issued, dropped, batches>>

Full(n) == n >= BatchSize

\* The comparison, after the unlock.
Compare(g) ==
  /\ at[g] = "compare"
  /\ at' = [at EXCEPT ![g] = IF Full(length[g]) THEN "write" ELSE "idle"]
  /\ UNCHANGED <<heap, logs, sharing, job, length, issued, dropped, batches>>

\* Mutant: the slice is not truncated.
WriteAll_Kept(g) ==
  LET h == job[g][1] IN
  /\ at[g] = "write"
  /\ batches' = IF logs[h].len = 0 THEN batches ELSE Append(batches, Contents(logs[h]))
  /\ at' = [at EXCEPT ![g] = "idle"]
  /\ UNCHANGED <<heap, logs, sharing, job, length, issued, dropped>>

\* WriteAll copies the slice and truncates it under the mutex, then calls
\* WriteFunc with the copy; another goroutine may have emptied it already.
WriteAll(g) ==
  LET h == job[g][1] IN
  /\ at[g] = "write"
  /\ batches' = IF logs[h].len = 0 THEN batches ELSE Append(batches, Contents(logs[h]))
  /\ logs' = [logs EXCEPT ![h].len = 0]
  /\ at' = [at EXCEPT ![g] = "idle"]
  /\ UNCHANGED <<heap, sharing, job, length, issued, dropped>>

LogNext ==
  \/ Derive
  \/ \E g \in Loggers :
       \/ \E h \in Handlers : Handle(g, h)
       \/ Filtered(g) \/ AppendRecord(g) \/ Compare(g) \/ WriteAll(g)

LogSpec == LogInit /\ [][LogNext]_logVars

-------------------------------------------------------------------------------
Occurs(s, r) == \E i \in DOMAIN s : s[i] = r

\* The places record r is at: a goroutine about to append it, a handler's slice,
\* a batch that was written.
Places(r) ==
  {<<"job", g>> : g \in {g \in Loggers : at[g] = "append" /\ job[g][2] = r}}
    \cup {<<"logs", h>> : h \in {h \in Handlers : Occurs(Contents(logs[h]), r)}}
    \cup {<<"batch", b>> : b \in {b \in DOMAIN batches : Occurs(batches[b], r)}}

\* However many goroutines log, a record that the filter let through is in exactly
\* one place, pending or written, provided no handler was copied over an array
\* that already existed (the truncation logs[:0] keeps the array, so even an empty
\* handler is copied with it).  However arrays are shared, what WriteFunc gets are
\* records that were logged and not refused, never an empty slot.
EachRecordOnce ==
  /\ sharing # "shared" =>
       \A r \in (1 .. issued) \ dropped : \E p \in Places(r) : Places(r) = {p}
  /\ \A b \in DOMAIN batches : \A i \in DOMAIN batches[b] :
       batches[b][i] \in (1 .. issued) \ dropped
===============================================================================
