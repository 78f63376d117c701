------------------------------ MODULE EventLog ------------------------------
(***************************************************************************)
(* main/store/eventLog.ts, sessionStore.ts and checkpoints.ts: the log of  *)
(* one session, the process that appends to it, a follower that reads it   *)
(* from a saved offset, and the checkpoints that spare a full replay.      *)
(*                                                                         *)
(* The file is a sequence of whole lines and perhaps a torn one at the     *)
(* end.  A line holds a record, [id, seq], or is Bad: it does not parse.   *)
(* What happened to be in a torn line is of no account: whatever is        *)
(* written after it makes one line of the two, which does not parse.       *)
(***************************************************************************)
EXTENDS Naturals, Sequences, FiniteSets, SequencesExt

CONSTANTS MaxAppends,     \* bound: calls of append
          MaxCrashes,     \* bound: times the process is killed
          MaxFailures,    \* bound: writes that fail before the first byte
          MaxTornWrites,  \* bound: writes that fail half-way (a full disk)
          MaxCheckpoints  \* bound: checkpoints written

ASSUME LogAssumption == /\ MaxAppends \in Nat
                        /\ MaxCrashes \in Nat
                        /\ MaxFailures \in Nat
                        /\ MaxTornWrites \in Nat
                        /\ MaxCheckpoints \in Nat

VARIABLES
  \* on disk
  lines,    \* the whole lines of events.jsonl
  torn,     \* the file ends in a partial line
  ckpts,    \* checkpoint files: name (a seq) |-> projection, or Unreadable
  \* in the process
  up,       \* the log is open
  nextSeq,  \* this.seq
  chain,    \* this.writing: records claimed and not yet written, in order
  acked,    \* ids whose append has resolved, in the order it did
  saving,   \* the projection that checkpoint() is writing, or Unreadable
  \* a follower, which outlives the process
  offset,   \* lines it has consumed
  seen,     \* the records it parsed
  \* bounds
  calls, crashes, failures, tornWrites, saves

diskVars   == <<lines, torn, ckpts>>
procVars   == <<up, nextSeq, chain, acked, saving>>
followVars == <<offset, seen>>
boundVars  == <<calls, crashes, failures, tornWrites, saves>>
vars == <<diskVars, procVars, followVars, boundVars>>

Bad        == [id |-> 0, seq |-> 0]
Unreadable == [lastSeq |-> 0, lastIds |-> {}, folded |-> <<0>>, skipped |-> 0]

Records == [id : 1..MaxAppends, seq : 1..MaxAppends]

\* A loop over s that keeps what is in S: SelectSeq, whose own definition the
\* prover cannot open.
Only(s, S) ==
  LET Kept[n \in 0..Len(s)] ==
        IF n = 0 THEN <<>>
        ELSE IF s[n] \in S THEN Append(Kept[n - 1], s[n]) ELSE Kept[n - 1]
  IN  Kept[Len(s)]

\* parseWholeLines: the records of whole lines, and the count of the others.
Parsed(ls)  == Only(ls, Records)
Skipped(ls) == Len(ls) - Len(Parsed(ls))

IdsIn(s)  == [i \in 1..Len(s) |-> s[i].id]
MaxSeq(s) == IF s = <<>> THEN 0 ELSE Max({s[i].seq : i \in 1..Len(s)})

Init == /\ lines = <<>> /\ torn = FALSE /\ ckpts = <<>>
        /\ up = TRUE /\ nextSeq = 1 /\ chain = <<>> /\ acked = <<>>
        /\ saving = Unreadable
        /\ offset = 0 /\ seen = <<>>
        /\ calls = 0 /\ crashes = 0 /\ failures = 0 /\ tornWrites = 0
        /\ saves = 0

----------------------------------------------------------------------------
(* append                                                                  *)

\* Mutant: the number is read but not claimed.
SeqNotClaimed == nextSeq

\* append(): this.seq is claimed before anything yields ...
SeqAfterClaim == nextSeq + 1

\* ... and the write joins the chain.
AppendCalled ==
  /\ up
  /\ calls < MaxAppends
  /\ calls' = calls + 1
  /\ nextSeq' = SeqAfterClaim
  /\ chain' = Append(chain, [id |-> calls + 1, seq |-> nextSeq])
  /\ UNCHANGED <<diskVars, up, acked, saving, followVars, crashes, failures,
                 tornWrites, saves>>

\* Mutant: the writes are not chained, and any of them may land first.
AnyWrite == 1..Len(chain)

\* The write chain runs its oldest write only.
WriteInTurn == {i \in 1..Len(chain) : i = 1}

\* One record lands: after a torn line it completes a line that is Bad.
Landed(r) == Append(lines, IF torn THEN Bad ELSE r)

\* appendFile succeeds, and append resolves.
WriteDone ==
  /\ up
  /\ \E i \in WriteInTurn :
       /\ lines' = Landed(chain[i])
       /\ chain' = RemoveAt(chain, i)
       /\ acked' = Append(acked, chain[i].id)
  /\ torn' = FALSE
  /\ UNCHANGED <<ckpts, up, nextSeq, saving, followVars, boundVars>>

\* appendFile fails: the caller is told, and the chain goes on.  A disk that
\* fills up half-way leaves what was written.
WriteFails ==
  /\ up
  /\ \E i \in WriteInTurn : chain' = RemoveAt(chain, i)
  /\ \/ /\ failures < MaxFailures
        /\ failures' = failures + 1
        /\ UNCHANGED <<torn, tornWrites>>
     \/ /\ tornWrites < MaxTornWrites
        /\ tornWrites' = tornWrites + 1
        /\ torn' = TRUE
        /\ UNCHANGED failures
  /\ UNCHANGED <<lines, ckpts, up, nextSeq, acked, saving, followVars, calls,
                 crashes, saves>>

----------------------------------------------------------------------------
(* load and checkpoint                                                     *)

EmptyProjection == [lastSeq |-> 0, lastIds |-> {}, folded |-> <<>>,
                    skipped |-> 0]

\* Mutant: what a checkpoint holds is folded again.
NeverFolded(p, r) == FALSE

\* isAlreadyFolded: below the last seq, or at it with an id that was folded.
IsAlreadyFolded(p, r) == \/ r.seq < p.lastSeq
                         \/ r.seq = p.lastSeq /\ r.id \in p.lastIds

\* One turn of reduceEvents' loop.
FoldOne(p, r) ==
  IF IsAlreadyFolded(p, r) THEN p
  ELSE [p EXCEPT !.lastSeq = IF r.seq > @ THEN r.seq ELSE @,
                 !.lastIds = IF r.seq > p.lastSeq THEN {r.id}
                             ELSE @ \cup {r.id},
                 !.folded = Append(@, r.id)]

\* reduceEvents: what the reader skipped is added to what the base counted.
ReduceEvents(events, base, skipped) ==
  LET Folded[n \in 0..Len(events)] ==
        IF n = 0 THEN [base EXCEPT !.skipped = @ + skipped]
        ELSE FoldOne(Folded[n - 1], events[n])
  IN  Folded[Len(events)]

\* readLatestCheckpoint: the newest file that parses.
Readable == {s \in DOMAIN ckpts : ckpts[s] # Unreadable}
Base == IF Readable = {} THEN EmptyProjection ELSE ckpts[Max(Readable)]

\* SessionStore.load: the whole file is read, and the records from the base's
\* last seq on are folded into it.
Since(n) == {r \in Records : r.seq >= n}
Load == ReduceEvents(Only(Parsed(lines), Since(Base.lastSeq)), Base,
                     Skipped(lines))

\* checkpoint(): the load, and then the file, which is not written at once.
CheckpointStarts ==
  /\ up
  /\ saving = Unreadable
  /\ saves < MaxCheckpoints
  /\ saves' = saves + 1
  /\ saving' = Load
  /\ UNCHANGED <<diskVars, up, nextSeq, chain, acked, followVars, calls,
                 crashes, failures, tornWrites>>

WithCheckpoint(body) ==
  [s \in DOMAIN ckpts \cup {saving.lastSeq} |->
     IF s = saving.lastSeq THEN body ELSE ckpts[s]]

CheckpointWritten ==
  /\ up
  /\ saving # Unreadable
  /\ ckpts' = WithCheckpoint(saving)
  /\ saving' = Unreadable
  /\ UNCHANGED <<lines, torn, up, nextSeq, chain, acked, followVars,
                 boundVars>>

----------------------------------------------------------------------------
(* The process dies, and another opens the log.                            *)

\* The write under way has left nothing, a part of its line, or the whole of
\* it without anyone being told.  The checkpoint being written may be cut off.
Crash ==
  /\ up
  /\ crashes < MaxCrashes
  /\ crashes' = crashes + 1
  /\ up' = FALSE
  /\ \/ UNCHANGED <<lines, torn>>
     \/ /\ chain # <<>>
        /\ torn' = TRUE
        /\ UNCHANGED lines
     \/ /\ chain # <<>>
        /\ lines' = Landed(chain[1])
        /\ torn' = FALSE
  /\ \/ UNCHANGED ckpts
     \/ saving # Unreadable /\ ckpts' = WithCheckpoint(Unreadable)
  /\ chain' = <<>>
  /\ saving' = Unreadable
  /\ UNCHANGED <<nextSeq, acked, followVars, calls, failures, tornWrites,
                 saves>>

\* Mutant: the writer tolerates a torn tail as the readers do.
KeepTail == torn

\* The tail that open leaves: a torn line is truncated.
TailAfterOpen == FALSE

\* open(): the scan recovers the next seq from the whole lines.
Open ==
  /\ ~up
  /\ up' = TRUE
  /\ nextSeq' = MaxSeq(Parsed(lines)) + 1
  /\ torn' = TailAfterOpen
  /\ UNCHANGED <<lines, ckpts, chain, acked, saving, followVars, boundVars>>

----------------------------------------------------------------------------
(* The follower                                                            *)

\* Mutant: the partial line is counted as consumed.
ConsumeTail == Len(lines) + (IF torn THEN 1 ELSE 0)

\* Mutant: what is counted are the records that parsed, not the lines.
ConsumeRecords == Len(Parsed(lines))

\* parseWholeLines's `consumed`: whole lines only.
Consumed == Len(lines)

\* readFrom(offset): the records of the whole lines after the offset.
Follow ==
  /\ Consumed > offset
  /\ seen' = seen \o Parsed(SubSeq(lines, offset + 1, Len(lines)))
  /\ offset' = Consumed
  /\ UNCHANGED <<diskVars, procVars, boundVars>>

----------------------------------------------------------------------------
Next == \/ AppendCalled \/ WriteDone \/ WriteFails
        \/ CheckpointStarts \/ CheckpointWritten
        \/ Crash \/ Open
        \/ Follow

\* Writes finish, a killed host is started again, a follower keeps reading.
Fairness == /\ WF_vars(WriteDone)
            /\ WF_vars(Open)
            /\ WF_vars(Follow)

SafeSpec == Init /\ [][Next]_vars
Spec == SafeSpec /\ Fairness

----------------------------------------------------------------------------
Projections == [lastSeq : 0..MaxAppends, lastIds : SUBSET (1..MaxAppends),
                folded : Seq(0..MaxAppends), skipped : Nat]

\* The values of each variable; in particular the follower never reads past the
\* whole lines of the file, and the counter stays one ahead of its claims.
TypeOK ==
  /\ lines \in Seq(Records \cup {Bad})
  /\ torn \in BOOLEAN
  /\ DOMAIN ckpts \subseteq 0..MaxAppends
  /\ \A s \in DOMAIN ckpts : ckpts[s] \in Projections
  /\ up \in BOOLEAN
  /\ nextSeq \in 1..(MaxAppends + 1)
  /\ chain \in Seq(Records)
  /\ acked \in Seq(1..MaxAppends)
  /\ saving \in Projections
  /\ offset \in 0..Len(lines)
  /\ seen \in Seq(Records)
  /\ calls \in 0..MaxAppends /\ crashes \in 0..MaxCrashes
  /\ failures \in 0..MaxFailures /\ tornWrites \in 0..MaxTornWrites
  /\ saves \in 0..MaxCheckpoints

\* "seq orders events": the file is in the order of its numbers and no number
\* is used twice, also across restarts that reuse the numbers of lost records.
FileInOrder ==
  LET rs == Parsed(lines) IN
  \A i, j \in 1..Len(rs) : i < j => rs[i].seq < rs[j].seq

\* What append resolved is in the file, in the order in which it resolved, at
\* any moment and after any crash.  A write that the disk cut short costs the
\* one record that is glued to it, and never another.
AckedIsKept ==
  LET ids == IdsIn(Parsed(lines))
      Lost == {i \in DOMAIN acked : acked[i] \notin Range(ids)}
  IN  /\ \A m, n \in DOMAIN ids, i, j \in DOMAIN acked :
           ids[m] = acked[i] /\ ids[n] = acked[j] /\ i < j => m < n
      /\ Cardinality(Lost) <= tornWrites

\* "zero loss and zero duplication": the follower has read exactly what a
\* reader from the start finds in the lines before its offset.
FollowerMissesNothing == seen = Parsed(SubSeq(lines, 1, offset))

\* load folds every record of the log exactly once, whichever checkpoint it
\* starts from and whatever was appended while that was written.
LoadFoldsEachOnce == Load.folded = IdsIn(Parsed(lines))

\* The records of the file are an append-only log.
Abstract == INSTANCE AppendLog WITH Record <- Records,
                                    log <- Parsed(lines),
                                    known <- Range(acked)
                                             \cap Range(IdsIn(Parsed(lines)))

\* eventLog.ts refines it: no crash, failed write or restart takes a record out
\* of the log, changes the order of two, or puts one in between.
ImplementsAppendLog == Abstract!Spec

\* A follower reads every record, across crashes of its writer.
FollowerCatchesUp ==
  \A id \in 1..MaxAppends :
    (\E i \in 1..Len(lines) : lines[i].id = id)
      ~> (\E i \in 1..Len(seen) : seen[i].id = id)
=============================================================================
