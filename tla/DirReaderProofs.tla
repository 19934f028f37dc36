--------------------------- MODULE DirReaderProofs ---------------------------
(***************************************************************************)
(* One thread reading directories, on any file tree, with any faults, any  *)
(* sizes of its buffer and its ring, any number of readings.               *)
(***************************************************************************)
EXTENDS DirReader, OrderProofs

Stages == {"idle", "open", "query", "parse", "failed", "detect", "dispatch", "ring",
           "submit", "wait", "harvest", "free", "close", "nlinks", "make"}

\* The attempt has come to the end of the listing.
Listed == {"detect", "dispatch", "ring", "submit", "wait", "harvest", "free", "close", "nlinks"}

------------------------------------------------------------------------------
(* The attempts and the enumeration *)

Found(d) == {Listing[d][n] : n \in DOMAIN Listing[d]}

\* The entries among the first k records of directory d.
FirstOf(d, list, k) ==
    /\ list \in Seq(Found(d))
    /\ Len(list) = IF k > Dots THEN k - Dots ELSE 0
    /\ \A n \in DOMAIN list : list[n] = Listing[d][n]

EntriesAre(k) == FirstOf(dir, entries, k)

\* The buffer has the loaded records up to the cursor, the slot-th is next.
BufferInv ==
    /\ loaded \in 1 .. BufferRecords
    /\ slot \in 1 .. loaded
    /\ cursor \in loaded .. Available
    /\ \A i \in 1 .. loaded :
          buffer[i] = [dir |-> dir, pos |-> (cursor - loaded) + i, next |-> i < loaded]

\* The reading is one of an attempt that all earlier ones led to.
TriesInv ==
    /\ dir \in Dirs /\ fault \in FaultCases /\ CanMeet(dir)
    /\ attempt > 0 => /\ R!IsTransientIoError(fault.error)
                      /\ attempt <= fault.times
                      /\ platform = "other" => ~fault.opened

(***************************************************************************)
(* What is parsed is what the last query returned, and nothing that an     *)
(* earlier one, or another directory, left in the thread's buffer: so that *)
(* the entries are always the first ones of the listing.                   *)
(***************************************************************************)
ReadInv ==
    /\ stage \in Stages
    /\ platform \in Platforms
    /\ attempt \in 0 .. MaxRetries
    /\ reads \in Nat
    /\ stage # "idle" \/ reads > 0 => TriesInv
    /\ stage \in {"query", "parse"} /\ Fails => fault.opened
    /\ stage = "failed" => Fails
    /\ stage \in Listed => ~Fails
    /\ stage = "make" /\ Fails => platform = "other" /\ fault.opened
    /\ stage = "query" => cursor \in 0 .. Available /\ EntriesAre(cursor)
    /\ stage = "parse" => BufferInv /\ EntriesAre(((cursor - loaded) + slot) - 1)
    /\ stage \in Listed \cup {"failed", "make"} \/ Done => EntriesAre(Available)

LEMMA ListingFacts ==
    ASSUME dir \in Dirs, fault \in FaultCases
    PROVE  /\ Len(Listing[dir]) \in Nat /\ DOMAIN Listing[dir] = 1 .. Len(Listing[dir])
           /\ Listing[dir] \in Seq(Found(dir))
           /\ fault.after \in 0 .. Len(Listing[dir]) /\ (~fault.opened => fault.after = 0)
           /\ fault.times \in Nat
           /\ Available \in Nat /\ Available - Dots \in 0 .. Len(Listing[dir])
<1>1. Listing[dir] \in Seq(Found(dir)) BY DRAssumption DEF Found
<1>2. Len(Listing[dir]) \in Nat /\ DOMAIN Listing[dir] = 1 .. Len(Listing[dir])
  BY <1>1, LenProperties
<1>3. /\ fault.after \in 0 .. Len(Listing[dir]) /\ (~fault.opened => fault.after = 0)
      /\ fault.times \in Nat
  BY DRAssumption
<1>4. Available = 2 + fault.after \/ Available = 2 + Len(Listing[dir]) BY DEF Available, Dots
<1>5. Available \in Nat /\ Available - Dots \in 0 .. Len(Listing[dir]) BY <1>2, <1>3, <1>4 DEF Dots
<1> QED BY <1>1, <1>2, <1>3, <1>5

LEMMA ReadInit == ReaderInit => ReadInv
BY DRAssumption DEF ReaderInit, ReadInv, Stages, Listed, Fails, Done

\* A step that moves between the stages after a listing, or to the end.
LEMMA ReadMoves ==
    ASSUME ReadInv, UNCHANGED <<platform, reading, attempt, entries>>,
           \/ stage \in Listed /\ stage' \in Listed \cup {"make"}
           \/ stage \in {"failed", "make"} /\ stage' = "idle"
    PROVE  ReadInv'
<1>1. platform' = platform /\ reads' = reads /\ dir' = dir /\ fault' = fault /\ attempt' = attempt
      /\ entries' = entries
  BY DEF reading
<1>2. (Fails' <=> Fails) /\ Available' = Available /\ (TriesInv => TriesInv')
  BY <1>1 DEF Fails, Available, TriesInv, CanMeet, R!AttemptFails, R!IsTransientIoError, R!TransientCodes
<1>3. EntriesAre(Available) => EntriesAre(Available)' BY <1>1, <1>2 DEF EntriesAre
<1> QED BY <1>1, <1>2, <1>3 DEF ReadInv, Stages, Listed, Done

\* A step of the kernel, of the caller, or none.
LEMMA ReadAlone ==
    ASSUME ReadInv, UNCHANGED <<platform, stage, reading, attempt, listing>>
    PROVE  ReadInv'
<1>1. /\ platform' = platform /\ reads' = reads /\ dir' = dir /\ fault' = fault
      /\ attempt' = attempt /\ entries' = entries /\ stage' = stage
      /\ cursor' = cursor /\ loaded' = loaded /\ slot' = slot /\ buffer' = buffer
  BY DEF reading, listing
<1>2. (Fails' <=> Fails) /\ Available' = Available /\ (TriesInv => TriesInv') /\ (BufferInv => BufferInv')
  BY <1>1 DEF Fails, Available, TriesInv, CanMeet, R!AttemptFails, R!IsTransientIoError, R!TransientCodes, BufferInv
<1>3. \A k : EntriesAre(k)' <=> EntriesAre(k) BY <1>1 DEF EntriesAre
<1> QED BY <1>1, <1>2, <1>3 DEF ReadInv, Done

LEMMA TakeRead ==
    ASSUME ReadInv, NEW d \in Dirs, NEW f \in FaultCases, Take(d, f)
    PROVE  ReadInv'
<1>1. /\ stage' = "open" /\ platform' = platform /\ attempt' = 0 /\ reads' = reads + 1
      /\ dir' = d /\ fault' = f /\ CanMeet(d)
  BY DEF Take, Goes, fixed
<1>2. TriesInv' BY <1>1 DEF TriesInv, CanMeet
<1> QED BY <1>1, <1>2, DRAssumption DEF ReadInv, Stages, Listed, Done

LEMMA OpenRead == ReadInv /\ Open => ReadInv'
<1> SUFFICES ASSUME ReadInv, Open PROVE ReadInv' OBVIOUS
<1>1. /\ stage = "open" /\ stage' = (IF Fails /\ ~fault.opened THEN "failed" ELSE "query")
      /\ platform' = platform /\ reads' = reads /\ dir' = dir /\ fault' = fault /\ attempt' = attempt
      /\ entries' = <<>> /\ cursor' = 0
  BY DEF Open, Goes, fixed, reading
<1>2. TriesInv BY <1>1 DEF ReadInv
<1>3. (Fails' <=> Fails) /\ Available' = Available /\ TriesInv'
  BY <1>1, <1>2 DEF Fails, Available, TriesInv, CanMeet, R!AttemptFails, R!IsTransientIoError, R!TransientCodes
<1>4. Available \in Nat /\ (~fault.opened => fault.after = 0) BY <1>2, ListingFacts DEF TriesInv
<1>5. \A k \in Nat : k <= Dots => EntriesAre(k)'
  <2>1. <<>> \in Seq(Found(dir')) /\ Len(<<>>) = 0 BY EmptySeq
  <2>2. DOMAIN entries' = {} BY <1>1
  <2> QED BY <1>1, <2>1, <2>2 DEF EntriesAre, FirstOf, Dots
<1>6. CASE Fails /\ ~fault.opened
  <2>1. Available = Dots BY <1>4, <1>6 DEF Available, Dots
  <2>2. Available \in Nat /\ Available <= Dots BY <2>1 DEF Dots
  <2>3. EntriesAre(Available)' BY <1>3, <1>5, <2>2
  <2> QED BY <1>1, <1>3, <1>6, <2>3 DEF ReadInv, Stages, Listed, Done
<1>7. CASE ~(Fails /\ ~fault.opened)
  <2>1. EntriesAre(cursor)' BY <1>1, <1>5 DEF Dots
  <2> QED BY <1>1, <1>3, <1>4, <1>7, <2>1 DEF ReadInv, Stages, Listed, Done
<1> QED BY <1>6, <1>7

LEMMA QueryRead == ReadInv /\ Query => ReadInv'
<1> SUFFICES ASSUME ReadInv, Query PROVE ReadInv' OBVIOUS
<1>1. /\ stage = "query" /\ platform' = platform /\ reads' = reads /\ dir' = dir /\ fault' = fault
      /\ attempt' = attempt /\ entries' = entries
  BY DEF Query, fixed, reading, tries
<1>2. TriesInv /\ cursor \in 0 .. Available /\ EntriesAre(cursor) /\ (Fails => fault.opened)
  BY <1>1 DEF ReadInv
<1>3. (Fails' <=> Fails) /\ Available' = Available /\ TriesInv'
  BY <1>1, <1>2 DEF Fails, Available, TriesInv, CanMeet, R!AttemptFails, R!IsTransientIoError, R!TransientCodes
<1>4. Available \in Nat BY <1>2, ListingFacts DEF TriesInv
<1>5. \A k : EntriesAre(k) => EntriesAre(k)' BY <1>1 DEF EntriesAre
<1>6. ASSUME NEW n \in 1 .. Lesser(BufferRecords, Available - cursor),
             stage' = "parse", slot' = 1, loaded' = n, cursor' = cursor + n,
             buffer' = [i \in 1 .. BufferRecords |->
                           IF i <= n THEN [dir |-> dir, pos |-> cursor + i, next |-> i < n]
                                     ELSE buffer[i]]
      PROVE  ReadInv'
  <2>1. BufferRecords \in Nat BY DRAssumption
  <2>2. n \in 1 .. BufferRecords /\ cursor + n \in n .. Available /\ 1 \in 1 .. n
    BY <1>2, <1>4, <2>1 DEF Lesser
  <2>3. (((cursor + n) - n) + 1) - 1 = cursor /\ \A i \in 1 .. n : ((cursor + n) - n) + i = cursor + i
    BY <1>2, <1>4, <2>2
  <2>4. ASSUME NEW i \in 1 .. n
        PROVE  buffer'[i] = [dir |-> dir', pos |-> (cursor' - loaded') + i, next |-> i < loaded']
    <3>1. i \in 1 .. BufferRecords /\ i <= n BY <2>1, <2>2
    <3>2. buffer'[i] = [dir |-> dir, pos |-> cursor + i, next |-> i < n] BY <1>6, <3>1
    <3>3. (cursor' - loaded') + i = cursor + i BY <1>6, <2>3
    <3> QED BY <1>1, <1>6, <3>2, <3>3
  <2>5. BufferInv' BY <1>3, <1>6, <2>2, <2>4 DEF BufferInv
  <2>6. EntriesAre(((cursor - loaded) + slot) - 1)'
    <3>1. ((cursor' - loaded') + slot') - 1 = cursor BY <1>6, <2>3
    <3> QED BY <1>1, <1>2, <3>1 DEF EntriesAre
  <2> QED BY <1>1, <1>2, <1>3, <1>6, <2>5, <2>6 DEF ReadInv, Stages, Listed, Done
<1>7. CASE cursor = Available /\ stage' = (IF Fails THEN "failed" ELSE AfterListing)
  <2>1. EntriesAre(Available)' BY <1>2, <1>3, <1>5, <1>7
  <2>2. AfterListing \in {"detect", "nlinks", "make"}
    <3>1. platform \in {"linux", "windows", "other"} BY DRAssumption DEF ReadInv
    <3> QED BY <3>1 DEF AfterListing
  <2> QED BY <1>1, <1>2, <1>3, <1>7, <2>1, <2>2 DEF ReadInv, Stages, Listed, Done
<1> QED BY <1>6, <1>7 DEF Query

\* What parse_dirents or parse_buffer_entries finds at the slot.
LEMMA ParseRecord ==
    ASSUME ReadInv, stage = "parse"
    PROVE  /\ loaded \in Nat /\ cursor \in Nat /\ slot \in 1 .. loaded
           /\ buffer[slot] = [dir |-> dir, pos |-> (cursor - loaded) + slot, next |-> slot < loaded]
           /\ MoreRecords <=> slot < loaded
           /\ (cursor - loaded) + slot \in 1 .. Available
           /\ EntriesAre(((cursor - loaded) + slot) - 1)
<1>1. TriesInv /\ BufferInv /\ EntriesAre(((cursor - loaded) + slot) - 1) BY DEF ReadInv
<1>2. Available \in Nat BY <1>1, ListingFacts DEF TriesInv
<1>3. loaded \in Nat /\ cursor \in Nat /\ slot \in 1 .. loaded /\ (cursor - loaded) + slot \in 1 .. Available
  BY <1>1, <1>2, DRAssumption DEF BufferInv
<1>4. buffer[slot] = [dir |-> dir, pos |-> (cursor - loaded) + slot, next |-> slot < loaded]
  BY <1>1 DEF BufferInv
<1>5. MoreRecords <=> slot < loaded
  <2>1. buffer[slot].next = (slot < loaded) BY <1>4
  <2> QED BY <2>1 DEF MoreRecords
<1> QED BY <1>1, <1>3, <1>4, <1>5

\* The entries with those of one more record.
LEMMA OneMore ==
    ASSUME NEW d \in Dirs, NEW list, NEW k \in Nat \ {0}, FirstOf(d, list, k - 1)
    PROVE  /\ k <= Dots => FirstOf(d, list, k)
           /\ k > Dots /\ k - Dots \in DOMAIN Listing[d] =>
                 FirstOf(d, Append(list, Listing[d][k - Dots]), k)
<1>1. list \in Seq(Found(d)) /\ \A n \in DOMAIN list : list[n] = Listing[d][n] BY DEF FirstOf
<1>2. CASE k <= Dots
  <2>1. Len(list) = 0 /\ ~(k > Dots) BY <1>2 DEF FirstOf, Dots
  <2> QED BY <1>1, <1>2, <2>1 DEF FirstOf
<1>3. CASE k > Dots /\ k - Dots \in DOMAIN Listing[d]
  <2>1. Len(list) = k - 3 /\ k - 2 \in Nat /\ k > 2 /\ Len(list) + 1 = k - 2 BY <1>3 DEF FirstOf, Dots
  <2>2. Listing[d][k - 2] \in Found(d) BY <1>3 DEF Found, Dots
  <2> DEFINE more == Append(list, Listing[d][k - 2])
  <2>3. /\ more \in Seq(Found(d)) /\ Len(more) = Len(list) + 1
        /\ \A n \in 1 .. Len(list) : more[n] = list[n]
        /\ more[Len(list) + 1] = Listing[d][k - 2]
    BY <1>1, <2>2, AppendProperties
  <2>4. DOMAIN list = 1 .. Len(list) BY <1>1, LenProperties
  <2> HIDE DEF more
  <2>5. DOMAIN more = 1 .. (Len(list) + 1) BY <2>3, LenProperties
  <2>6. ASSUME NEW n \in DOMAIN more PROVE more[n] = Listing[d][n]
    <3>1. n = Len(list) + 1 \/ n \in 1 .. Len(list) BY <2>1, <2>5
    <3> QED BY <1>1, <2>1, <2>3, <2>4, <3>1
  <2>7. FirstOf(d, more, k)
    <3>1. Len(more) = (IF k > Dots THEN k - Dots ELSE 0) BY <2>1, <2>3 DEF Dots
    <3> QED BY <2>3, <2>6, <3>1 DEF FirstOf
  <2> QED BY <1>3, <2>7 DEF more, Dots
<1>4. k > Dots \/ k <= Dots BY DEF Dots
<1> QED BY <1>2, <1>3, <1>4 DEF Dots

LEMMA ParseRead == ReadInv /\ Parse => ReadInv'
<1> SUFFICES ASSUME ReadInv, Parse PROVE ReadInv' OBVIOUS
<1> DEFINE p == (cursor - loaded) + slot
<1>1. /\ stage = "parse" /\ platform' = platform /\ reads' = reads /\ dir' = dir /\ fault' = fault
      /\ attempt' = attempt /\ cursor' = cursor /\ loaded' = loaded /\ buffer' = buffer
      /\ slot' = slot + 1 /\ stage' = (IF MoreRecords THEN "parse" ELSE "query")
  BY DEF Parse, Goes, fixed, reading, tries
<1>2. /\ loaded \in Nat /\ cursor \in Nat /\ slot \in 1 .. loaded
      /\ buffer[slot] = [dir |-> dir, pos |-> p, next |-> slot < loaded]
      /\ MoreRecords <=> slot < loaded
      /\ p \in 1 .. Available /\ EntriesAre(p - 1)
  BY <1>1, ParseRecord
<1>3. TriesInv /\ BufferInv /\ (Fails => fault.opened) BY <1>1 DEF ReadInv
<1>4. (Fails' <=> Fails) /\ Available' = Available /\ TriesInv'
  BY <1>1, <1>3 DEF Fails, Available, TriesInv, CanMeet, R!AttemptFails, R!IsTransientIoError, R!TransientCodes
<1>5. /\ Available \in Nat /\ Available - Dots \in 0 .. Len(Listing[dir])
      /\ Len(Listing[dir]) \in Nat /\ DOMAIN Listing[dir] = 1 .. Len(Listing[dir])
      /\ dir \in Dirs
  BY <1>3, ListingFacts DEF TriesInv
<1>6. FirstOf(dir, entries', p)
  <2>1. entries' = IF p > Dots THEN Append(entries, Listing[dir][p - Dots]) ELSE entries
    <3>1. buffer[slot].pos = p /\ buffer[slot].dir = dir BY <1>2
    <3> HIDE DEF p
    <3> QED BY <3>1 DEF Parse
  <2>2. p \in Nat \ {0} /\ (p > Dots => p - Dots \in DOMAIN Listing[dir]) /\ (p > Dots \/ p <= Dots)
    <3> HIDE DEF p
    <3> QED BY <1>2, <1>5 DEF Dots
  <2>3. FirstOf(dir, entries, p - 1) BY <1>2 DEF EntriesAre
  <2> HIDE DEF p
  <2>4. ~(p > Dots /\ p <= Dots) BY <2>2 DEF Dots
  <2> QED BY <1>5, <2>1, <2>2, <2>3, <2>4, OneMore
<1>7. CASE slot < loaded
  <2>1. slot + 1 \in 1 .. loaded /\ ((cursor - loaded) + (slot + 1)) - 1 = p BY <1>2, <1>7
  <2>2. BufferInv' BY <1>1, <1>3, <1>4, <2>1 DEF BufferInv
  <2>3. EntriesAre(((cursor - loaded) + slot) - 1)' BY <1>1, <1>6, <2>1 DEF EntriesAre
  <2>4. stage' = "parse" BY <1>1, <1>2, <1>7
  <2> QED BY <1>1, <1>3, <1>4, <2>2, <2>3, <2>4 DEF ReadInv, Stages, Listed, Done
<1>8. CASE ~(slot < loaded)
  <2>1. p = cursor BY <1>2, <1>8
  <2>2. cursor' \in 0 .. Available' BY <1>1, <1>2, <1>4, <1>5, <2>1
  <2>3. EntriesAre(cursor)' BY <1>1, <1>6, <2>1 DEF EntriesAre
  <2>4. stage' = "query" BY <1>1, <1>2, <1>8
  <2> QED BY <1>1, <1>3, <1>4, <2>2, <2>3, <2>4 DEF ReadInv, Stages, Listed, Done
<1> QED BY <1>7, <1>8

LEMMA FailedRead == ReadInv /\ AttemptFailed => ReadInv'
<1> SUFFICES ASSUME ReadInv, AttemptFailed PROVE ReadInv' OBVIOUS
<1>1. /\ stage = "failed" /\ platform' = platform /\ reads' = reads /\ dir' = dir /\ fault' = fault
      /\ entries' = entries
  BY DEF AttemptFailed, fixed, reading, listing
<1>2. TriesInv /\ Fails /\ EntriesAre(Available) /\ attempt \in 0 .. MaxRetries /\ reads \in Nat
  BY <1>1 DEF ReadInv, Listed
<1>3. fault.times \in Nat /\ MaxRetries \in Nat BY <1>2, ListingFacts, DRAssumption DEF TriesInv
<1>4. CASE stage' = "idle" /\ attempt' = attempt BY <1>1, <1>4, ReadMoves DEF reading
<1>5. CASE stage' = "make" /\ attempt' = attempt /\ platform = "other" /\ fault.opened
  <2>1. (Fails' <=> Fails) /\ Available' = Available /\ TriesInv'
    BY <1>1, <1>2, <1>5 DEF Fails, Available, TriesInv, CanMeet, R!AttemptFails, R!IsTransientIoError, R!TransientCodes
  <2>2. EntriesAre(Available)' BY <1>1, <1>2, <2>1 DEF EntriesAre
  <2> QED BY <1>1, <1>2, <1>5, <2>1, <2>2 DEF ReadInv, Stages, Listed, Done
<1>6. CASE /\ stage' = "open" /\ attempt' = attempt + 1 /\ attempt < MaxRetries
           /\ R!IsTransientIoError(fault.error) /\ ~(platform = "other" /\ fault.opened)
  <2>1. attempt < fault.times BY <1>2 DEF Fails, R!AttemptFails
  <2>2. attempt' \in 0 .. MaxRetries /\ attempt' <= fault.times BY <1>2, <1>3, <1>6, <2>1
  <2>3. R!IsTransientIoError(fault.error)' BY <1>1, <1>6 DEF R!IsTransientIoError, R!TransientCodes
  <2>4. TriesInv' BY <1>1, <1>2, <1>6, <2>2, <2>3 DEF TriesInv, CanMeet
  <2> QED BY <1>1, <1>2, <1>6, <2>2, <2>4 DEF ReadInv, Stages, Listed, Done
<1> QED BY <1>4, <1>5, <1>6 DEF AttemptFailed, Finish

\* The steps after a listing.
Later ==
    \/ Detect \/ Dispatch
    \/ BuildRing \/ Submit \/ WaitForAll \/ Interrupted \/ Harvest \/ FreeBuffers \/ CloseRing
    \/ QueryNlinks

LEMMA LaterMoves ==
    ASSUME Later
    PROVE  /\ UNCHANGED <<platform, options, reading, tries, result, listing>>
           /\ stage \in Listed /\ stage' \in Listed \cup {"make"}
<1>1. CASE Detect BY <1>1 DEF Detect, Goes, fixed, Listed
<1>2. CASE Dispatch BY <1>2 DEF Dispatch, fixed, Listed
<1>3. CASE BuildRing BY <1>3 DEF BuildRing, fixed, Listed
<1>4. CASE Submit BY <1>4 DEF Submit, fixed, Listed
<1>5. CASE WaitForAll BY <1>5 DEF WaitForAll, Goes, fixed, Listed
<1>6. CASE Interrupted BY <1>6 DEF Interrupted, Goes, fixed, Listed
<1>7. CASE Harvest BY <1>7 DEF Harvest, Goes, fixed, Listed
<1>8. CASE FreeBuffers BY <1>8 DEF FreeBuffers, Goes, fixed, Listed
<1>9. CASE CloseRing BY <1>9 DEF CloseRing, Goes, fixed, Listed
<1>10. CASE QueryNlinks BY <1>10 DEF QueryNlinks, Goes, fixed, Listed
<1> QED BY <1>1, <1>2, <1>3, <1>4, <1>5, <1>6, <1>7, <1>8, <1>9, <1>10 DEF Later

LEMMA MakeMoves ==
    ASSUME Make
    PROVE  /\ UNCHANGED <<platform, options, stop, reading, tries, listing>>
           /\ stage = "make" /\ stage' = "idle"
BY DEF Make, Finish, fixed

\* The kernel, the caller, or nobody takes a step.
Elsewhere == (\E i \in 1 .. RingSize, ok \in BOOLEAN : Complete(i, ok)) \/ RaiseStop \/ UNCHANGED readerVars

LEMMA ElsewhereMoves ==
    ASSUME Elsewhere
    PROVE  UNCHANGED <<platform, options, stage, reading, tries, result, listing, detection>>
<1>1. CASE \E i \in 1 .. RingSize, ok \in BOOLEAN : Complete(i, ok) BY <1>1 DEF Complete, fixed
<1>2. CASE RaiseStop BY <1>2 DEF RaiseStop, fixed
<1>3. CASE UNCHANGED readerVars BY <1>3 DEF readerVars, fixed
<1> QED BY <1>1, <1>2, <1>3 DEF Elsewhere

\* Who may take the next step.
LEMMA NextCases ==
    ASSUME [ReaderNext]_readerVars
    PROVE  \/ \E d \in Dirs, f \in FaultCases : Take(d, f)
           \/ Open \/ Query \/ Parse \/ AttemptFailed
           \/ Later \/ Make \/ Elsewhere
BY DEF ReaderNext, Thread, Later, Elsewhere

LEMMA ReadStep == ReadInv /\ [ReaderNext]_readerVars => ReadInv'
<1> SUFFICES ASSUME ReadInv, [ReaderNext]_readerVars PROVE ReadInv' OBVIOUS
<1>1. CASE \E d \in Dirs, f \in FaultCases : Take(d, f) BY <1>1, TakeRead
<1>2. CASE Open BY <1>2, OpenRead
<1>3. CASE Query BY <1>3, QueryRead
<1>4. CASE Parse BY <1>4, ParseRead
<1>5. CASE AttemptFailed BY <1>5, FailedRead
<1>6. CASE Later
  <2>1. /\ UNCHANGED <<platform, reading, attempt, entries>>
        /\ stage \in Listed /\ stage' \in Listed \cup {"make"}
    BY <1>6, LaterMoves DEF tries, listing
  <2> QED BY <2>1, ReadMoves
<1>7. CASE Make
  <2>1. UNCHANGED <<platform, reading, attempt, entries>> /\ stage = "make" /\ stage' = "idle"
    BY <1>7, MakeMoves DEF tries, listing
  <2> QED BY <2>1, ReadMoves
<1>8. CASE Elsewhere
  <2>1. UNCHANGED <<platform, stage, reading, attempt, listing>> BY <1>8, ElsewhereMoves DEF tries
  <2> QED BY <2>1, ReadAlone
<1> QED BY <1>1, <1>2, <1>3, <1>4, <1>5, <1>6, <1>7, <1>8, NextCases

------------------------------------------------------------------------------
(* The strategies *)

\* A device gets the strategy of its own file system.
StrategyInv ==
    /\ strategies \in [DOMAIN FileSystem -> {NotCached, "LocalSync", "NetworkAsync", "SkipNlinks"}]
    /\ \A v \in DOMAIN FileSystem : strategies[v] = "NetworkAsync" => FileSystem[v] = "network"
    /\ uring_available \in {"unset", "yes", "no"}
    /\ stage = "dispatch" /\ strategy = "NetworkAsync" => FileSystem[Device[dir]] = "network"
    /\ stage \in {"ring", "submit", "wait", "harvest", "free", "close"} =>
          FileSystem[Device[dir]] = "network" /\ uring_available = "yes"

LEMMA StrategyInit == ReaderInit => StrategyInv
BY DEF ReaderInit, StrategyInv, NotCached

LEMMA StrategyStep == ReadInv /\ StrategyInv /\ [ReaderNext]_readerVars => StrategyInv'
<1> SUFFICES ASSUME ReadInv, StrategyInv, [ReaderNext]_readerVars PROVE StrategyInv' OBVIOUS
<1>1. CASE Detect
  <2>1. /\ stage = "detect" /\ stage' = "dispatch" /\ dir' = dir /\ uring_available' = uring_available
    BY <1>1 DEF Detect, Goes, reading
  <2>2. Device[dir] \in DOMAIN FileSystem BY <2>1, DRAssumption DEF ReadInv, TriesInv
  <2>3. StatfsStrategies(FileSystem[Device[dir]]) \subseteq {"LocalSync", "NetworkAsync", "SkipNlinks"}
        /\ ("NetworkAsync" \in StatfsStrategies(FileSystem[Device[dir]]) => FileSystem[Device[dir]] = "network")
    BY DEF StatfsStrategies
  <2>4. CASE strategies' = strategies /\ (strategy' = "LocalSync" \/ strategy' = strategies[Device[dir]])
    BY <2>1, <2>2, <2>4 DEF StrategyInv
  <2>5. CASE /\ strategy' \in StatfsStrategies(FileSystem[Device[dir]])
             /\ strategies' = [strategies EXCEPT ![Device[dir]] = strategy']
    BY <2>1, <2>2, <2>3, <2>5 DEF StrategyInv
  <2> QED BY <1>1, <2>4, <2>5 DEF Detect
<1>2. CASE Dispatch BY <1>2 DEF Dispatch, StrategyInv, reading
<1>3. CASE BuildRing BY <1>3 DEF BuildRing, StrategyInv, reading, detection
<1>4. CASE Submit BY <1>4 DEF Submit, StrategyInv, reading, detection
<1>5. CASE WaitForAll BY <1>5 DEF WaitForAll, Goes, StrategyInv, reading, detection
<1>6. CASE Interrupted BY <1>6 DEF Interrupted, Goes, StrategyInv, reading, detection
<1>7. CASE Harvest BY <1>7 DEF Harvest, Goes, StrategyInv, reading, detection
<1>8. CASE FreeBuffers BY <1>8 DEF FreeBuffers, Goes, StrategyInv, reading, detection
<1>9. CASE CloseRing BY <1>9 DEF CloseRing, Goes, StrategyInv, reading, detection
<1>10. CASE QueryNlinks BY <1>10 DEF QueryNlinks, Goes, StrategyInv, reading, detection
<1>11. CASE Later BY <1>1, <1>2, <1>3, <1>4, <1>5, <1>6, <1>7, <1>8, <1>9, <1>10, <1>11 DEF Later
<1>12. CASE Elsewhere
  <2>1. UNCHANGED <<stage, reading, detection>> BY <1>12, ElsewhereMoves
  <2> QED BY <2>1 DEF StrategyInv, reading, detection
<1>13. ASSUME strategies' = strategies, uring_available' = uring_available,
              stage' \in {"idle", "open", "query", "parse", "failed", "detect", "nlinks", "make"}
       PROVE  StrategyInv'
  BY <1>13 DEF StrategyInv
<1>14. ASSUME NEW d, NEW f, Take(d, f) PROVE StrategyInv' BY <1>13, <1>14 DEF Take, Goes
<1>15. CASE Open BY <1>13, <1>15 DEF Open, Goes, detection
<1>16. CASE Query
  <2>1. platform \in {"linux", "windows", "other"} BY DRAssumption DEF ReadInv
  <2> QED BY <1>13, <1>16, <2>1 DEF Query, AfterListing, detection
<1>17. CASE Parse BY <1>13, <1>17 DEF Parse, Goes, detection
<1>18. CASE AttemptFailed BY <1>13, <1>18 DEF AttemptFailed, Finish, detection
<1>19. CASE Make BY <1>13, <1>19 DEF Make, Finish, detection
<1> QED BY <1>11, <1>12, <1>14, <1>15, <1>16, <1>17, <1>18, <1>19, NextCases

------------------------------------------------------------------------------
(* The ring: a second actor, the kernel, writes to the buffers *)

RingStages == {"submit", "wait", "harvest", "free", "close"}

Rings == [open : BOOLEAN, buffers : {"freed", "live"}, inflight : SUBSET (1 .. RingSize),
          completions : Seq([user_data : 1 .. RingSize, ok : BOOLEAN]),
          submitted : Nat, failed : BOOLEAN]

\* A ring is only open while a chunk is being fetched, and the chunks stay
\* within the entries.
RingInv ==
    /\ ring \in Rings
    /\ ring.open => stage \in RingStages
    /\ stage \in RingStages => ring.buffers = IF stage = "close" THEN "freed" ELSE "live"
    /\ stage = "submit" => ring.inflight = {} /\ ring.completions = <<>>
    /\ stage \notin RingStages => ring.inflight = {}
    /\ stage \in RingStages \cup {"ring"} => chunk_start \in 0 .. Len(entries)

LEMMA RingInit == ReaderInit => RingInv
<1>1. NoRing \in Rings /\ NoRing.inflight = {} /\ ~NoRing.open
  <2>1. <<>> \in Seq([user_data : 1 .. RingSize, ok : BOOLEAN]) BY EmptySeq
  <2> QED BY <2>1 DEF NoRing, Rings
<1> QED BY <1>1 DEF ReaderInit, RingInv, RingStages

LEMMA EntriesNat ==
    ASSUME ReadInv, stage \in Listed
    PROVE  Len(entries) \in Nat
BY LenProperties DEF ReadInv, EntriesAre, FirstOf

LEMMA DispatchRing == ReadInv /\ RingInv /\ Dispatch => RingInv'
<1> SUFFICES ASSUME ReadInv, RingInv, Dispatch PROVE RingInv' OBVIOUS
<1>1. /\ stage = "dispatch" /\ stage' \in {"ring", "make"} /\ ring' = ring /\ chunk_start' = 0
      /\ entries' = entries
  BY DEF Dispatch, listing
<1>2. Len(entries) \in Nat BY <1>1, EntriesNat DEF Listed
<1>3. 0 \in 0 .. Len(entries) BY <1>2
<1> QED BY <1>1, <1>3 DEF RingInv, RingStages

LEMMA BuildRingInv == ReadInv /\ RingInv /\ BuildRing => RingInv'
<1> SUFFICES ASSUME ReadInv, RingInv, BuildRing PROVE RingInv' OBVIOUS
<1>1. stage = "ring" /\ chunk_start' = chunk_start /\ entries' = entries BY DEF BuildRing, listing
<1>2. CASE stage' = "make" /\ ring' = ring BY <1>1, <1>2 DEF RingInv, RingStages
<1>3. CASE stage' = "submit" /\ ring' = [NoRing EXCEPT !.open = TRUE, !.buffers = "live"]
  <2>1. ring' = [open |-> TRUE, buffers |-> "live", inflight |-> {}, completions |-> <<>>,
                 submitted |-> 0, failed |-> FALSE]
    BY <1>3 DEF NoRing
  <2>2. <<>> \in Seq([user_data : 1 .. RingSize, ok : BOOLEAN]) BY EmptySeq
  <2>3. ring' \in Rings BY <2>1, <2>2 DEF Rings
  <2>4. ring'.buffers = "live" /\ ring'.inflight = {} /\ ring'.completions = <<>> BY <2>1
  <2> QED BY <1>1, <1>3, <2>3, <2>4 DEF RingInv, RingStages
<1> QED BY <1>2, <1>3 DEF BuildRing

LEMMA SubmitRing == ReadInv /\ RingInv /\ Submit => RingInv'
<1> SUFFICES ASSUME ReadInv, RingInv, Submit PROVE RingInv' OBVIOUS
<1>1. stage = "submit" /\ chunk_start' = chunk_start /\ entries' = entries BY DEF Submit, listing
<1>2. ring \in Rings /\ ring.inflight = {} /\ ring.completions = <<>> /\ ring.buffers = "live"
      /\ chunk_start \in 0 .. Len(entries)
  BY <1>1 DEF RingInv, RingStages
<1>3. Len(entries) \in Nat /\ RingSize \in Nat BY <1>1, EntriesNat, DRAssumption DEF Listed
<1>4. ChunkLen \in 0 .. RingSize BY <1>2, <1>3 DEF ChunkLen, Lesser
<1>5. CASE stage' = "free" /\ ring' = [ring EXCEPT !.failed = TRUE]
  <2>1. ring' \in Rings /\ ring'.inflight = {} /\ ring'.buffers = "live" BY <1>2, <1>5 DEF Rings
  <2> QED BY <1>1, <1>2, <1>5, <2>1 DEF RingInv, RingStages
<1>6. CASE /\ stage' = "wait"
           /\ ring' = [ring EXCEPT !.submitted = ChunkLen, !.inflight = 1 .. ChunkLen]
  <2> DEFINE c == ChunkLen
  <2>1. 1 .. c \subseteq 1 .. RingSize /\ c \in Nat BY <1>3, <1>4
  <2> HIDE DEF c
  <2>2. ring' = [ring EXCEPT !.submitted = c, !.inflight = 1 .. c] BY <1>6 DEF c
  <2>3. ring' \in Rings /\ ring'.buffers = "live" BY <1>2, <2>1, <2>2 DEF Rings
  <2> QED BY <1>1, <1>2, <1>6, <2>3 DEF RingInv, RingStages
<1> QED BY <1>5, <1>6 DEF Submit

LEMMA CompleteRing ==
    ASSUME RingInv, NEW i \in 1 .. RingSize, NEW ok \in BOOLEAN, Complete(i, ok)
    PROVE  RingInv'
<1> DEFINE a == [user_data |-> i, ok |-> ok]
<1>1. /\ i \in ring.inflight /\ stage' = stage /\ chunk_start' = chunk_start /\ entries' = entries
      /\ ring' = [ring EXCEPT !.inflight = ring.inflight \ {i}, !.completions = Append(ring.completions, a)]
  BY DEF Complete, listing
<1>2. ring \in Rings BY DEF RingInv
<1>3. a \in [user_data : 1 .. RingSize, ok : BOOLEAN] OBVIOUS
<1> HIDE DEF a
<1>4. Append(ring.completions, a) \in Seq([user_data : 1 .. RingSize, ok : BOOLEAN])
  BY <1>2, <1>3, AppendProperties DEF Rings
<1>5. /\ ring'.inflight = ring.inflight \ {i} /\ ring'.completions = Append(ring.completions, a)
      /\ ring'.open = ring.open /\ ring'.buffers = ring.buffers /\ ring' \in Rings
  BY <1>1, <1>2, <1>4 DEF Rings
<1> QED BY <1>1, <1>5 DEF RingInv, RingStages

LEMMA WaitRing == RingInv /\ (WaitForAll \/ Interrupted) => RingInv'
BY DEF WaitForAll, Interrupted, Goes, batch, listing, RingInv, RingStages

LEMMA RestRing == ReadInv /\ RingInv /\ (Harvest \/ FreeBuffers \/ CloseRing) => RingInv'
<1> SUFFICES ASSUME ReadInv, RingInv, Harvest \/ FreeBuffers \/ CloseRing PROVE RingInv'
  OBVIOUS
<1>1. ring \in Rings BY DEF RingInv
<1>2. CASE Harvest BY <1>2 DEF Harvest, Goes, RingInv, RingStages, listing
<1>3. CASE FreeBuffers
  <2>1. /\ stage = "free" /\ stage' = "close" /\ chunk_start' = chunk_start /\ entries' = entries
        /\ ring' = [ring EXCEPT !.buffers = "freed"]
    BY <1>3 DEF FreeBuffers, Goes, listing
  <2>2. ring' \in Rings /\ ring'.buffers = "freed" /\ ring'.inflight = ring.inflight
    BY <1>1, <2>1 DEF Rings
  <2> QED BY <2>1, <2>2 DEF RingInv, RingStages
<1>4. CASE CloseRing
  <2>1. /\ stage = "close" /\ ring' = NoRing /\ chunk_start' = chunk_start + RingSize
        /\ entries' = entries
        /\ stage' = "make" \/ (stage' = "ring" /\ ~(chunk_start + RingSize >= Len(entries)))
    BY <1>4 DEF CloseRing, Goes, listing
  <2>2. NoRing \in Rings /\ NoRing.inflight = {} /\ ~NoRing.open
    <3>1. <<>> \in Seq([user_data : 1 .. RingSize, ok : BOOLEAN]) BY EmptySeq
    <3> QED BY <3>1 DEF NoRing, Rings
  <2>3. stage' = "ring" => chunk_start' \in 0 .. Len(entries')
    <3>1. Len(entries) \in Nat /\ RingSize \in Nat BY <2>1, EntriesNat, DRAssumption DEF Listed
    <3>2. chunk_start \in 0 .. Len(entries) BY <2>1 DEF RingInv, RingStages
    <3> QED BY <2>1, <3>1, <3>2
  <2> HIDE DEF NoRing
  <2> QED BY <2>1, <2>2, <2>3 DEF RingInv, RingStages
<1> QED BY <1>2, <1>3, <1>4

LEMMA RingStep == ReadInv /\ RingInv /\ [ReaderNext]_readerVars => RingInv'
<1> SUFFICES ASSUME ReadInv, RingInv, [ReaderNext]_readerVars PROVE RingInv' OBVIOUS
<1>1. ASSUME ring' = ring, stage \notin RingStages, stage' \notin RingStages \cup {"ring"} PROVE RingInv'
  BY <1>1 DEF RingInv, RingStages
<1>2. CASE Later
  <2>1. CASE Detect BY <1>1, <2>1 DEF Detect, Goes, batch, RingStages
  <2>2. CASE QueryNlinks BY <1>1, <2>2 DEF QueryNlinks, Goes, RingStages
  <2> QED BY <1>2, <2>1, <2>2, DispatchRing, BuildRingInv, SubmitRing, WaitRing, RestRing DEF Later
<1>3. CASE Elsewhere
  <2>1. CASE \E i \in 1 .. RingSize, ok \in BOOLEAN : Complete(i, ok) BY <2>1, CompleteRing
  <2>2. CASE RaiseStop \/ UNCHANGED readerVars
    <3>1. stage' = stage /\ ring' = ring /\ chunk_start' = chunk_start /\ entries' = entries
      BY <2>2 DEF RaiseStop, readerVars, listing, batch
    <3> QED BY <3>1 DEF RingInv
  <2> QED BY <1>3, <2>1, <2>2 DEF Elsewhere
<1>4. CASE \E d \in Dirs, f \in FaultCases : Take(d, f) BY <1>1, <1>4 DEF Take, Goes, RingStages
<1>5. CASE Open BY <1>1, <1>5 DEF Open, Goes, batch, RingStages
<1>6. CASE Query
  <2>1. platform \in {"linux", "windows", "other"} BY DRAssumption DEF ReadInv
  <2>2. AfterListing \in {"detect", "nlinks", "make"} BY <2>1 DEF AfterListing
  <2>3. ring' = ring /\ stage = "query" /\ stage' \in {"parse", "failed", AfterListing} BY <1>6 DEF Query
  <2> QED BY <1>1, <2>2, <2>3 DEF RingStages
<1>7. CASE Parse BY <1>1, <1>7 DEF Parse, Goes, batch, RingStages
<1>8. CASE AttemptFailed BY <1>1, <1>8 DEF AttemptFailed, Finish, batch, RingStages
<1>9. CASE Make
  <2>1. ring' = ring BY <1>9 DEF Make, batch
  <2> QED BY <1>1, <1>9, <2>1, MakeMoves DEF RingStages
<1> QED BY <1>2, <1>3, <1>4, <1>5, <1>6, <1>7, <1>8, <1>9, NextCases

------------------------------------------------------------------------------
(* The streaming *)

Items(seq) == {seq[n] : n \in DOMAIN seq}

Names(list) == {list[n].name : n \in DOMAIN list}

\* Distinct items, all of them of the set.
Distinct(seq, S) ==
    /\ seq \in Seq(S)
    /\ IsFiniteSet(Items(seq))
    /\ Cardinality(Items(seq)) = Len(seq)

(***************************************************************************)
(* What is scheduled are names of entries parsed already, and the count is *)
(* that of what is scheduled: an attempt that scheduled anything is the    *)
(* last one, and only the first attempt streams.                           *)
(***************************************************************************)
ScheduleInv ==
    /\ Distinct(scheduled, Names(Listing[dir]))
    /\ stage = "open" => scheduled = <<>> /\ (streaming_ctx <=> options.streaming /\ attempt = 0)
    /\ stage \notin {"idle", "open"} =>
          /\ ~streaming_ctx
          /\ streamed_count = Len(scheduled)
          /\ Items(scheduled) \subseteq Names(entries)
          /\ use_streaming <=> attempt = 0 /\ Streams(options.streaming)
          /\ ~use_streaming => scheduled = <<>>
    /\ Done => Len(scheduled) = IF result.ok THEN result.streamed ELSE 0

LEMMA NoneDistinct == ASSUME NEW S PROVE Distinct(<<>>, S)
<1>1. <<>> \in Seq(S) /\ Len(<<>>) = 0 BY EmptySeq
<1>2. Items(<<>>) = {} BY DEF Items
<1> QED BY <1>1, <1>2, FS_EmptySet DEF Distinct

LEMMA OneMoreDistinct ==
    ASSUME NEW S, NEW seq, Distinct(seq, S), NEW x \in S, x \notin Items(seq)
    PROVE  /\ Distinct(Append(seq, x), S)
           /\ Items(Append(seq, x)) = Items(seq) \cup {x}
           /\ Len(Append(seq, x)) = Len(seq) + 1
<1>1. /\ seq \in Seq(S) /\ IsFiniteSet(Items(seq)) /\ Cardinality(Items(seq)) = Len(seq)
  BY DEF Distinct
<1>2. Len(seq) \in Nat /\ DOMAIN seq = 1 .. Len(seq) BY <1>1, LenProperties
<1> DEFINE more == Append(seq, x)
<1>3. /\ more \in Seq(S) /\ Len(more) = Len(seq) + 1
      /\ \A n \in 1 .. Len(seq) : more[n] = seq[n]
      /\ more[Len(seq) + 1] = x
  BY <1>1, AppendProperties
<1> HIDE DEF more
<1>4. DOMAIN more = 1 .. (Len(seq) + 1) BY <1>3, LenProperties
<1>5. /\ \A n \in DOMAIN seq : n \in DOMAIN more
      /\ Len(seq) + 1 \in DOMAIN more
      /\ \A n \in DOMAIN more : n \in DOMAIN seq \/ n = Len(seq) + 1
  BY <1>2, <1>4
<1>6. Items(more) = Items(seq) \cup {x} BY <1>2, <1>3, <1>5 DEF Items
<1>7. IsFiniteSet(Items(more)) /\ Cardinality(Items(more)) = Len(seq) + 1
  BY <1>1, <1>6, FS_AddElement
<1> QED BY <1>3, <1>6, <1>7 DEF Distinct, more

LEMMA ScheduleInit == ReaderInit => ScheduleInv
BY NoneDistinct DEF ReaderInit, ScheduleInv, Done

LEMMA TakeSchedule ==
    ASSUME ScheduleInv, NEW d, NEW f, Take(d, f)
    PROVE  ScheduleInv'
<1>1. /\ stage' = "open" /\ scheduled' = <<>> /\ attempt' = 0 /\ options' = options
      /\ streaming_ctx' = options.streaming
  BY DEF Take, Goes, fixed
<1>2. Distinct(scheduled', Names(Listing[dir'])) BY <1>1, NoneDistinct
<1> QED BY <1>1, <1>2 DEF ScheduleInv, Done

LEMMA OpenSchedule == ScheduleInv /\ Open => ScheduleInv'
<1> SUFFICES ASSUME ScheduleInv, Open PROVE ScheduleInv' OBVIOUS
<1>1. /\ stage = "open" /\ stage' \in {"failed", "query"} /\ scheduled' = scheduled /\ dir' = dir
      /\ attempt' = attempt /\ options' = options /\ platform' = platform
      /\ streamed_count' = 0 /\ use_streaming' = Streams(streaming_ctx) /\ streaming_ctx' = FALSE
  BY DEF Open, Goes, fixed, reading
<1>2. scheduled = <<>> /\ (streaming_ctx <=> options.streaming /\ attempt = 0)
      /\ Distinct(scheduled, Names(Listing[dir]))
  BY <1>1 DEF ScheduleInv
<1>3. Streams(streaming_ctx) <=> attempt = 0 /\ Streams(options.streaming) BY <1>2 DEF Streams
<1>4. Streams(options.streaming)' <=> Streams(options.streaming) BY <1>1 DEF Streams
<1>5. Len(<<>>) = 0 /\ Items(<<>>) = {} BY EmptySeq DEF Items
<1> QED BY <1>1, <1>2, <1>3, <1>4, <1>5 DEF ScheduleInv, Done

\* Steps that schedule nothing.
LEMMA ScheduleMoves ==
    ASSUME ScheduleInv,
           UNCHANGED <<platform, options, reading, tries, scheduled, streamed_count, use_streaming,
                       entries>>,
           \/ stage \notin {"idle", "open"} /\ stage' \notin {"idle", "open"}
           \/ stage' = stage /\ result' = result
    PROVE  ScheduleInv'
<1>1. /\ platform' = platform /\ options' = options /\ reads' = reads /\ dir' = dir
      /\ attempt' = attempt /\ scheduled' = scheduled /\ streamed_count' = streamed_count
      /\ use_streaming' = use_streaming /\ entries' = entries /\ streaming_ctx' = streaming_ctx
  BY DEF reading, tries
<1>2. Streams(options.streaming)' <=> Streams(options.streaming) BY <1>1 DEF Streams
<1> QED BY <1>1, <1>2 DEF ScheduleInv, Done

LEMMA ParseSchedule == ReadInv /\ ScheduleInv /\ Parse => ScheduleInv'
<1> SUFFICES ASSUME ReadInv, ScheduleInv, Parse PROVE ScheduleInv' OBVIOUS
<1> DEFINE p == (cursor - loaded) + slot
           entry == Listing[dir][p - Dots]
           schedules == p > Dots /\ Schedules(entry)
<1>1. /\ stage = "parse" /\ stage' \in {"parse", "query"} /\ platform' = platform /\ reads' = reads
      /\ dir' = dir /\ attempt' = attempt /\ options' = options /\ use_streaming' = use_streaming
      /\ streaming_ctx' = streaming_ctx
  BY DEF Parse, Goes, fixed, reading, tries
<1>2. /\ buffer[slot] = [dir |-> dir, pos |-> p, next |-> slot < loaded]
      /\ p \in 1 .. Available /\ FirstOf(dir, entries, p - 1) /\ TriesInv
  BY <1>1, ParseRecord DEF EntriesAre, ReadInv
<1>3. /\ Available \in Nat /\ Available - Dots \in 0 .. Len(Listing[dir])
      /\ Len(Listing[dir]) \in Nat /\ DOMAIN Listing[dir] = 1 .. Len(Listing[dir])
      /\ dir \in Dirs
  BY <1>2, ListingFacts DEF TriesInv
<1>4. /\ entries' = IF p > Dots THEN Append(entries, entry) ELSE entries
      /\ scheduled' = IF schedules THEN Append(scheduled, entry.name) ELSE scheduled
      /\ streamed_count' = IF schedules THEN streamed_count + 1 ELSE streamed_count
  <2>1. buffer[slot].pos = p /\ buffer[slot].dir = dir BY <1>2
  <2> HIDE DEF p
  <2> QED BY <2>1 DEF Parse
<1>5. Streams(options.streaming)' <=> Streams(options.streaming) BY <1>1 DEF Streams
<1>6. /\ Distinct(scheduled, Names(Listing[dir])) /\ streamed_count = Len(scheduled) /\ ~streaming_ctx
      /\ Items(scheduled) \subseteq Names(entries)
      /\ use_streaming <=> attempt = 0 /\ Streams(options.streaming)
      /\ ~use_streaming => scheduled = <<>>
  BY <1>1 DEF ScheduleInv
<1>7. /\ entries \in Seq(Found(dir)) /\ \A n \in DOMAIN entries : entries[n] = Listing[dir][n]
      /\ Len(entries) = (IF p - 1 > Dots THEN (p - 1) - Dots ELSE 0)
  BY <1>2 DEF FirstOf
<1>8. DOMAIN entries = 1 .. Len(entries) BY <1>7, LenProperties
<1> HIDE DEF p
<1>9. CASE p > Dots
  <2>1. /\ p - Dots \in DOMAIN Listing[dir]
        /\ \A n \in DOMAIN entries : n \in DOMAIN Listing[dir] /\ n # p - Dots
    BY <1>2, <1>3, <1>7, <1>8, <1>9 DEF Dots
  <2>2. entry.name \in Names(Listing[dir]) BY <2>1 DEF Names
  <2>3. entry.name \notin Names(entries)
    <3>1. \A n \in DOMAIN entries : Listing[dir][n].name # entry.name BY <1>3, <2>1, DRAssumption
    <3> QED BY <1>7, <3>1 DEF Names
  <2> HIDE DEF entry
  <2>4. /\ Names(entries) \cup {entry.name} \subseteq Names(entries')
    <3>1. entries' = Append(entries, entry) /\ entry \in Found(dir) BY <1>4, <1>9, <2>1 DEF entry, Found
    <3>2. /\ entries' \in Seq(Found(dir)) /\ Len(entries') = Len(entries) + 1
          /\ \A n \in 1 .. Len(entries) : entries'[n] = entries[n]
          /\ entries'[Len(entries) + 1] = entry
      BY <1>7, <3>1, AppendProperties
    <3>3. Len(entries) \in Nat /\ DOMAIN entries' = 1 .. (Len(entries) + 1)
      BY <1>7, <3>2, LenProperties
    <3>4. Len(entries) + 1 \in DOMAIN entries' /\ \A n \in DOMAIN entries : n \in DOMAIN entries'
      BY <1>8, <3>3
    <3> QED BY <1>8, <3>2, <3>4 DEF Names
  <2>5. CASE schedules
    <3>1. scheduled' = Append(scheduled, entry.name) /\ streamed_count' = streamed_count + 1
      BY <1>4, <2>5
    <3>2. /\ Distinct(scheduled', Names(Listing[dir]))
          /\ Items(scheduled') = Items(scheduled) \cup {entry.name}
          /\ Len(scheduled') = Len(scheduled) + 1
      BY <1>6, <2>2, <2>3, <3>1, OneMoreDistinct
    <3>3. Items(scheduled') \subseteq Names(entries') BY <1>6, <2>4, <3>2
    <3>4. use_streaming BY <2>5 DEF Schedules
    <3> QED BY <1>1, <1>5, <1>6, <3>1, <3>2, <3>3, <3>4 DEF ScheduleInv, Done
  <2>6. CASE ~schedules
    <3>1. scheduled' = scheduled /\ streamed_count' = streamed_count BY <1>4, <2>6
    <3> QED BY <1>1, <1>5, <1>6, <2>4, <3>1 DEF ScheduleInv, Done
  <2> QED BY <2>5, <2>6
<1>10. CASE ~(p > Dots)
  <2>1. scheduled' = scheduled /\ streamed_count' = streamed_count /\ entries' = entries BY <1>4, <1>10
  <2> QED BY <1>1, <1>5, <1>6, <2>1 DEF ScheduleInv, Done
<1> QED BY <1>9, <1>10

LEMMA FailedSchedule == ReadInv /\ ScheduleInv /\ AttemptFailed => ScheduleInv'
<1> SUFFICES ASSUME ReadInv, ScheduleInv, AttemptFailed PROVE ScheduleInv' OBVIOUS
<1>1. /\ stage = "failed" /\ platform' = platform /\ options' = options /\ reads' = reads /\ dir' = dir
      /\ fault' = fault /\ streaming_ctx' = streaming_ctx /\ scheduled' = scheduled
      /\ streamed_count' = streamed_count /\ use_streaming' = use_streaming /\ entries' = entries
  BY DEF AttemptFailed, fixed, reading, listing
<1>2. /\ Distinct(scheduled, Names(Listing[dir])) /\ streamed_count = Len(scheduled)
      /\ scheduled \in Seq(Names(Listing[dir]))
  BY <1>1 DEF ScheduleInv, Distinct
<1>3. Len(scheduled) \in Nat BY <1>2, LenProperties
<1>4. CASE stage' = "make" /\ attempt' = attempt
  BY <1>1, <1>4, ScheduleMoves DEF reading, tries
<1>5. CASE /\ stage' = "idle" /\ streamed_count > 0
           /\ result' = R!ReadOk(<<[entry |-> R!ErrorEntry(dir), meta |-> <<>>]>>, streamed_count)
  <2>1. result'.ok /\ result'.streamed = streamed_count BY <1>5 DEF R!ReadOk
  <2> QED BY <1>1, <1>2, <1>5, <2>1 DEF ScheduleInv, Done
<1>6. CASE stage' = "idle" /\ ~(streamed_count > 0) /\ result' = R!ReadErr
  <2>1. ~result'.ok BY <1>6 DEF R!ReadErr
  <2>2. Len(scheduled) = 0 BY <1>2, <1>3, <1>6
  <2> QED BY <1>1, <1>2, <1>6, <2>1, <2>2 DEF ScheduleInv, Done
<1>7. CASE stage' = "open" /\ ~(streamed_count > 0) /\ attempt' = attempt + 1
  <2>1. Len(scheduled) = 0 BY <1>2, <1>3, <1>7
  <2>2. scheduled = <<>> BY <1>2, <2>1, EmptySeq
  <2>3. attempt' # 0 BY <1>7, DRAssumption DEF ReadInv
  <2>4. ~streaming_ctx BY <1>1 DEF ScheduleInv
  <2> QED BY <1>1, <1>2, <1>7, <2>2, <2>3, <2>4 DEF ScheduleInv, Done
<1> QED BY <1>4, <1>5, <1>6, <1>7 DEF AttemptFailed, Finish

LEMMA MakeSchedule == ScheduleInv /\ Make => ScheduleInv'
<1> SUFFICES ASSUME ScheduleInv, Make PROVE ScheduleInv' OBVIOUS
<1>1. /\ stage = "make" /\ stage' = "idle" /\ dir' = dir /\ scheduled' = scheduled
  BY MakeMoves DEF reading, listing
<1>2. result'.ok /\ result'.streamed = streamed_count BY DEF Make, Finish, R!ReadOk
<1>3. streamed_count = Len(scheduled) /\ Distinct(scheduled, Names(Listing[dir])) BY <1>1 DEF ScheduleInv
<1> QED BY <1>1, <1>2, <1>3 DEF ScheduleInv, Done

LEMMA ScheduleStep == ReadInv /\ ScheduleInv /\ [ReaderNext]_readerVars => ScheduleInv'
<1> SUFFICES ASSUME ReadInv, ScheduleInv, [ReaderNext]_readerVars PROVE ScheduleInv' OBVIOUS
<1>1. CASE Later
  <2>1. /\ UNCHANGED <<platform, options, reading, tries, scheduled, streamed_count, use_streaming,
                       entries>>
        /\ stage \notin {"idle", "open"} /\ stage' \notin {"idle", "open"}
    BY <1>1, LaterMoves DEF listing, Listed
  <2> QED BY <2>1, ScheduleMoves
<1>2. CASE Elsewhere
  <2>1. /\ UNCHANGED <<platform, options, reading, tries, scheduled, streamed_count, use_streaming,
                       entries>>
        /\ stage' = stage /\ result' = result
    BY <1>2, ElsewhereMoves DEF listing
  <2> QED BY <2>1, ScheduleMoves
<1>3. CASE Query
  <2>1. platform \in {"linux", "windows", "other"} BY DRAssumption DEF ReadInv
  <2>2. AfterListing \in {"detect", "nlinks", "make"} BY <2>1 DEF AfterListing
  <2>3. /\ UNCHANGED <<platform, options, reading, tries, scheduled, streamed_count, use_streaming,
                       entries>>
        /\ stage = "query" /\ stage' \in {"parse", "failed", AfterListing}
    BY <1>3 DEF Query, fixed
  <2> QED BY <2>2, <2>3, ScheduleMoves
<1> QED BY <1>1, <1>2, <1>3, TakeSchedule, OpenSchedule, ParseSchedule, FailedSchedule, MakeSchedule,
           NextCases

------------------------------------------------------------------------------
(* The metadata fetched beforehand *)

\* What an entry was given is its own, and a call for it alone would give it
\* too.
Own(entry, got) ==
    \/ got = NotFetched
    \/ /\ got = entry.name
       /\ platform = "windows" \/ (platform = "linux" /\ entry.stat = "statx")

Fetched == \A n \in DOMAIN entries : Own(entries[n], prefetched[n])

\* Answers that did not fail are to requests for which statx works.
Answered(completions, start) ==
    \A k \in DOMAIN completions :
        completions[k].ok => entries[start + completions[k].user_data].stat = "statx"

FetchInv ==
    /\ stage \in Listed \cup {"make"} \/ (stage = "failed" /\ fault.opened) => Fetched
    /\ stage \in Listed \ {"nlinks"} => platform = "linux"
    /\ stage = "nlinks" => platform = "windows"
    /\ stage \in RingStages => Answered(ring.completions, chunk_start)

LEMMA FetchInit == ReaderInit => FetchInv
BY DEF ReaderInit, FetchInv, Listed, RingStages

\* A step of the strategy or the batch that fetches nothing.
LEMMA FetchMoves ==
    ASSUME FetchInv, UNCHANGED <<platform, fault, entries, prefetched>>,
           stage \in Listed \ {"nlinks"}, stage' \in (Listed \ {"nlinks"}) \cup {"make"},
           \/ stage' \notin RingStages
           \/ ring'.completions = <<>>
           \/ /\ stage \in RingStages
              /\ ring'.completions = ring.completions /\ chunk_start' = chunk_start
    PROVE  FetchInv'
<1>1. Fetched => Fetched' BY DEF Fetched, Own
<1>2. stage' \in RingStages => Answered(ring.completions, chunk_start)'
  BY DEF FetchInv, Answered
<1> QED BY <1>1, <1>2 DEF FetchInv, Listed

LEMMA HarvestFetch == FetchInv /\ Harvest => FetchInv'
<1> SUFFICES ASSUME FetchInv, Harvest PROVE FetchInv' OBVIOUS
<1>1. /\ stage = "harvest" /\ stage' = "free" /\ platform' = platform /\ fault' = fault
      /\ entries' = entries /\ ring' = ring /\ chunk_start' = chunk_start
  BY DEF Harvest, Goes, fixed, reading, listing
<1>2. Fetched /\ platform = "linux" /\ Answered(ring.completions, chunk_start)
  BY <1>1 DEF FetchInv, Listed, RingStages
<1>3. ASSUME NEW n \in DOMAIN entries PROVE Own(entries[n], prefetched'[n])
  <2>1. prefetched'[n] = IF \E k \in Harvested : chunk_start + ring.completions[k].user_data = n
                         THEN entries[n].name ELSE prefetched[n]
    BY DEF Harvest
  <2>2. CASE \E k \in Harvested : chunk_start + ring.completions[k].user_data = n
    <3>1. entries[n].stat = "statx" BY <1>2, <2>2 DEF Answered, Harvested
    <3> QED BY <1>2, <2>1, <2>2, <3>1 DEF Own
  <2>3. CASE ~\E k \in Harvested : chunk_start + ring.completions[k].user_data = n
    BY <1>2, <2>1, <2>3 DEF Fetched
  <2> QED BY <2>2, <2>3
<1>4. Fetched' BY <1>1, <1>3 DEF Fetched, Own
<1>5. Answered(ring.completions, chunk_start)' BY <1>1, <1>2 DEF Answered
<1> QED BY <1>1, <1>2, <1>4, <1>5 DEF FetchInv, Listed

LEMMA NlinksFetch == FetchInv /\ QueryNlinks => FetchInv'
<1> SUFFICES ASSUME FetchInv, QueryNlinks PROVE FetchInv' OBVIOUS
<1>1. /\ stage = "nlinks" /\ stage' = "make" /\ platform' = platform /\ fault' = fault
      /\ entries' = entries
  BY DEF QueryNlinks, Goes, fixed, reading, listing
<1>2. platform = "windows" BY <1>1 DEF FetchInv
<1>3. \A n \in DOMAIN entries : prefetched'[n] = entries[n].name \/ prefetched'[n] = NotFetched
  BY DEF QueryNlinks
<1>4. Fetched' BY <1>1, <1>2, <1>3 DEF Fetched, Own
<1> QED BY <1>1, <1>4 DEF FetchInv, Listed, RingStages

LEMMA CompleteFetch ==
    ASSUME RingInv, FetchInv, NEW i \in 1 .. RingSize, NEW ok \in BOOLEAN, Complete(i, ok)
    PROVE  FetchInv'
<1> DEFINE a == [user_data |-> i, ok |-> ok]
<1>1. /\ stage' = stage /\ platform' = platform /\ fault' = fault /\ entries' = entries
      /\ prefetched' = prefetched /\ chunk_start' = chunk_start
      /\ ok => entries[chunk_start + i].stat = "statx"
      /\ ring' = [ring EXCEPT !.inflight = ring.inflight \ {i}, !.completions = Append(ring.completions, a)]
  BY DEF Complete, fixed, reading, listing
<1>2. Fetched => Fetched' BY <1>1 DEF Fetched, Own
<1>3. ASSUME stage \in RingStages PROVE Answered(ring.completions, chunk_start)'
  <2>1. Answered(ring.completions, chunk_start) BY <1>3 DEF FetchInv
  <2>2. a \in [user_data : 1 .. RingSize, ok : BOOLEAN] /\ a.ok = ok /\ a.user_data = i OBVIOUS
  <2> HIDE DEF a
  <2>3. ring \in Rings BY DEF RingInv
  <2>4. /\ Append(ring.completions, a) \in Seq([user_data : 1 .. RingSize, ok : BOOLEAN])
        /\ Len(Append(ring.completions, a)) = Len(ring.completions) + 1
        /\ Len(ring.completions) \in Nat
        /\ \A k \in 1 .. Len(ring.completions) : Append(ring.completions, a)[k] = ring.completions[k]
        /\ Append(ring.completions, a)[Len(ring.completions) + 1] = a
        /\ DOMAIN ring.completions = 1 .. Len(ring.completions)
    BY <2>2, <2>3, AppendProperties, LenProperties DEF Rings
  <2>5. ring'.completions = Append(ring.completions, a) BY <1>1, <2>3 DEF Rings
  <2> DEFINE more == ring'.completions
  <2>6. DOMAIN more = 1 .. (Len(ring.completions) + 1) BY <2>4, <2>5, LenProperties
  <2>7. ASSUME NEW k \in DOMAIN more, more[k].ok
        PROVE  entries[chunk_start + more[k].user_data].stat = "statx"
    <3>1. k \in DOMAIN ring.completions \/ k = Len(ring.completions) + 1 BY <2>4, <2>6
    <3>2. CASE k \in DOMAIN ring.completions BY <2>1, <2>4, <2>5, <2>7, <3>2 DEF Answered
    <3>3. CASE k = Len(ring.completions) + 1 BY <1>1, <2>2, <2>4, <2>5, <2>7, <3>3
    <3> QED BY <3>1, <3>2, <3>3
  <2> QED BY <1>1, <2>7 DEF Answered
<1> QED BY <1>1, <1>2, <1>3 DEF FetchInv

LEMMA QueryFetch == ReadInv /\ FetchInv /\ Query => FetchInv'
<1> SUFFICES ASSUME ReadInv, FetchInv, Query PROVE FetchInv' OBVIOUS
<1>1. /\ stage = "query" /\ platform' = platform /\ fault' = fault /\ entries' = entries
  BY DEF Query, fixed, reading
<1>2. CASE stage' = "parse" BY <1>2 DEF FetchInv, Listed, RingStages
<1>3. CASE /\ stage' = (IF Fails THEN "failed" ELSE AfterListing)
           /\ prefetched' = [n \in DOMAIN entries |-> NotFetched]
  <2>1. Fetched' BY <1>1, <1>3 DEF Fetched, Own
  <2>2. platform \in {"linux", "windows", "other"} BY DRAssumption DEF ReadInv
  <2>3. \/ platform = "linux" /\ stage' = "detect"
        \/ platform = "windows" /\ stage' = "nlinks"
        \/ stage' \in {"failed", "make"}
    BY <1>3, <2>2 DEF AfterListing
  <2> QED BY <1>1, <2>1, <2>3 DEF FetchInv, Listed, RingStages
<1> QED BY <1>2, <1>3 DEF Query

LEMMA FetchStep == ReadInv /\ RingInv /\ FetchInv /\ [ReaderNext]_readerVars => FetchInv'
<1> SUFFICES ASSUME ReadInv, RingInv, FetchInv, [ReaderNext]_readerVars PROVE FetchInv' OBVIOUS
<1>1. CASE Detect BY <1>1, FetchMoves DEF Detect, Goes, Listed, RingStages, fixed, reading, listing, batch
<1>2. CASE Dispatch BY <1>2, FetchMoves DEF Dispatch, Listed, RingStages, fixed, reading, listing
<1>3. CASE BuildRing
  <2>1. stage' = "make" \/ (stage' = "submit" /\ ring'.completions = <<>>)
    BY <1>3 DEF BuildRing, NoRing
  <2> QED BY <1>3, <2>1, FetchMoves DEF BuildRing, Listed, RingStages, fixed, reading, listing
<1>4. CASE Submit
  <2>1. ring'.completions = ring.completions BY <1>4 DEF Submit, RingInv, Rings
  <2> QED BY <1>4, <2>1, FetchMoves DEF Submit, Listed, RingStages, fixed, reading, listing
<1>5. CASE WaitForAll
  BY <1>5, FetchMoves DEF WaitForAll, Goes, Listed, RingStages, fixed, reading, listing, batch
<1>6. CASE Interrupted
  BY <1>6, FetchMoves DEF Interrupted, Goes, Listed, RingStages, fixed, reading, listing, batch
<1>7. CASE FreeBuffers
  <2>1. ring'.completions = ring.completions BY <1>7 DEF FreeBuffers, RingInv, Rings
  <2> QED BY <1>7, <2>1, FetchMoves DEF FreeBuffers, Goes, Listed, RingStages, fixed, reading, listing
<1>8. CASE CloseRing
  BY <1>8, FetchMoves DEF CloseRing, Goes, Listed, RingStages, fixed, reading, listing
<1>9. CASE Later
  BY <1>1, <1>2, <1>3, <1>4, <1>5, <1>6, <1>7, <1>8, <1>9, HarvestFetch, NlinksFetch DEF Later
<1>10. CASE Elsewhere
  <2>1. CASE RaiseStop \/ UNCHANGED readerVars
    <3>1. /\ stage' = stage /\ platform' = platform /\ fault' = fault /\ entries' = entries
          /\ prefetched' = prefetched /\ ring' = ring /\ chunk_start' = chunk_start
      BY <2>1 DEF RaiseStop, readerVars, fixed, reading, listing, batch
    <3>2. (Fetched => Fetched') /\ (Answered(ring.completions, chunk_start) => Answered(ring.completions, chunk_start)')
      BY <3>1 DEF Fetched, Own, Answered
    <3> QED BY <3>1, <3>2 DEF FetchInv
  <2> QED BY <1>10, <2>1, CompleteFetch DEF Elsewhere
<1>11. ASSUME stage' \in {"idle", "open", "query", "parse"} \/ (stage' = "failed" /\ ~fault'.opened)
       PROVE  FetchInv'
  BY <1>11 DEF FetchInv, Listed, RingStages
<1>12. CASE \E d \in Dirs, f \in FaultCases : Take(d, f) BY <1>11, <1>12 DEF Take, Goes
<1>13. CASE Open BY <1>11, <1>13 DEF Open, Goes, reading
<1>14. CASE Parse BY <1>11, <1>14 DEF Parse, Goes
<1>15. CASE AttemptFailed
  <2>1. CASE stage' = "make" /\ fault.opened
    <3>1. /\ stage = "failed" /\ platform' = platform /\ entries' = entries /\ prefetched' = prefetched
      BY <1>15 DEF AttemptFailed, fixed, listing, batch
    <3>2. Fetched BY <2>1, <3>1 DEF FetchInv
    <3>3. Fetched' BY <3>1, <3>2 DEF Fetched, Own
    <3> QED BY <2>1, <3>3 DEF FetchInv, Listed, RingStages
  <2> QED BY <1>11, <1>15, <2>1 DEF AttemptFailed, Finish
<1>16. CASE Make BY <1>11, <1>16, MakeMoves
<1> QED BY <1>9, <1>10, <1>12, <1>13, <1>14, <1>15, <1>16, QueryFetch, NextCases

------------------------------------------------------------------------------
(* Which subdirectories are scheduled *)

Wants(entry) == R!IsStreamed(entry) /\ ~Hidden(entry)

Wanted(list) == {n \in DOMAIN list : Wants(list[n])}

\* Their names, in the order of the listing.
WantedNames(list) ==
    [k \in 1 .. Cardinality(Wanted(list)) |-> list[InOrder(Wanted(list))[k]].name]

(***************************************************************************)
(* Until the walk is stopped, everything the first attempt meets is        *)
(* scheduled, so that a second attempt means it met nothing of the kind.   *)
(***************************************************************************)
StreamInv ==
    /\ stage \notin {"idle", "open"} \/ Done =>
          /\ attempt > 0 \/ ~Streams(options.streaming) => scheduled = <<>>
          /\ Streams(options.streaming) /\ attempt = 0 /\ ~stop => scheduled = WantedNames(entries)
    /\ stage # "idle" \/ reads > 0 =>
          (attempt > 0 /\ Streams(options.streaming) /\ ~stop =>
              \A n \in 1 .. fault.after : ~Wants(Listing[dir][n]))

LEMMA StreamInit == ReaderInit => StreamInv
BY DEF ReaderInit, StreamInv, Done

\* What is wanted depends on the build and the options only.
LEMMA SameWanted ==
    ASSUME platform' = platform, options' = options
    PROVE  /\ Streams(options.streaming)' <=> Streams(options.streaming)
           /\ \A entry : Wants(entry)' <=> Wants(entry)
           /\ \A list : WantedNames(list)' = WantedNames(list)
<1>1. Streams(options.streaming)' <=> Streams(options.streaming) BY DEF Streams
<1>2. \A entry : Wants(entry)' <=> Wants(entry)
  BY DEF Wants, Hidden, R!IsStreamed, R!StreamedTypes
<1>3. \A list : Wanted(list)' = Wanted(list) BY <1>2 DEF Wanted
<1>4. \A list : WantedNames(list)' = WantedNames(list) BY <1>3 DEF WantedNames
<1> QED BY <1>1, <1>2, <1>4

\* One entry more.
LEMMA OneMoreWanted ==
    ASSUME NEW T, NEW list \in Seq(T), NEW entry \in T
    PROVE  WantedNames(Append(list, entry)) =
              IF Wants(entry) THEN Append(WantedNames(list), entry.name) ELSE WantedNames(list)
<1> DEFINE n == Len(list)
           more == Append(list, entry)
           S == Wanted(list)
           c == Cardinality(S)
<1>1. n \in Nat /\ DOMAIN list = 1 .. n BY LenProperties
<1>2. /\ more \in Seq(T) /\ Len(more) = n + 1
      /\ \A k \in 1 .. n : more[k] = list[k]
      /\ more[n + 1] = entry
  BY AppendProperties
<1>3. DOMAIN more = 1 .. (n + 1) BY <1>2, LenProperties
<1> HIDE DEF more, n
<1>4. \A k \in 1 .. (n + 1) : k \in 1 .. n \/ k = n + 1 BY <1>1
<1>5. \A k \in 1 .. n : k \in 1 .. (n + 1) /\ k # n + 1 BY <1>1
<1>6. n + 1 \in 1 .. (n + 1) BY <1>1
<1>7. S \in SUBSET (1 .. n) BY <1>1 DEF Wanted
<1>8. Wanted(more) = IF Wants(entry) THEN S \cup {n + 1} ELSE S
  BY <1>1, <1>2, <1>3, <1>4, <1>5, <1>6 DEF Wanted
<1> HIDE DEF S
<1>9. /\ c \in Nat /\ InOrder(S) \in [1 .. c -> S] BY <1>1, <1>7, InOrderOrders
<1> HIDE DEF c
<1>10. WantedNames(list) = [k \in 1 .. c |-> list[InOrder(S)[k]].name] BY DEF WantedNames, S, c
<1>11. CASE ~Wants(entry)
  <2>1. WantedNames(more) = [k \in 1 .. c |-> more[InOrder(S)[k]].name]
    BY <1>8, <1>11 DEF WantedNames, c
  <2>2. \A k \in 1 .. c : more[InOrder(S)[k]] = list[InOrder(S)[k]] BY <1>2, <1>7, <1>9
  <2> QED BY <1>10, <1>11, <2>1, <2>2 DEF more
<1>12. CASE Wants(entry)
  <2> DEFINE U == S \cup {n + 1}
             names == WantedNames(list)
             V == {names[k] : k \in 1 .. c} \cup {entry.name}
  <2>1. /\ Cardinality(U) = c + 1
        /\ \A k \in 1 .. c : InOrder(U)[k] = InOrder(S)[k]
        /\ InOrder(U)[c + 1] = n + 1
    BY <1>1, <1>7, LastPosition DEF c
  <2> HIDE DEF U
  <2>2. WantedNames(more) = [k \in 1 .. (c + 1) |-> more[InOrder(U)[k]].name]
    BY <1>8, <1>12, <2>1 DEF WantedNames, U
  <2>3. ASSUME NEW k \in 1 .. c PROVE more[InOrder(U)[k]].name = names[k]
    <3>1. InOrder(S)[k] \in 1 .. n BY <1>7, <1>9
    <3>2. names[k] = list[InOrder(S)[k]].name BY <1>10
    <3> QED BY <1>2, <2>1, <3>1, <3>2
  <2>4. more[InOrder(U)[c + 1]].name = entry.name BY <1>2, <2>1
  <2>5. names \in Seq(V) /\ Len(names) = c /\ entry.name \in V
    <3>1. names \in [1 .. c -> V] /\ entry.name \in V BY <1>10
    <3>2. DOMAIN names = 1 .. c BY <3>1
    <3> HIDE DEF names, V
    <3>3. names \in Seq(V) BY <1>9, <3>1, SeqDef
    <3> QED BY <1>9, <3>1, <3>2, <3>3, LenProperties
  <2> HIDE DEF names, V
  <2>6. /\ Append(names, entry.name) \in Seq(V)
        /\ Len(Append(names, entry.name)) = c + 1
        /\ \A k \in 1 .. c : Append(names, entry.name)[k] = names[k]
        /\ Append(names, entry.name)[c + 1] = entry.name
    BY <2>5, AppendProperties
  <2>7. Append(names, entry.name) = [k \in 1 .. (c + 1) |-> Append(names, entry.name)[k]]
    BY <2>6, LenProperties
  <2>8. \A k \in 1 .. (c + 1) : k \in 1 .. c \/ k = c + 1 BY <1>9
  <2>9. \A k \in 1 .. (c + 1) : Append(names, entry.name)[k] = more[InOrder(U)[k]].name
    BY <2>3, <2>4, <2>6, <2>8
  <2>10. WantedNames(more) = Append(names, entry.name) BY <2>2, <2>7, <2>9
  <2> QED BY <1>12, <2>10 DEF names, more
<1> QED BY <1>11, <1>12

LEMMA OpenStream == ReadInv /\ ScheduleInv /\ StreamInv /\ Open => StreamInv'
<1> SUFFICES ASSUME ReadInv, ScheduleInv, StreamInv, Open PROVE StreamInv' OBVIOUS
<1>1. /\ stage = "open" /\ stage' \in {"failed", "query"} /\ scheduled' = scheduled /\ dir' = dir
      /\ attempt' = attempt /\ options' = options /\ platform' = platform /\ entries' = <<>>
      /\ fault' = fault /\ stop' = stop /\ reads' = reads
  BY DEF Open, Goes, fixed, reading
<1>2. scheduled = <<>> BY <1>1 DEF ScheduleInv
<1>3. WantedNames(<<>>) = <<>>
  <2>1. Wanted(<<>>) = {} BY DEF Wanted
  <2>2. Cardinality({}) = 0 BY FS_EmptySet
  <2> DEFINE names == WantedNames(<<>>)
  <2>3. names = [k \in 1 .. 0 |-> names[k]] BY <2>1, <2>2 DEF WantedNames
  <2> HIDE DEF names
  <2>4. names \in [1 .. 0 -> {}] BY <2>3
  <2>5. names \in Seq({}) BY <2>4, SeqDef
  <2>6. Len(names) = 0 BY <2>4, <2>5, LenProperties
  <2>7. names = <<>> BY <2>5, <2>6, EmptySeq
  <2> QED BY <2>7 DEF names
<1> QED BY <1>1, <1>2, <1>3, SameWanted DEF StreamInv, Done

LEMMA ParseStream == ReadInv /\ ScheduleInv /\ StreamInv /\ Parse => StreamInv'
<1> SUFFICES ASSUME ReadInv, ScheduleInv, StreamInv, Parse PROVE StreamInv' OBVIOUS
<1> DEFINE p == (cursor - loaded) + slot
           entry == Listing[dir][p - Dots]
<1>1. /\ stage = "parse" /\ stage' \in {"parse", "query"} /\ platform' = platform /\ reads' = reads
      /\ dir' = dir /\ attempt' = attempt /\ options' = options /\ fault' = fault /\ stop' = stop
  BY DEF Parse, Goes, fixed, reading, tries
<1>2. /\ buffer[slot] = [dir |-> dir, pos |-> p, next |-> slot < loaded]
      /\ p \in 1 .. Available /\ FirstOf(dir, entries, p - 1) /\ TriesInv
  BY <1>1, ParseRecord DEF EntriesAre, ReadInv
<1>3. /\ Available \in Nat /\ Available - Dots \in 0 .. Len(Listing[dir])
      /\ Len(Listing[dir]) \in Nat /\ DOMAIN Listing[dir] = 1 .. Len(Listing[dir])
  BY <1>2, ListingFacts DEF TriesInv
<1>4. /\ entries' = IF p > Dots THEN Append(entries, entry) ELSE entries
      /\ scheduled' = IF p > Dots /\ Schedules(entry) THEN Append(scheduled, entry.name) ELSE scheduled
  <2>1. buffer[slot].pos = p /\ buffer[slot].dir = dir BY <1>2
  <2> HIDE DEF p
  <2> QED BY <2>1 DEF Parse
<1>5. /\ use_streaming <=> attempt = 0 /\ Streams(options.streaming)
      /\ Schedules(entry) <=> use_streaming /\ Wants(entry) /\ ~stop
  BY <1>1 DEF ScheduleInv, Schedules, Wants
<1>6. attempt \in Nat BY DRAssumption DEF ReadInv
<1>7. (attempt > 0 \/ ~Streams(options.streaming)) => scheduled' = <<>>
  BY <1>1, <1>4, <1>5, <1>6 DEF StreamInv
<1>8. ASSUME Streams(options.streaming), attempt = 0, ~stop PROVE scheduled' = WantedNames(entries')
  <2>1. scheduled = WantedNames(entries) BY <1>1, <1>8 DEF StreamInv
  <2>2. CASE ~(p > Dots) BY <1>4, <2>1, <2>2
  <2>3. CASE p > Dots
    <3> HIDE DEF p
    <3>1. entry \in Found(dir)
      <4>1. p - Dots \in DOMAIN Listing[dir] BY <1>2, <1>3, <2>3 DEF Dots
      <4> QED BY <4>1 DEF Found
    <3>2. entries \in Seq(Found(dir)) BY <1>2 DEF FirstOf
    <3> HIDE DEF entry
    <3>3. scheduled' = IF Wants(entry) THEN Append(WantedNames(entries), entry.name) ELSE WantedNames(entries)
      BY <1>4, <1>5, <1>8, <2>1, <2>3
    <3> QED BY <1>4, <2>3, <3>1, <3>2, <3>3, OneMoreWanted
  <2> QED BY <2>2, <2>3
<1> QED BY <1>1, <1>7, <1>8, SameWanted DEF StreamInv, Done

\* Steps that schedule nothing, and do not raise the number of the attempt.
LEMMA StreamMoves ==
    ASSUME StreamInv, UNCHANGED <<platform, options, reading, attempt, scheduled, entries>>,
           stop' = stop \/ stop',
           stage \notin {"idle", "open"} \/ stage' = stage
    PROVE  StreamInv'
<1>1. /\ platform' = platform /\ options' = options /\ reads' = reads /\ dir' = dir /\ fault' = fault
      /\ attempt' = attempt /\ scheduled' = scheduled /\ entries' = entries
  BY DEF reading
<1>2. ~stop' => ~stop OBVIOUS
<1>3. stage' \notin {"idle", "open"} \/ Done' => stage \notin {"idle", "open"} \/ Done
  BY <1>1 DEF Done
<1>4. stage' # "idle" \/ reads' > 0 => stage # "idle" \/ reads > 0 BY <1>1
<1> QED BY <1>1, <1>2, <1>3, <1>4, SameWanted DEF StreamInv

LEMMA RetryStream ==
    ASSUME ReadInv, ScheduleInv, StreamInv, AttemptFailed, stage' = "open"
    PROVE  StreamInv'
<1>1. /\ stage = "failed" /\ platform' = platform /\ options' = options /\ reads' = reads /\ dir' = dir
      /\ fault' = fault /\ stop' = stop /\ ~(streamed_count > 0) /\ attempt' = attempt + 1
  BY DEF AttemptFailed, Finish, fixed, reading
<1>2. /\ TriesInv /\ Fails /\ EntriesAre(Available) /\ attempt \in 0 .. MaxRetries
  BY <1>1 DEF ReadInv, Listed
<1>3. fault.after \in 0 .. Len(Listing[dir]) /\ Len(Listing[dir]) \in Nat
  BY <1>2, ListingFacts DEF TriesInv
<1>4. attempt \in Nat BY <1>2, DRAssumption
<1>5. ASSUME Streams(options.streaming), ~stop, NEW n \in 1 .. fault.after
      PROVE  ~Wants(Listing[dir][n])
  <2>1. CASE attempt > 0 BY <1>1, <1>5, <2>1 DEF StreamInv
  <2>2. CASE attempt = 0
    <3>1. scheduled = WantedNames(entries) BY <1>1, <1>5, <2>2 DEF StreamInv
    <3>2. streamed_count = Len(scheduled) /\ scheduled \in Seq(Names(Listing[dir]))
      BY <1>1 DEF ScheduleInv, Distinct
    <3>3. Len(scheduled) = 0 BY <1>1, <3>2, LenProperties
    <3>4. /\ entries \in Seq(Found(dir)) /\ Len(entries) = fault.after
          /\ \A k \in DOMAIN entries : entries[k] = Listing[dir][k]
      BY <1>2, <1>3 DEF EntriesAre, FirstOf, Available, Dots
    <3>5. DOMAIN entries = 1 .. fault.after BY <3>4, LenProperties
    <3> DEFINE S == Wanted(entries)
               c == Cardinality(S)
    <3>6. S \in SUBSET (1 .. fault.after) BY <3>5 DEF Wanted
    <3> HIDE DEF S
    <3>7. c \in Nat /\ InOrder(S) \in [1 .. c -> S] /\ \A m \in S : \E k \in 1 .. c : InOrder(S)[k] = m
      <4>1. fault.after \in Nat BY <1>3
      <4> QED BY <3>6, <4>1, InOrderOrders
    <3>8. DOMAIN scheduled = 1 .. c BY <3>1 DEF WantedNames, S
    <3>9. DOMAIN scheduled = 1 .. 0 BY <3>2, <3>3, LenProperties
    <3>10. 1 .. c = {} BY <3>8, <3>9
    <3>11. S = {} BY <3>7, <3>10
    <3> QED BY <3>4, <3>5, <3>11 DEF S, Wanted
  <2> QED BY <1>4, <2>1, <2>2
<1> QED BY <1>1, <1>5, SameWanted DEF StreamInv, Done

LEMMA StreamStep == ReadInv /\ ScheduleInv /\ StreamInv /\ [ReaderNext]_readerVars => StreamInv'
<1> SUFFICES ASSUME ReadInv, ScheduleInv, StreamInv, [ReaderNext]_readerVars PROVE StreamInv' OBVIOUS
<1>1. CASE Later
  <2>1. /\ UNCHANGED <<platform, options, reading, attempt, scheduled, entries>>
        /\ stage \notin {"idle", "open"} /\ stage' \notin {"idle", "open"}
    BY <1>1, LaterMoves DEF listing, tries, Listed
  <2>2. stop' = stop
    BY <1>1 DEF Later, Detect, Dispatch, BuildRing, Submit, WaitForAll, Interrupted, Harvest, FreeBuffers,
                CloseRing, QueryNlinks
  <2> QED BY <2>1, <2>2, StreamMoves
<1>2. CASE Elsewhere
  <2>1. /\ UNCHANGED <<platform, options, reading, attempt, scheduled, entries>> /\ stage' = stage
    BY <1>2, ElsewhereMoves DEF listing, tries
  <2>2. stop' = stop \/ stop' BY <1>2 DEF Elsewhere, Complete, RaiseStop, readerVars
  <2> QED BY <2>1, <2>2, StreamMoves
<1>3. CASE Query
  <2>1. /\ UNCHANGED <<platform, options, reading, attempt, scheduled, entries>>
        /\ stage = "query" /\ stop' = stop
    BY <1>3 DEF Query, fixed, tries
  <2> QED BY <2>1, StreamMoves
<1>4. CASE Make
  <2>1. /\ UNCHANGED <<platform, options, reading, attempt, scheduled, entries>>
        /\ stage = "make" /\ stop' = stop
    BY <1>4, MakeMoves DEF listing, tries
  <2> QED BY <2>1, StreamMoves
<1>5. CASE AttemptFailed
  <2>1. CASE stage' # "open"
    <3>1. /\ UNCHANGED <<platform, options, reading, attempt, scheduled, entries>>
          /\ stage = "failed" /\ stop' = stop
      BY <1>5, <2>1 DEF AttemptFailed, Finish, fixed, listing
    <3> QED BY <3>1, StreamMoves
  <2> QED BY <1>5, <2>1, RetryStream
<1>6. CASE \E d \in Dirs, f \in FaultCases : Take(d, f)
  <2>1. stage' = "open" /\ attempt' = 0 BY <1>6 DEF Take, Goes
  <2> QED BY <2>1 DEF StreamInv, Done
<1> QED BY <1>1, <1>2, <1>3, <1>4, <1>5, <1>6, OpenStream, ParseStream, NextCases

------------------------------------------------------------------------------
(* What a reading came to *)

\* An error that no attempt was left for.
NoListing ==
    /\ result = R!ReadErr
    /\ Fails /\ scheduled = <<>>
    /\ ~(platform = "other" /\ fault.opened)
    /\ ~(attempt < MaxRetries /\ R!IsTransientIoError(fault.error))

\* A listing of an error only, because subdirectories were scheduled.
BrokenListing ==
    /\ result = R!ReadOk(<<[entry |-> R!ErrorEntry(dir), meta |-> <<>>]>>, Len(scheduled))
    /\ Fails /\ Len(scheduled) > 0

\* The listing of the entries.
MadeListing ==
    /\ Fetched
    /\ Fails => platform = "other" /\ fault.opened
    /\ \E list \in Sortings(MadeEntries) :
          \E kept \in IF options.process THEN SUBSET DOMAIN list ELSE {DOMAIN list} :
              result = R!ReadOk(ItemsAt(list, kept), Len(scheduled))

OutcomeInv == Done => NoListing \/ BrokenListing \/ MadeListing

LEMMA OutcomeInit == ReaderInit => OutcomeInv
BY DEF ReaderInit, OutcomeInv, Done

\* Nothing a listing is made from changes.
LEMMA SameListing ==
    ASSUME UNCHANGED <<platform, options, reading, attempt, entries, prefetched>>
    PROVE  /\ Fails' <=> Fails
           /\ R!IsTransientIoError(fault.error)' <=> R!IsTransientIoError(fault.error)
           /\ Fetched' <=> Fetched
           /\ MadeEntries' = MadeEntries
           /\ \A list : Sortings(list)' = Sortings(list)
<1>1. /\ platform' = platform /\ options' = options /\ dir' = dir /\ fault' = fault
      /\ attempt' = attempt /\ entries' = entries /\ prefetched' = prefetched
  BY DEF reading
<1>2. (Fails' <=> Fails)
  BY <1>1 DEF Fails, R!AttemptFails
<1>3. R!IsTransientIoError(fault.error)' <=> R!IsTransientIoError(fault.error)
  BY <1>1 DEF R!IsTransientIoError, R!TransientCodes
<1>4. Fetched' <=> Fetched BY <1>1 DEF Fetched, Own
<1>5. \A entry, got : MadeType(entry, got)' = MadeType(entry, got) BY <1>1 DEF MadeType
<1>6. \A entry, got : MakeDirEntry(entry, got)' = MakeDirEntry(entry, got)
  <2>1. \A entry, got : MadeMeta(entry, got)' = MadeMeta(entry, got) BY <1>1 DEF MadeMeta
  <2>2. R!Ancestors(Spec(dir))' = R!Ancestors(Spec(dir)) BY <1>1 DEF R!Ancestors, Spec
  <2> QED BY <1>1, <1>5, <2>1, <2>2 DEF MakeDirEntry, R!FollowSymlink, R!AtDepth, FollowedMeta
<1>7. \A n \in DOMAIN entries : Shown(n)' <=> Shown(n) BY <1>1, <1>5 DEF Shown, Hidden
<1>8. MadeEntries' = MadeEntries
  <2>1. R!AtDepth(R!ErrorEntry(dir), 1, {})' = R!AtDepth(R!ErrorEntry(dir), 1, {})
    BY <1>1 DEF R!AtDepth, R!ErrorEntry
  <2>2. [n \in DOMAIN entries |-> MakeDirEntry(entries[n], prefetched[n])]'
          = [n \in DOMAIN entries |-> MakeDirEntry(entries[n], prefetched[n])]
    BY <1>1, <1>6
  <2>3. {n \in DOMAIN entries : Shown(n)}' = {n \in DOMAIN entries : Shown(n)} BY <1>1, <1>7
  <2> QED BY <1>2, <2>1, <2>2, <2>3 DEF MadeEntries
<1>9. \A list : Sortings(list)' = Sortings(list) BY <1>1 DEF Sortings
<1> QED BY <1>2, <1>3, <1>4, <1>8, <1>9

LEMMA FailedOutcome ==
    ASSUME ReadInv, ScheduleInv, AttemptFailed, stage' = "idle"
    PROVE  OutcomeInv'
<1>1. /\ stage = "failed" /\ UNCHANGED <<platform, options, reading, attempt, entries, prefetched>>
      /\ scheduled' = scheduled /\ platform' = platform /\ fault' = fault /\ dir' = dir /\ attempt' = attempt
      /\ ~(platform = "other" /\ fault.opened)
  BY DEF AttemptFailed, Finish, fixed, reading, listing, batch
<1>2. Fails BY <1>1 DEF ReadInv
<1>3. Fails' /\ (R!IsTransientIoError(fault.error)' <=> R!IsTransientIoError(fault.error))
  BY <1>1, <1>2, SameListing
<1>4. streamed_count = Len(scheduled) /\ scheduled \in Seq(Names(Listing[dir]))
  BY <1>1 DEF ScheduleInv, Distinct
<1>5. CASE streamed_count > 0
  <2>1. result' = R!ReadOk(<<[entry |-> R!ErrorEntry(dir), meta |-> <<>>]>>, streamed_count)
    BY <1>1, <1>5 DEF AttemptFailed, Finish
  <2>2. BrokenListing' BY <1>1, <1>3, <1>4, <1>5, <2>1 DEF BrokenListing, R!ReadOk, R!ErrorEntry, R!AtDepth
  <2> QED BY <2>2 DEF OutcomeInv
<1>6. CASE ~(streamed_count > 0)
  <2>1. result' = R!ReadErr /\ ~(attempt < MaxRetries /\ R!IsTransientIoError(fault.error))
    BY <1>1, <1>6 DEF AttemptFailed, Finish
  <2>2. scheduled = <<>>
    <3>1. Len(scheduled) = 0 BY <1>4, <1>6, LenProperties
    <3> QED BY <1>4, <3>1, EmptySeq
  <2>3. NoListing' BY <1>1, <1>3, <2>1, <2>2 DEF NoListing, R!ReadErr
  <2> QED BY <2>3 DEF OutcomeInv
<1> QED BY <1>5, <1>6

LEMMA MakeOutcome == ReadInv /\ ScheduleInv /\ FetchInv /\ Make => OutcomeInv'
<1> SUFFICES ASSUME ReadInv, ScheduleInv, FetchInv, Make PROVE OutcomeInv' OBVIOUS
<1>1. /\ stage = "make" /\ UNCHANGED <<platform, options, reading, attempt, entries, prefetched>>
      /\ scheduled' = scheduled /\ platform' = platform /\ fault' = fault /\ options' = options
  BY DEF Make, fixed, reading, tries, listing, batch
<1>2. Fetched /\ (Fails => platform = "other" /\ fault.opened) /\ streamed_count = Len(scheduled)
  BY <1>1 DEF FetchInv, ReadInv, ScheduleInv
<1>3. PICK list \in Sortings(MadeEntries) :
         \E kept \in IF options.process THEN SUBSET DOMAIN list ELSE {DOMAIN list} :
              result' = R!ReadOk(ItemsAt(list, kept), streamed_count)
  BY DEF Make, Finish
<1>4. list \in Sortings(MadeEntries)' BY <1>1, SameListing
<1>5. \E kept \in IF options'.process THEN SUBSET DOMAIN list ELSE {DOMAIN list} :
              result' = R!ReadOk(ItemsAt(list, kept), Len(scheduled'))
  BY <1>1, <1>2, <1>3 DEF R!ReadOk
<1>6. Fetched' /\ (Fails' => platform' = "other" /\ fault'.opened) BY <1>1, <1>2, SameListing
<1>7. MadeListing' BY <1>4, <1>5, <1>6 DEF MadeListing, R!ReadOk
<1> QED BY <1>7 DEF OutcomeInv

LEMMA OutcomeStep ==
    ReadInv /\ ScheduleInv /\ FetchInv /\ OutcomeInv /\ [ReaderNext]_readerVars => OutcomeInv'
<1> SUFFICES ASSUME ReadInv, ScheduleInv, FetchInv, OutcomeInv, [ReaderNext]_readerVars
             PROVE  OutcomeInv'
  OBVIOUS
<1>1. CASE Elsewhere
  <2>1. /\ UNCHANGED <<platform, options, reading, attempt, entries, prefetched>>
        /\ stage' = stage /\ result' = result /\ scheduled' = scheduled
    <3>1. prefetched' = prefetched BY <1>1 DEF Elsewhere, Complete, RaiseStop, readerVars, batch
    <3> QED BY <1>1, <3>1, ElsewhereMoves DEF tries, listing
  <2>2. /\ platform' = platform /\ options' = options /\ dir' = dir /\ fault' = fault
        /\ attempt' = attempt /\ reads' = reads
    BY <2>1 DEF reading
  <2>3. NoListing => NoListing' BY <2>1, <2>2, SameListing DEF NoListing, R!ReadErr
  <2>4. BrokenListing => BrokenListing'
    BY <2>1, <2>2, SameListing DEF BrokenListing, R!ReadOk, R!ErrorEntry, R!AtDepth
  <2>5. MadeListing => MadeListing'
    <3> SUFFICES ASSUME MadeListing PROVE MadeListing' OBVIOUS
    <3>1. Fetched' /\ (Fails' => platform' = "other" /\ fault'.opened)
      BY <2>1, <2>2, SameListing DEF MadeListing
    <3>2. PICK list \in Sortings(MadeEntries) :
             \E kept \in IF options.process THEN SUBSET DOMAIN list ELSE {DOMAIN list} :
                 result = R!ReadOk(ItemsAt(list, kept), Len(scheduled))
      BY DEF MadeListing
    <3>3. list \in Sortings(MadeEntries)' BY <2>1, SameListing
    <3>4. \E kept \in IF options'.process THEN SUBSET DOMAIN list ELSE {DOMAIN list} :
             result' = R!ReadOk(ItemsAt(list, kept), Len(scheduled'))
      BY <2>1, <2>2, <3>2
    <3> QED BY <3>1, <3>3, <3>4 DEF MadeListing, R!ReadOk
  <2>6. Done' => Done BY <2>1, <2>2 DEF Done
  <2> QED BY <2>3, <2>4, <2>5, <2>6 DEF OutcomeInv
<1>2. ASSUME stage' # "idle" PROVE OutcomeInv' BY <1>2 DEF OutcomeInv, Done
<1>3. CASE Later BY <1>2, <1>3, LaterMoves DEF Listed
<1>4. CASE AttemptFailed BY <1>2, <1>4, FailedOutcome
<1>5. CASE Query
  <2>1. platform \in {"linux", "windows", "other"} BY DRAssumption DEF ReadInv
  <2> QED BY <1>2, <1>5, <2>1 DEF Query, AfterListing
<1>6. CASE Open \/ Parse BY <1>2, <1>6 DEF Open, Parse, Goes
<1>7. CASE \E d \in Dirs, f \in FaultCases : Take(d, f) BY <1>2, <1>7 DEF Take, Goes
<1> QED BY <1>1, <1>3, <1>4, <1>5, <1>6, <1>7, MakeOutcome, NextCases

------------------------------------------------------------------------------
(* The entries that are made *)

\* The error at the end of a listing.
ErrorItem == [entry |-> R!AtDepth(R!ErrorEntry(dir), 1, {}), meta |-> <<>>]

\* The n-th entry as a call for it alone makes it.
Alone(n) == MakeDirEntry(Listing[dir][n], NotFetched)

LEMMA EntryRecord ==
    ASSUME dir \in Dirs, NEW n \in DOMAIN Listing[dir]
    PROVE  /\ Listing[dir][n] \in [name : Nat, dir : Nat, hidden : BOOLEAN,
                                   type : {"dir", "unknown", "link", "broken", "file"},
                                   stat : {"statx", "fstatat", "none"}]
           /\ Entry(Listing[dir][n].name) = Listing[dir][n]
<1>1. Listing[dir][n] \in [name : Nat, dir : Nat, hidden : BOOLEAN,
                           type : {"dir", "unknown", "link", "broken", "file"},
                           stat : {"statx", "fstatat", "none"}]
  BY DRAssumption
<1> DEFINE found == {Listing[dir][k] : k \in DOMAIN Listing[dir]}
<1>2. \A k \in DOMAIN Listing[dir] : Listing[dir][k].name = Listing[dir][n].name => k = n
  BY DRAssumption
<1>3. Listing[dir][n] \in found /\ \A e \in found : e.name = Listing[dir][n].name => e = Listing[dir][n]
  BY <1>2
<1> HIDE DEF found
<1>4. (CHOOSE e \in found : e.name = Listing[dir][n].name) = Listing[dir][n] BY <1>3
<1> QED BY <1>1, <1>4 DEF Entry, found

\* What was fetched for an entry makes no difference.
LEMMA FetchedSame ==
    ASSUME dir \in Dirs, CanMeet(dir), NEW n \in DOMAIN Listing[dir], NEW got, Own(Listing[dir][n], got)
    PROVE  MakeDirEntry(Listing[dir][n], got) = Alone(n)
<1> DEFINE e == Listing[dir][n]
<1>1. platform = "windows" => e.type # "unknown" BY DEF CanMeet
<1>2. got = NotFetched \/ (got = e.name /\ (platform = "windows" \/ (platform = "linux" /\ e.stat = "statx")))
  BY DEF Own
<1> HIDE DEF e
<1>3. MadeType(e, got) = MadeType(e, NotFetched) BY <1>1, <1>2 DEF MadeType
<1>4. MadeMeta(e, got) = MadeMeta(e, NotFetched) BY <1>2 DEF MadeMeta
<1> QED BY <1>3, <1>4 DEF MakeDirEntry, Alone, e

\* The name of what is made, and its type if it is no error.
LEMMA AloneIs ==
    ASSUME dir \in Dirs, NEW n \in DOMAIN Listing[dir]
    PROVE  /\ Alone(n).entry.name = Listing[dir][n].name
           /\ Alone(n).entry = R!FollowSymlink(R!AtDepth([Listing[dir][n] EXCEPT
                                    !.type = MadeType(Listing[dir][n], NotFetched)], 1, R!Ancestors(Spec(dir))))
<1> DEFINE e == Listing[dir][n]
           x == R!AtDepth([e EXCEPT !.type = MadeType(e, NotFetched)], 1, R!Ancestors(Spec(dir)))
<1>1. Alone(n).entry = R!FollowSymlink(x) BY DEF Alone, MakeDirEntry
<1>2. [e EXCEPT !.type = MadeType(e, NotFetched)].name = e.name BY EntryRecord
<1>3. x.name = e.name BY <1>2 DEF R!AtDepth
<1>4. "name" \in DOMAIN x BY DEF R!AtDepth
<1> HIDE DEF x
<1>5. R!FollowSymlink(x).name = x.name BY <1>4 DEF R!FollowSymlink
<1> QED BY <1>1, <1>3, <1>5 DEF x

Makeable == {Alone(n) : n \in DOMAIN Listing[dir]} \cup {ErrorItem}

\* The entries, made.
MadeOnes == [n \in DOMAIN entries |-> MakeDirEntry(entries[n], prefetched[n])]

LEMMA MadeOnesAre ==
    ASSUME TriesInv, EntriesAre(Available), Fetched
    PROVE  /\ Available - Dots \in 0 .. Len(Listing[dir])
           /\ DOMAIN entries = 1 .. (Available - Dots)
           /\ \A n \in DOMAIN entries : n \in DOMAIN Listing[dir] /\ entries[n] = Listing[dir][n]
           /\ MadeOnes = [n \in 1 .. (Available - Dots) |-> Alone(n)]
           /\ MadeOnes \in Seq(Makeable)
<1>1. /\ dir \in Dirs /\ CanMeet(dir) /\ Available \in Nat /\ Available - Dots \in 0 .. Len(Listing[dir])
      /\ Len(Listing[dir]) \in Nat /\ DOMAIN Listing[dir] = 1 .. Len(Listing[dir])
  BY ListingFacts DEF TriesInv
<1>2. /\ entries \in Seq(Found(dir)) /\ Len(entries) = Available - Dots
      /\ \A n \in DOMAIN entries : entries[n] = Listing[dir][n]
  BY <1>1 DEF EntriesAre, FirstOf, Dots
<1>3. DOMAIN entries = 1 .. (Available - Dots) BY <1>2, LenProperties
<1>4. \A n \in DOMAIN entries : n \in DOMAIN Listing[dir] BY <1>1, <1>3
<1>5. ASSUME NEW n \in DOMAIN entries PROVE MakeDirEntry(entries[n], prefetched[n]) = Alone(n)
  <2>1. Own(Listing[dir][n], prefetched[n]) BY <1>2 DEF Fetched
  <2> QED BY <1>1, <1>2, <1>4, <2>1, FetchedSame
<1>6. MadeOnes = [n \in 1 .. (Available - Dots) |-> Alone(n)] BY <1>3, <1>5 DEF MadeOnes
<1>7. MadeOnes \in Seq(Makeable)
  <2>1. \A n \in 1 .. (Available - Dots) : Alone(n) \in Makeable BY <1>3, <1>4 DEF Makeable
  <2>2. MadeOnes \in [1 .. (Available - Dots) -> Makeable] BY <1>6, <2>1
  <2>3. Available - Dots \in Nat BY <1>1
  <2> QED BY <2>2, <2>3, SeqDef
<1> QED BY <1>1, <1>2, <1>3, <1>4, <1>6, <1>7

\* Everything in a listing was made from an entry of the directory, or is the
\* error, whatever is sorted and removed.
LEMMA MadeFromEntries ==
    ASSUME TriesInv, EntriesAre(Available), Fetched
    PROVE  /\ MadeEntries \in Seq(Makeable)
           /\ \A list \in Sortings(MadeEntries) :
                 /\ list \in Seq(Makeable)
                 /\ \A kept \in SUBSET DOMAIN list : ItemsAt(list, kept) \in Seq(Makeable)
<1> DEFINE shown == {n \in DOMAIN entries : Shown(n)}
           last == IF Fails THEN <<ErrorItem>> ELSE <<>>
<1>1. MadeOnes \in Seq(Makeable) /\ DOMAIN MadeOnes = DOMAIN entries BY MadeOnesAre DEF MadeOnes
<1>2. MadeEntries = ItemsAt(MadeOnes, shown) \o last BY DEF MadeEntries, MadeOnes, ErrorItem
<1>3. ItemsAt(MadeOnes, shown) \in Seq(Makeable)
  <2>1. shown \in SUBSET DOMAIN MadeOnes BY <1>1
  <2> HIDE DEF shown
  <2> QED BY <1>1, <2>1, SelectedItems
<1>4. last \in Seq(Makeable)
  <2>1. ErrorItem \in Makeable BY DEF Makeable
  <2> HIDE DEF ErrorItem, Makeable
  <2> QED BY <2>1
<1> HIDE DEF last, shown
<1>5. MadeEntries \in Seq(Makeable) BY <1>2, <1>3, <1>4, ConcatProperties
<1>6. ASSUME NEW list \in Sortings(MadeEntries) PROVE list \in Seq(Makeable)
  <2> DEFINE all == MadeEntries
  <2>1. Len(all) \in Nat /\ DOMAIN all = 1 .. Len(all) /\ \A k \in DOMAIN all : all[k] \in Makeable
    BY <1>5, LenProperties
  <2> HIDE DEF all
  <2>2. list = all \/ \E order \in Bijection(DOMAIN all, DOMAIN all) : list = [k \in DOMAIN all |-> all[order[k]]]
    BY DEF Sortings, all
  <2>3. ASSUME NEW order \in Bijection(DOMAIN all, DOMAIN all), list = [k \in DOMAIN all |-> all[order[k]]]
        PROVE  list \in Seq(Makeable)
    <3>1. order \in [DOMAIN all -> DOMAIN all] BY DEF Bijection, Surjection
    <3>2. list \in [1 .. Len(all) -> Makeable] BY <2>1, <2>3, <3>1
    <3> QED BY <2>1, <3>2, SeqDef
  <2> QED BY <1>5, <2>2, <2>3 DEF all
<1>7. ASSUME NEW list \in Sortings(MadeEntries), NEW kept \in SUBSET DOMAIN list
      PROVE  ItemsAt(list, kept) \in Seq(Makeable)
  BY <1>6, <1>7, SelectedItems
<1> QED BY <1>5, <1>6, <1>7

------------------------------------------------------------------------------
(* The reading in one step *)

SameEntries(list, atomic) ==
    [n \in DOMAIN list |-> list[n].entry] = [n \in DOMAIN atomic |-> Resolved(atomic[n])]

\* The type that was not known is found out before, or after, links are
\* followed.
LEMMA AloneResolved ==
    ASSUME dir \in Dirs, NEW n \in DOMAIN Listing[dir]
    PROVE  Alone(n).entry
              = Resolved(R!FollowSymlink(R!AtDepth(Listing[dir][n], 1, R!Ancestors(Spec(dir)))))
<1> DEFINE e == Listing[dir][n]
           t == MadeType(e, NotFetched)
           above == R!Ancestors(Spec(dir))
           x == R!AtDepth([e EXCEPT !.type = t], 1, above)
           y == R!AtDepth(e, 1, above)
<1>1. Alone(n).entry = R!FollowSymlink(x) BY AloneIs
<1>2. /\ e \in [name : Nat, dir : Nat, hidden : BOOLEAN,
                type : {"dir", "unknown", "link", "broken", "file"},
                stat : {"statx", "fstatat", "none"}]
      /\ Entry(e.name) = e
  BY EntryRecord
<1>3. (e.type # "unknown" => t = e.type) /\ (e.type = "unknown" => t \in {"dir", "file", "error"})
  BY DEF MadeType
<1> HIDE DEF e, t, above
<1>4. /\ x = [name |-> e.name, type |-> t, dir |-> e.dir, depth |-> 1, follow_link_ancestors |-> above]
      /\ y = [name |-> e.name, type |-> e.type, dir |-> e.dir, depth |-> 1, follow_link_ancestors |-> above]
  BY <1>2 DEF R!AtDepth
<1> HIDE DEF x, y
<1>5. CASE e.type # "unknown"
  <2>1. x = y BY <1>3, <1>4, <1>5
  <2>2. R!FollowSymlink(y) = y \/ R!FollowSymlink(y) = [y EXCEPT !.type = "error"] BY DEF R!FollowSymlink
  <2>3. R!FollowSymlink(y).type # "unknown" BY <1>4, <1>5, <2>2
  <2>4. Resolved(R!FollowSymlink(y)) = R!FollowSymlink(y) BY <2>3 DEF Resolved
  <2> QED BY <1>1, <2>1, <2>4 DEF x, y, e, above
<1>6. CASE e.type = "unknown"
  <2>1. y.type = "unknown" /\ x.type = t /\ y.name = e.name BY <1>4, <1>6
  <2>2. R!FollowSymlink(y) = y BY <2>1 DEF R!FollowSymlink
  <2>3. R!FollowSymlink(x) = x BY <1>3, <1>6, <2>1 DEF R!FollowSymlink
  <2>4. Resolved(y) = [y EXCEPT !.type = t] BY <1>2, <2>1 DEF Resolved, t
  <2>5. [y EXCEPT !.type = t] = x BY <1>4
  <2> QED BY <1>1, <2>2, <2>3, <2>4, <2>5 DEF y, x, e, above
<1> QED BY <1>5, <1>6

\* What Resolved leaves alone.
LEMMA ErrorResolved ==
    /\ Resolved(R!ErrorEntry(dir)) = R!ErrorEntry(dir)
    /\ Resolved(R!AtDepth(R!ErrorEntry(dir), 1, {})) = R!AtDepth(R!ErrorEntry(dir), 1, {})
BY DEF Resolved, R!ErrorEntry, R!AtDepth

\* Without sorting, hiding and a callback the listing is the entries.
LEMMA PlainListing ==
    ASSUME TriesInv, EntriesAre(Available), MadeListing,
           ~options.sort, ~options.skip_hidden, ~options.process
    PROVE  /\ result.ok /\ result.streamed = Len(scheduled)
           /\ result.list = [n \in 1 .. (Available - Dots) |-> Alone(n)]
                               \o (IF Fails THEN <<ErrorItem>> ELSE <<>>)
<1>1. Fetched BY DEF MadeListing
<1>2. /\ MadeOnes \in Seq(Makeable) /\ DOMAIN MadeOnes = DOMAIN entries
      /\ MadeOnes = [n \in 1 .. (Available - Dots) |-> Alone(n)]
  BY <1>1, MadeOnesAre DEF MadeOnes
<1>3. {n \in DOMAIN entries : Shown(n)} = DOMAIN MadeOnes BY <1>2 DEF Shown, Hidden
<1>4. ItemsAt(MadeOnes, DOMAIN MadeOnes) = MadeOnes BY <1>2, AllItems
<1>5. MadeEntries = MadeOnes \o (IF Fails THEN <<ErrorItem>> ELSE <<>>)
  BY <1>3, <1>4 DEF MadeEntries, MadeOnes, ErrorItem
<1>6. MadeEntries \in Seq(Makeable) BY <1>1, MadeFromEntries
<1>7. Sortings(MadeEntries) = {MadeEntries} BY DEF Sortings
<1>8. result = R!ReadOk(ItemsAt(MadeEntries, DOMAIN MadeEntries), Len(scheduled)) BY <1>7 DEF MadeListing
<1>9. ItemsAt(MadeEntries, DOMAIN MadeEntries) = MadeEntries BY <1>6, AllItems
<1> QED BY <1>2, <1>5, <1>8, <1>9 DEF R!ReadOk

LEMMA AtomicMade ==
    ASSUME ReadInv, StreamInv, Done, ~Fails
    PROVE  Atomic = R!ReadOk(R!Entries(Spec(dir), 1), Len(scheduled))
<1>1. TriesInv /\ attempt \in 0 .. MaxRetries /\ MaxRetries \in Nat /\ MaxDepth \in Nat \ {0}
      /\ dir \in Dirs /\ fault \in FaultCases
  BY DRAssumption DEF ReadInv, Done, TriesInv
<1>2. fault.times \in Nat BY <1>1, ListingFacts
<1>3. ~(attempt < fault.times) BY DEF Fails, R!AttemptFails
<1>4. /\ attempt > 0 => /\ R!IsTransientIoError(fault.error) /\ attempt <= fault.times
                        /\ platform = "other" => ~fault.opened
      /\ attempt > 0 \/ ~Streams(options.streaming) => scheduled = <<>>
  BY <1>1 DEF TriesInv, StreamInv
<1>5. Len(<<>>) = 0 BY EmptySeq
<1>6. CASE ~Streams(options.streaming)
  <2>1. ~R!TooDeep(0) /\ 0 + 1 = 1 BY <1>1 DEF R!TooDeep
  <2>2. ~(platform = "other" /\ fault.opened /\ R!AttemptFails(fault, 0))
    BY <1>1, <1>2, <1>3, <1>4 DEF R!AttemptFails
  <2>3. \E a \in 0 .. MaxRetries : ~R!AttemptFails(fault, a) /\ (a > 0 => R!IsTransientIoError(fault.error))
    BY <1>1, <1>3, <1>4 DEF R!AttemptFails
  <2>4. R!RetryTransientIo(Spec(dir), 0, fault, 0) = R!ReadOk(R!Entries(Spec(dir), 1), 0)
    BY <2>1, <2>2, <2>3 DEF R!RetryTransientIo
  <2>5. Atomic = R!RetryTransientIo(Spec(dir), 0, fault, 0) BY <1>6, <2>1 DEF Atomic, R!CoreReadDir
  <2> QED BY <1>4, <1>5, <1>6, <2>4, <2>5
<1>7. CASE Streams(options.streaming)
  <2> DEFINE parent == R!Weighted(Spec(dir), <<0>>, 0)
  <2>1. parent.value = Spec(dir) /\ R!Depth(parent) = 0 BY DEF R!Weighted, R!Depth
  <2> HIDE DEF parent
  <2>2. Atomic = R!StreamingRead(parent, fault, Len(scheduled)) /\ 0 + 1 = 1
    BY <1>7 DEF Atomic, parent
  <2>3. CASE ~R!AttemptFails(fault, 0) BY <2>1, <2>2, <2>3 DEF R!StreamingRead
  <2>4. CASE R!AttemptFails(fault, 0)
    <3>1. attempt > 0 BY <1>1, <1>3, <2>4 DEF R!AttemptFails
    <3>2. Len(scheduled) = 0 /\ R!IsTransientIoError(fault.error) BY <1>4, <1>5, <3>1
    <3>3. Atomic = R!RetryTransientIo(Spec(dir), 0, fault, 1)
      <4>1. ~(Len(scheduled) > 0) BY <3>2
      <4> QED BY <2>1, <2>2, <2>4, <3>2, <4>1 DEF R!StreamingRead
    <3>4. platform # "other" BY <1>7 DEF Streams
    <3>5. \E a \in 1 .. MaxRetries : ~R!AttemptFails(fault, a) /\ (a > 1 => R!IsTransientIoError(fault.error))
      BY <1>1, <1>3, <3>1, <3>2 DEF R!AttemptFails
    <3>6. Atomic = R!ReadOk(R!Entries(Spec(dir), 1), 0)
      BY <2>2, <3>3, <3>4, <3>5 DEF R!RetryTransientIo
    <3> QED BY <3>2, <3>6
  <2> QED BY <2>3, <2>4
<1> QED BY <1>6, <1>7

LEMMA AtomicPartial ==
    ASSUME ReadInv, StreamInv, Done, Fails, platform = "other", fault.opened
    PROVE  Atomic = R!Partial(Spec(dir), 1, fault) /\ scheduled = <<>>
<1>1. TriesInv /\ attempt \in 0 .. MaxRetries /\ MaxDepth \in Nat \ {0}
  BY DRAssumption DEF ReadInv, Done
<1>2. attempt = 0 BY <1>1, DRAssumption DEF TriesInv
<1>3. ~Streams(options.streaming) BY DEF Streams
<1>4. ~R!TooDeep(0) /\ 0 + 1 = 1 BY <1>1 DEF R!TooDeep
<1>5. R!AttemptFails(fault, 0) BY <1>2 DEF Fails
<1>6. Atomic = R!Partial(Spec(dir), 1, fault)
  BY <1>3, <1>4, <1>5 DEF Atomic, R!CoreReadDir, R!RetryTransientIo
<1> QED BY <1>3, <1>6 DEF StreamInv

LEMMA AtomicBroken ==
    ASSUME ReadInv, StreamInv, Done, Fails, Len(scheduled) > 0
    PROVE  Atomic = R!ReadOk(<<R!ErrorEntry(dir)>>, Len(scheduled))
<1>1. Len(<<>>) = 0 BY EmptySeq
<1>2. scheduled # <<>> BY <1>1
<1>3. attempt \in Nat BY DRAssumption DEF ReadInv
<1>4. Streams(options.streaming) /\ attempt = 0 BY <1>2, <1>3 DEF StreamInv
<1>5. R!AttemptFails(fault, 0) BY <1>4 DEF Fails
<1>6. R!Weighted(Spec(dir), <<0>>, 0).value.dir = dir BY DEF R!Weighted, Spec
<1> QED BY <1>4, <1>5, <1>6 DEF Atomic, R!StreamingRead

LEMMA AtomicErr ==
    ASSUME ReadInv, StreamInv, Done, NoListing
    PROVE  Atomic = R!ReadErr
<1>1. TriesInv /\ attempt \in 0 .. MaxRetries /\ MaxRetries \in Nat /\ MaxDepth \in Nat \ {0}
      /\ dir \in Dirs /\ fault \in FaultCases
  BY DRAssumption DEF ReadInv, Done, TriesInv
<1>2. fault.times \in Nat BY <1>1, ListingFacts
<1>3. attempt < fault.times /\ Len(scheduled) = 0 /\ ~(platform = "other" /\ fault.opened)
      /\ ~(attempt < MaxRetries /\ R!IsTransientIoError(fault.error))
  BY EmptySeq DEF NoListing, Fails, R!AttemptFails
<1>4. attempt > 0 => R!IsTransientIoError(fault.error) BY <1>1 DEF TriesInv
<1>5. ASSUME NEW first \in {0, 1}, first = 1 => R!IsTransientIoError(fault.error)
      PROVE  R!RetryTransientIo(Spec(dir), 0, fault, first) = R!ReadErr
  <2>1. ASSUME NEW a \in first .. MaxRetries, ~R!AttemptFails(fault, a),
               a > first => R!IsTransientIoError(fault.error)
        PROVE  FALSE
    <3>1. ~(a < fault.times) /\ a \in Nat BY <1>5, <2>1 DEF R!AttemptFails
    <3>2. CASE R!IsTransientIoError(fault.error) BY <1>1, <1>2, <1>3, <3>1, <3>2
    <3>3. CASE ~R!IsTransientIoError(fault.error)
      <4>1. first = 0 /\ ~(a > 0) BY <1>5, <2>1, <3>3
      <4> QED BY <1>1, <1>2, <1>3, <3>1, <4>1
    <3> QED BY <3>2, <3>3
  <2> QED BY <1>3, <2>1 DEF R!RetryTransientIo
<1>6. CASE ~Streams(options.streaming)
  <2>1. ~R!TooDeep(0) BY <1>1 DEF R!TooDeep
  <2> QED BY <1>5, <1>6, <2>1 DEF Atomic, R!CoreReadDir
<1>7. CASE Streams(options.streaming)
  <2> DEFINE parent == R!Weighted(Spec(dir), <<0>>, 0)
  <2>1. parent.value = Spec(dir) /\ R!Depth(parent) = 0 BY DEF R!Weighted, R!Depth
  <2> HIDE DEF parent
  <2>2. Atomic = R!StreamingRead(parent, fault, Len(scheduled)) BY <1>7 DEF Atomic, parent
  <2>3. R!AttemptFails(fault, 0) /\ ~(Len(scheduled) > 0) BY <1>1, <1>2, <1>3 DEF R!AttemptFails
  <2>4. CASE R!IsTransientIoError(fault.error)
    <3>1. R!RetryTransientIo(Spec(dir), 0, fault, 1) = R!ReadErr BY <1>5, <2>4
    <3> QED BY <2>1, <2>2, <2>3, <2>4, <3>1 DEF R!StreamingRead
  <2>5. CASE ~R!IsTransientIoError(fault.error) BY <2>2, <2>3, <2>5 DEF R!StreamingRead
  <2> QED BY <2>4, <2>5
<1> QED BY <1>6, <1>7

LEMMA OneAtTheEnd ==
    ASSUME NEW T, NEW seq \in Seq(T), NEW x \in T
    PROVE  /\ DOMAIN (seq \o <<x>>) = 1 .. (Len(seq) + 1)
           /\ \A n \in 1 .. Len(seq) : (seq \o <<x>>)[n] = seq[n]
           /\ (seq \o <<x>>)[Len(seq) + 1] = x
<1> DEFINE k == Len(seq)
           both == seq \o <<x>>
<1>1. k \in Nat /\ <<x>> \in Seq(T) /\ Len(<<x>>) = 1 /\ <<x>>[1] = x BY LenProperties
<1>2. /\ both \in Seq(T) /\ Len(both) = k + 1
      /\ \A i \in 1 .. (k + 1) : both[i] = IF i <= k THEN seq[i] ELSE <<x>>[i - k]
  BY <1>1, ConcatProperties
<1>3. DOMAIN both = 1 .. (k + 1) BY <1>2, LenProperties
<1> HIDE DEF k, both
<1>4. \A n \in 1 .. k : n \in 1 .. (k + 1) /\ n <= k BY <1>1
<1>5. k + 1 \in 1 .. (k + 1) /\ ~(k + 1 <= k) /\ (k + 1) - k = 1 BY <1>1
<1> QED BY <1>1, <1>2, <1>3, <1>4, <1>5 DEF k, both

\* A complete listing.
LEMMA CompleteSame ==
    ASSUME dir \in Dirs
    PROVE  SameEntries([n \in 1 .. Len(Listing[dir]) |-> Alone(n)], R!Entries(Spec(dir), 1))
<1> DEFINE k == Len(Listing[dir])
           Step(n) == R!FollowSymlink(R!AtDepth(Listing[dir][n], 1, R!Ancestors(Spec(dir))))
<1>1. DOMAIN Listing[dir] = 1 .. k BY DRAssumption, LenProperties
<1>2. \A n \in 1 .. k : Alone(n).entry = Resolved(Step(n)) BY <1>1, AloneResolved
<1>3. R!Entries(Spec(dir), 1) = [n \in 1 .. k |-> Step(n)] BY DEF R!Entries, Spec
<1> HIDE DEF k, Step
<1>4. SameEntries([n \in 1 .. k |-> Alone(n)], [n \in 1 .. k |-> Step(n)]) BY <1>2 DEF SameEntries
<1> QED BY <1>3, <1>4 DEF k

\* A listing that an error ends.
LEMMA PartialSame ==
    ASSUME dir \in Dirs, fault \in FaultCases
    PROVE  SameEntries([n \in 1 .. fault.after |-> Alone(n)] \o <<ErrorItem>>,
                       R!Partial(Spec(dir), 1, fault).list)
<1> DEFINE k == fault.after
           Step(n) == R!FollowSymlink(R!AtDepth(Listing[dir][n], 1, R!Ancestors(Spec(dir))))
           errorEntry == R!AtDepth(R!ErrorEntry(dir), 1, {})
           all == R!Entries(Spec(dir), 1)
           made == [n \in 1 .. k |-> Alone(n)]
           some == SubSeq(all, 1, k)
           T == {all[n] : n \in 1 .. k} \cup {errorEntry}
           U == {made[n] : n \in 1 .. k} \cup {ErrorItem}
<1>1. DOMAIN Listing[dir] = 1 .. Len(Listing[dir]) /\ Len(Listing[dir]) \in Nat /\ k \in 0 .. Len(Listing[dir])
  BY ListingFacts
<1>2. k \in Nat /\ \A n \in 1 .. k : n \in 1 .. Len(Listing[dir]) BY <1>1
<1>3. \A n \in 1 .. Len(Listing[dir]) : all[n] = Step(n) BY DEF R!Entries, Spec
<1>4. \A n \in 1 .. k : Alone(n).entry = Resolved(Step(n)) BY <1>1, <1>2, AloneResolved
<1>5. R!Partial(Spec(dir), 1, fault).list = some \o <<errorEntry>>
  <2>1. Spec(dir).dir = dir BY DEF Spec
  <2> QED BY <2>1 DEF R!Partial, R!ReadOk
<1>6. Resolved(errorEntry) = errorEntry /\ ErrorItem.entry = errorEntry
  BY ErrorResolved DEF ErrorItem
<1> HIDE DEF k, Step, errorEntry, all
<1>7. /\ made \in Seq(U) /\ Len(made) = k /\ \A n \in 1 .. k : made[n] = Alone(n)
  <2>1. made \in [1 .. k -> U] /\ DOMAIN made = 1 .. k /\ \A n \in 1 .. k : made[n] = Alone(n) OBVIOUS
  <2> HIDE DEF made, U
  <2>2. made \in Seq(U) BY <1>2, <2>1, SeqDef
  <2>3. Len(made) = k BY <1>2, <2>1, <2>2, LenProperties
  <2> QED BY <2>1, <2>2, <2>3
<1>8. /\ some \in Seq(T) /\ Len(some) = k /\ \A n \in 1 .. k : some[n] = all[n]
  <2>1. \A n \in 1 .. k : all[n] \in T OBVIOUS
  <2> HIDE DEF T
  <2>2. 1 \in Int /\ k \in Int BY <1>2
  <2>3. /\ some \in Seq(T) /\ Len(some) = (IF 1 <= k THEN k - 1 + 1 ELSE 0)
        /\ \A i \in 1 .. (k - 1 + 1) : some[i] = all[1 + i - 1]
    BY <2>1, <2>2, SubSeqProperties
  <2> HIDE DEF some
  <2>4. (IF 1 <= k THEN k - 1 + 1 ELSE 0) = k /\ k - 1 + 1 = k /\ \A i \in 1 .. k : 1 + i - 1 = i BY <1>2
  <2> QED BY <2>3, <2>4
<1>9. ErrorItem \in U /\ errorEntry \in T OBVIOUS
<1> HIDE DEF made, some, T, U
<1> DEFINE list == made \o <<ErrorItem>>
           atomic == some \o <<errorEntry>>
<1>10. /\ DOMAIN list = 1 .. (k + 1) /\ list[k + 1] = ErrorItem
       /\ \A n \in 1 .. k : list[n] = made[n]
  BY <1>7, <1>9, OneAtTheEnd
<1>11. /\ DOMAIN atomic = 1 .. (k + 1) /\ atomic[k + 1] = errorEntry
       /\ \A n \in 1 .. k : atomic[n] = some[n]
  BY <1>8, <1>9, OneAtTheEnd
<1> HIDE DEF list, atomic
<1>12. ASSUME NEW n \in 1 .. (k + 1) PROVE list[n].entry = Resolved(atomic[n])
  <2>1. n = k + 1 \/ n \in 1 .. k BY <1>2
  <2>2. CASE n = k + 1 BY <1>6, <1>10, <1>11, <2>2
  <2>3. CASE n \in 1 .. k
    <3>1. list[n].entry = Resolved(Step(n)) BY <1>4, <1>7, <1>10, <2>3
    <3>2. atomic[n] = Step(n) BY <1>2, <1>3, <1>8, <1>11, <2>3
    <3> QED BY <3>1, <3>2
  <2> QED BY <2>1, <2>2, <2>3
<1>13. SameEntries(list, atomic) BY <1>10, <1>11, <1>12 DEF SameEntries
<1> QED BY <1>5, <1>13 DEF list, atomic, made, k

\* How many subdirectories a streaming reading schedules.
LEMMA AllScheduled ==
    ASSUME ReadInv, StreamInv, Done, ~options.skip_hidden, Streams(options.streaming), ~stop
    PROVE  Len(scheduled) = R!StreamLimit(dir, fault)
<1>1. TriesInv /\ EntriesAre(Available) /\ attempt \in Nat /\ dir \in Dirs /\ fault \in FaultCases
  BY DRAssumption DEF ReadInv, Done, TriesInv
<1>2. /\ Available - Dots \in 0 .. Len(Listing[dir]) /\ DOMAIN Listing[dir] = 1 .. Len(Listing[dir])
      /\ Len(Listing[dir]) \in Nat /\ fault.after \in 0 .. Len(Listing[dir]) /\ fault.times \in Nat
  BY <1>1, ListingFacts
<1>3. \A entry : Wants(entry) <=> R!IsStreamed(entry) BY DEF Wants, Hidden
<1> DEFINE S == {n \in DOMAIN Listing[dir] : /\ R!AttemptFails(fault, 0) => n <= fault.after
                                             /\ R!IsStreamed(Listing[dir][n])}
<1>4. R!StreamLimit(dir, fault) = Cardinality(S)
  BY Zenon DEF R!StreamLimit, R!Cardinality, Cardinality
<1>5. CASE attempt > 0
  <2>1. Len(scheduled) = 0 BY <1>5, EmptySeq DEF StreamInv
  <2>2. \A n \in 1 .. fault.after : ~R!IsStreamed(Listing[dir][n]) BY <1>3, <1>5 DEF StreamInv, Done
  <2>3. R!AttemptFails(fault, 0) BY <1>1, <1>2, <1>5 DEF TriesInv, R!AttemptFails
  <2>4. \A n \in DOMAIN Listing[dir] : n <= fault.after => n \in 1 .. fault.after BY <1>2
  <2>5. S = {} BY <2>2, <2>3, <2>4
  <2> QED BY <1>4, <2>1, <2>5, FS_EmptySet
<1>6. CASE attempt = 0
  <2>1. scheduled = WantedNames(entries) BY <1>6 DEF StreamInv
  <2>2. /\ entries \in Seq(Found(dir)) /\ Len(entries) = Available - Dots
        /\ \A n \in DOMAIN entries : entries[n] = Listing[dir][n]
    <3>1. FirstOf(dir, entries, Available) BY <1>1 DEF EntriesAre
    <3>2. Available \in Nat BY <1>1, ListingFacts
    <3>3. Available - Dots = IF Available > Dots THEN Available - Dots ELSE 0 BY <1>2, <3>2 DEF Dots
    <3> QED BY <3>1, <3>3 DEF FirstOf
  <2>3. DOMAIN entries = 1 .. (Available - Dots) BY <2>2, LenProperties
  <2>4. Available - Dots = IF R!AttemptFails(fault, 0) THEN fault.after ELSE Len(Listing[dir])
    BY <1>2, <1>6 DEF Available, Fails, Dots
  <2>5. \A n : n \in DOMAIN entries <=> n \in DOMAIN Listing[dir] /\ (R!AttemptFails(fault, 0) => n <= fault.after)
    BY <1>2, <2>3, <2>4
  <2>6. Wanted(entries) = S BY <1>3, <2>2, <2>5 DEF Wanted
  <2>7. S \in SUBSET (1 .. Len(Listing[dir])) BY <1>2
  <2> HIDE DEF S
  <2>8. Cardinality(S) \in Nat BY <1>2, <2>7, InOrderOrders
  <2>9. scheduled = [k \in 1 .. Cardinality(S) |-> entries[InOrder(S)[k]].name] BY <2>1, <2>6 DEF WantedNames
  <2>10. DOMAIN scheduled = 1 .. Cardinality(S) BY <2>9
  <2>11. Len(scheduled) = Cardinality(S) BY <2>8, <2>10
  <2> QED BY <1>4, <2>11
<1> QED BY <1>1, <1>5, <1>6

\* A listing that was streamed is the entries that are not hidden.
LEMMA StreamedListing ==
    ASSUME TriesInv, EntriesAre(Available), MadeListing, ~Fails, Streams(options.streaming)
    PROVE  result.list = ItemsAt(MadeOnes, {n \in DOMAIN entries : ~Hidden(entries[n])})
<1> DEFINE S == {n \in DOMAIN entries : ~Hidden(entries[n])}
<1>1. Fetched BY DEF MadeListing
<1>2. ~options.sort /\ ~options.process /\ platform # "other" BY DEF Streams
<1>3. {n \in DOMAIN entries : Shown(n)} = S BY <1>2 DEF Shown
<1>4. MadeOnes \in Seq(Makeable) /\ DOMAIN MadeOnes = DOMAIN entries BY <1>1, MadeOnesAre DEF MadeOnes
<1>5. ItemsAt(MadeOnes, S) \in Seq(Makeable)
  <2>1. S \in SUBSET DOMAIN MadeOnes BY <1>4
  <2> HIDE DEF S
  <2> QED BY <1>4, <2>1, SelectedItems
<1>6. MadeEntries = ItemsAt(MadeOnes, S) \o <<>>
  <2>1. MadeEntries = ItemsAt(MadeOnes, {n \in DOMAIN entries : Shown(n)}) \o <<>>
    BY DEF MadeEntries, MadeOnes
  <2> QED BY <1>3, <2>1
<1>7. MadeEntries = ItemsAt(MadeOnes, S) BY <1>5, <1>6, ConcatEmptySeq
<1>8. Sortings(MadeEntries) = {MadeEntries} BY <1>2 DEF Sortings
<1>9. result = R!ReadOk(ItemsAt(MadeEntries, DOMAIN MadeEntries), Len(scheduled))
  BY <1>2, <1>8 DEF MadeListing
<1>10. ItemsAt(MadeEntries, DOMAIN MadeEntries) = MadeEntries BY <1>5, <1>7, AllItems
<1> QED BY <1>7, <1>9, <1>10 DEF R!ReadOk

\* Of directories and files the walk goes into what was streamed.
LEMMA GoesIntoStreamed ==
    ASSUME dir \in Dirs, NEW n \in DOMAIN Listing[dir], Listing[dir][n].type \in {"dir", "file"}
    PROVE  R!ReadsChildren(Alone(n).entry) <=> R!IsStreamed(Listing[dir][n])
<1> DEFINE e == Listing[dir][n]
           above == R!Ancestors(Spec(dir))
           x == R!AtDepth([e EXCEPT !.type = MadeType(e, NotFetched)], 1, above)
<1>1. Alone(n).entry = R!FollowSymlink(x) BY AloneIs
<1>2. e \in [name : Nat, dir : Nat, hidden : BOOLEAN,
             type : {"dir", "unknown", "link", "broken", "file"},
             stat : {"statx", "fstatat", "none"}]
  BY EntryRecord
<1>3. MadeType(e, NotFetched) = e.type BY DEF MadeType
<1> HIDE DEF e, above
<1>4. x.type = e.type BY <1>2, <1>3 DEF R!AtDepth
<1>5. e.type \in {"dir", "file"} BY DEF e
<1> HIDE DEF x
<1>6. R!FollowSymlink(x) = x BY <1>4, <1>5 DEF R!FollowSymlink
<1>7. R!ReadsChildren(x) <=> e.type = "dir" BY <1>4, <1>5 DEF R!ReadsChildren
<1>8. R!IsStreamed(e) <=> e.type = "dir" BY <1>5 DEF R!IsStreamed, R!StreamedTypes
<1> QED BY <1>1, <1>6, <1>7, <1>8 DEF e

LEMMA StreamedNames ==
    ASSUME TriesInv, EntriesAre(Available), MadeListing, ~Fails, Streams(options.streaming),
           \A n \in DOMAIN Listing[dir] : Listing[dir][n].type \in {"dir", "file"}
    PROVE  LET children == ItemsAt(result.list, {n \in DOMAIN result.list :
                                                    R!ReadsChildren(result.list[n].entry)})
           IN  [n \in DOMAIN children |-> children[n].entry.name] = WantedNames(entries)
<1> DEFINE c == Available - Dots
           S == {n \in DOMAIN entries : ~Hidden(entries[n])}
           T == Wanted(entries)
           list == ItemsAt(MadeOnes, S)
           K == {n \in DOMAIN list : R!ReadsChildren(list[n].entry)}
           children == ItemsAt(list, K)
<1>1. result.list = list BY StreamedListing
<1>2. Fetched /\ dir \in Dirs BY DEF MadeListing, TriesInv
<1>3. /\ c \in Nat /\ DOMAIN entries = 1 .. c
      /\ \A n \in 1 .. c : n \in DOMAIN Listing[dir] /\ entries[n] = Listing[dir][n]
      /\ MadeOnes = [n \in 1 .. c |-> Alone(n)]
  BY <1>2, MadeOnesAre
<1>4. /\ \A n \in 1 .. c : MadeOnes[n] = Alone(n)
      /\ \A n \in 1 .. c : Alone(n).entry.name = entries[n].name
      /\ \A n \in 1 .. c : R!ReadsChildren(Alone(n).entry) <=> R!IsStreamed(entries[n])
  <2>1. ASSUME NEW n \in 1 .. c
        PROVE  /\ MadeOnes[n] = Alone(n) /\ Alone(n).entry.name = entries[n].name
               /\ R!ReadsChildren(Alone(n).entry) <=> R!IsStreamed(entries[n])
    <3>1. n \in DOMAIN Listing[dir] /\ entries[n] = Listing[dir][n] BY <1>3
    <3>2. Listing[dir][n].type \in {"dir", "file"} BY <3>1
    <3>3. Alone(n).entry.name = Listing[dir][n].name BY <1>2, <3>1, AloneIs
    <3>4. R!ReadsChildren(Alone(n).entry) <=> R!IsStreamed(Listing[dir][n])
      BY <1>2, <3>1, <3>2, GoesIntoStreamed
    <3>5. MadeOnes[n] = Alone(n) BY <1>3
    <3> QED BY <3>1, <3>3, <3>4, <3>5
  <2> QED BY <2>1
<1> HIDE DEF c
<1>5. S \in SUBSET (1 .. c) /\ T \in SUBSET (1 .. c) BY <1>3 DEF Wanted
<1>6. T \subseteq S /\ \A n \in S : n \in T <=> R!IsStreamed(entries[n]) BY DEF Wanted, Wants
<1> HIDE DEF S, T
<1>7. Cardinality(S) \in Nat /\ InOrder(S) \in [1 .. Cardinality(S) -> S] BY <1>3, <1>5, InOrderOrders
<1>8. list = [k \in 1 .. Cardinality(S) |-> MadeOnes[InOrder(S)[k]]] BY DEF ItemsAt
<1>9. DOMAIN list = 1 .. Cardinality(S) BY <1>8
<1>10. \A k \in 1 .. Cardinality(S) : InOrder(S)[k] \in S /\ InOrder(S)[k] \in 1 .. c BY <1>5, <1>7
<1>11. \A k \in 1 .. Cardinality(S) : list[k] = Alone(InOrder(S)[k]) BY <1>4, <1>8, <1>10
<1>12. K \in SUBSET (1 .. Cardinality(S)) BY <1>9
<1>13. \A k \in 1 .. Cardinality(S) : InOrder(S)[k] \in T <=> k \in K
  BY <1>4, <1>6, <1>9, <1>10, <1>11
<1>14. children = [k \in 1 .. Cardinality(K) |-> list[InOrder(K)[k]]] BY DEF ItemsAt
<1> HIDE DEF list, K
<1>15. /\ Cardinality(T) = Cardinality(K)
       /\ \A k \in 1 .. Cardinality(K) : /\ InOrder(K)[k] \in K
                                         /\ InOrder(T)[k] = InOrder(S)[InOrder(K)[k]]
  BY <1>3, <1>5, <1>6, <1>12, <1>13, PositionsOfPositions
<1>16. DOMAIN children = 1 .. Cardinality(K) BY <1>14
<1>17. ASSUME NEW k \in 1 .. Cardinality(K) PROVE children[k].entry.name = entries[InOrder(T)[k]].name
  <2>1. InOrder(K)[k] \in 1 .. Cardinality(S) /\ InOrder(T)[k] = InOrder(S)[InOrder(K)[k]]
    BY <1>12, <1>15
  <2>2. children[k] = list[InOrder(K)[k]] BY <1>14
  <2>3. children[k] = Alone(InOrder(T)[k]) BY <1>11, <2>1, <2>2
  <2>4. InOrder(T)[k] \in 1 .. c BY <1>10, <2>1
  <2> QED BY <1>4, <2>3, <2>4
<1>18. WantedNames(entries) = [k \in 1 .. Cardinality(K) |-> entries[InOrder(T)[k]].name]
  BY <1>15 DEF WantedNames, T
<1> HIDE DEF children
<1>19. [n \in DOMAIN children |-> children[n].entry.name] = WantedNames(entries)
  BY <1>16, <1>17, <1>18
<1> QED BY <1>1, <1>19 DEF children, K

------------------------------------------------------------------------------
(* The theorems *)

ReaderInv ==
    ReadInv /\ StrategyInv /\ RingInv /\ ScheduleInv /\ FetchInv /\ StreamInv /\ OutcomeInv

LEMMA ReaderInvariance == Reader => []ReaderInv
<1>1. ReaderInit => ReaderInv
  BY ReadInit, StrategyInit, RingInit, ScheduleInit, FetchInit, StreamInit, OutcomeInit DEF ReaderInv
<1>2. ReaderInv /\ [ReaderNext]_readerVars => ReaderInv'
  BY ReadStep, StrategyStep, RingStep, ScheduleStep, FetchStep, StreamStep, OutcomeStep DEF ReaderInv
<1> QED BY <1>1, <1>2, PTL DEF Reader

\* Attempts stay within max_retries, and the parsers within what the system
\* call returned.
THEOREM ReaderTypes == Reader => []DRTypeOK
<1>1. ReaderInv => DRTypeOK
  <2> SUFFICES ASSUME ReaderInv PROVE DRTypeOK OBVIOUS
  <2>1. stage \in Stages /\ attempt \in 0 .. MaxRetries BY DEF ReaderInv, ReadInv
  <2>2. stage = "parse" => slot \in 1 .. loaded BY DEF ReaderInv, ReadInv, BufferInv
  <2>3. stage \in {"query", "parse"} => cursor \in 0 .. Available
    <3>1. stage = "query" => cursor \in 0 .. Available BY DEF ReaderInv, ReadInv
    <3>2. ASSUME stage = "parse" PROVE cursor \in 0 .. Available
      <4>1. TriesInv /\ BufferInv BY <3>2 DEF ReaderInv, ReadInv
      <4>2. Available \in Nat BY <4>1, ListingFacts DEF TriesInv
      <4> QED BY <4>1, <4>2, DRAssumption DEF BufferInv
    <3> QED BY <3>1, <3>2
  <2>4. /\ strategies \in [DOMAIN FileSystem -> {NotCached, "LocalSync", "NetworkAsync", "SkipNlinks"}]
        /\ uring_available \in {"unset", "yes", "no"}
    BY DEF ReaderInv, StrategyInv
  <2>5. ring.inflight \subseteq 1 .. RingSize BY DEF ReaderInv, RingInv, Rings
  <2> QED BY <2>1, <2>2, <2>3, <2>4, <2>5 DEF DRTypeOK, Stages
<1> QED BY <1>1, ReaderInvariance, PTL

\* io_uring is used for directories on network file systems only: the strategy
\* cached for a device is never taken for another's.
THEOREM RingsForNetworkOnly == Reader => []OnlyNetwork
<1>1. ReaderInv => OnlyNetwork BY DEF ReaderInv, StrategyInv, RingInv, RingStages, OnlyNetwork
<1> QED BY <1>1, ReaderInvariance, PTL

\* Through errors and retries, the count that goes with the result is the
\* number of subdirectories handed to the queue, each of them once.
THEOREM StreamedAreReported == Reader => []Reported
<1>1. ReaderInv => Reported BY DEF ReaderInv, ScheduleInv, Distinct, Items, Reported
<1> QED BY <1>1, ReaderInvariance, PTL

\* Metadata fetched in batches, in whatever order the kernel answered, and
\* whatever answer was lost, makes every entry what make_dir_entry_linux or
\* make_dir_entry would have made of it alone.
THEOREM BatchesChangeNothing == Reader => []SameAsLocalSync
<1>1. ReaderInv => SameAsLocalSync
  <2> SUFFICES ASSUME ReaderInv, Done, NEW n \in DOMAIN result.list,
                      result.list[n].entry.type # "error"
               PROVE  result.list[n] = MakeDirEntry(Entry(result.list[n].entry.name), NotFetched)
    BY DEF SameAsLocalSync
  <2>1. TriesInv /\ EntriesAre(Available) BY DEF ReaderInv, ReadInv, Done
  <2>2. CASE NoListing
    <3>1. DOMAIN result.list = {} BY <2>2 DEF NoListing, R!ReadErr
    <3> QED BY <3>1
  <2>3. CASE BrokenListing
    <3>1. result.list = <<[entry |-> R!ErrorEntry(dir), meta |-> <<>>]>> BY <2>3 DEF BrokenListing, R!ReadOk
    <3>2. result.list[n].entry = R!ErrorEntry(dir) BY <3>1
    <3> QED BY <3>2 DEF R!ErrorEntry, R!AtDepth
  <2>4. CASE MadeListing
    <3>1. PICK list \in Sortings(MadeEntries) :
             \E kept \in IF options.process THEN SUBSET DOMAIN list ELSE {DOMAIN list} :
                 result = R!ReadOk(ItemsAt(list, kept), Len(scheduled))
      BY <2>4 DEF MadeListing
    <3>2. PICK kept \in SUBSET DOMAIN list : result.list = ItemsAt(list, kept) BY <3>1 DEF R!ReadOk
    <3>3. result.list \in Seq(Makeable) BY <2>1, <2>4, <3>2, MadeFromEntries DEF MadeListing
    <3>4. result.list[n] \in Makeable BY <3>3, LenProperties
    <3>5. ErrorItem.entry.type = "error" BY DEF ErrorItem, R!ErrorEntry, R!AtDepth
    <3>6. PICK m \in DOMAIN Listing[dir] : result.list[n] = Alone(m) BY <3>4, <3>5 DEF Makeable
    <3>7. dir \in Dirs BY <2>1 DEF TriesInv
    <3>8. Alone(m).entry.name = Listing[dir][m].name BY <3>7, AloneIs
    <3>9. Entry(Listing[dir][m].name) = Listing[dir][m] BY <3>7, EntryRecord
    <3> QED BY <3>6, <3>8, <3>9 DEF Alone
  <2> QED BY <2>2, <2>3, <2>4 DEF ReaderInv, OutcomeInv
<1> QED BY <1>1, ReaderInvariance, PTL

\* Reading a directory step by step, through retries, short reads, streaming
\* and batches, comes to what ReadDir has for it in one step: the walks that
\* are built on ReadDir speak of the code.
THEOREM ReadsAsOneStep == Reader => []AsReadDir
<1>1. ReaderInv => AsReadDir
  <2> SUFFICES ASSUME ReaderInv, Done, ~options.sort, ~options.skip_hidden, ~options.process
               PROVE  /\ result.ok = Atomic.ok /\ result.streamed = Atomic.streamed
                      /\ SameEntries(result.list, Atomic.list)
                      /\ Streams(options.streaming) /\ ~stop => Len(scheduled) = R!StreamLimit(dir, fault)
    BY DEF AsReadDir, SameEntries
  <2>1. ReadInv /\ StreamInv /\ (NoListing \/ BrokenListing \/ MadeListing) BY DEF ReaderInv, OutcomeInv
  <2>2. TriesInv /\ EntriesAre(Available) /\ dir \in Dirs /\ fault \in FaultCases
    BY <2>1 DEF ReadInv, Done, TriesInv
  <2>3. Streams(options.streaming) /\ ~stop => Len(scheduled) = R!StreamLimit(dir, fault)
    BY <2>1, AllScheduled
  <2>4. CASE NoListing
    <3>1. Atomic = result BY <2>1, <2>4, AtomicErr DEF NoListing
    <3>2. result.list = <<>> BY <2>4 DEF NoListing, R!ReadErr
    <3>3. SameEntries(<<>>, <<>>) BY DEF SameEntries
    <3> QED BY <2>3, <3>1, <3>2, <3>3
  <2>5. CASE BrokenListing
    <3> DEFINE error == R!ErrorEntry(dir)
    <3>1. Atomic = R!ReadOk(<<error>>, Len(scheduled)) BY <2>1, <2>5, AtomicBroken DEF BrokenListing
    <3>2. result = R!ReadOk(<<[entry |-> error, meta |-> <<>>]>>, Len(scheduled)) BY <2>5 DEF BrokenListing
    <3>3. Resolved(error) = error BY ErrorResolved
    <3> HIDE DEF error
    <3>4. SameEntries(<<[entry |-> error, meta |-> <<>>]>>, <<error>>) BY <3>3 DEF SameEntries
    <3> QED BY <2>3, <3>1, <3>2, <3>4 DEF R!ReadOk
  <2>6. CASE MadeListing /\ Fails
    <3>1. platform = "other" /\ fault.opened BY <2>6 DEF MadeListing
    <3>2. Atomic = R!Partial(Spec(dir), 1, fault) /\ scheduled = <<>> BY <2>1, <2>6, <3>1, AtomicPartial
    <3>3. Available - Dots = fault.after
      <4>1. fault.after \in 0 .. Len(Listing[dir]) /\ Len(Listing[dir]) \in Nat BY <2>2, ListingFacts
      <4> QED BY <2>6, <4>1 DEF Available, Dots
    <3>4. /\ result.ok /\ result.streamed = Len(scheduled)
          /\ result.list = [n \in 1 .. fault.after |-> Alone(n)] \o <<ErrorItem>>
      BY <2>2, <2>6, <3>3, PlainListing
    <3>5. Atomic.ok /\ Atomic.streamed = 0 BY <3>2 DEF R!Partial, R!ReadOk
    <3>6. SameEntries(result.list, Atomic.list) BY <2>2, <3>2, <3>4, PartialSame
    <3>7. result.ok = TRUE /\ Atomic.ok = TRUE BY <2>6, <3>2 DEF MadeListing, R!Partial, R!ReadOk
    <3> QED BY <2>3, <3>2, <3>4, <3>5, <3>6, <3>7, EmptySeq
  <2>7. CASE MadeListing /\ ~Fails
    <3>1. Atomic = R!ReadOk(R!Entries(Spec(dir), 1), Len(scheduled)) BY <2>1, <2>7, AtomicMade
    <3>2. Available - Dots = Len(Listing[dir])
      <4>1. Len(Listing[dir]) \in Nat BY <2>2, ListingFacts
      <4> QED BY <2>7, <4>1 DEF Available, Dots
    <3> DEFINE made == [n \in 1 .. Len(Listing[dir]) |-> Alone(n)]
    <3>3. result.ok /\ result.streamed = Len(scheduled) /\ result.list = made \o <<>>
      BY <2>2, <2>7, <3>2, PlainListing
    <3>4. made \in Seq(Makeable)
      <4>1. Fetched BY <2>7 DEF MadeListing
      <4> QED BY <2>2, <3>2, <4>1, MadeOnesAre
    <3>5. SameEntries(made, R!Entries(Spec(dir), 1)) BY <2>2, CompleteSame
    <3> HIDE DEF made
    <3>6. result.list = made BY <3>3, <3>4, ConcatEmptySeq
    <3>7. result.ok = TRUE BY <2>7 DEF MadeListing, R!ReadOk
    <3> QED BY <2>3, <3>1, <3>3, <3>5, <3>6, <3>7 DEF R!ReadOk
  <2> QED BY <2>1, <2>4, <2>5, <2>6, <2>7
<1> QED BY <1>1, ReaderInvariance, PTL

\* In a complete listing of directories and files the client meets the
\* subdirectories in the order in which parsing scheduled them: the n-th
\* result of the workers is the n-th directory of the listing.
THEOREM StreamedInOrder == Reader => []StreamedMatch
<1>1. ReaderInv => StreamedMatch
  <2> SUFFICES ASSUME ReaderInv, Done, result.ok, result.streamed > 0, ~stop, ~R!AttemptFails(fault, 0),
                      \A n \in DOMAIN Listing[dir] : Listing[dir][n].type \in {"dir", "file"}
               PROVE  LET children == ItemsAt(result.list, {n \in DOMAIN result.list :
                                                               R!ReadsChildren(result.list[n].entry)})
                      IN  [n \in DOMAIN children |-> children[n].entry.name] = scheduled
    BY DEF StreamedMatch
  <2>1. ReadInv /\ StreamInv /\ ScheduleInv /\ (NoListing \/ BrokenListing \/ MadeListing)
    BY DEF ReaderInv, OutcomeInv
  <2>2. TriesInv /\ EntriesAre(Available) /\ attempt \in Nat /\ dir \in Dirs /\ fault \in FaultCases
    BY <2>1, DRAssumption DEF ReadInv, Done, TriesInv
  <2>3. fault.times \in Nat BY <2>2, ListingFacts
  <2>4. attempt = 0 BY <2>2, <2>3 DEF TriesInv, R!AttemptFails
  <2>5. ~Fails BY <2>4 DEF Fails
  <2>6. MadeListing BY <2>1, <2>5 DEF NoListing, BrokenListing
  <2>7. result.streamed = Len(scheduled) BY <2>6 DEF MadeListing, R!ReadOk
  <2>8. scheduled # <<>> BY <2>7, EmptySeq
  <2>9. Streams(options.streaming) BY <2>1, <2>8 DEF StreamInv
  <2>10. scheduled = WantedNames(entries) BY <2>1, <2>4, <2>9 DEF StreamInv
  <2> QED BY <2>2, <2>5, <2>6, <2>9, <2>10, StreamedNames
<1> QED BY <1>1, ReaderInvariance, PTL
==============================================================================
