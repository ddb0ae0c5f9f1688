----------------------------- MODULE AuthProofs -----------------------------
(***************************************************************************)
(* The account's credential and the session that uses it, in three proofs. *)
(* What a reviewer is sent of it (AuthCarrier), for any number of edits of *)
(* the client, at any moment, and for any setting of the wall clock.  That *)
(* the session earns its prompt and delivers what was streamed             *)
(* (AppServerSession, under the name Session), whatever the server sends.  *)
(* And what a refresh of the credential reports (AuthRefresh, under the    *)
(* name Server), whatever the server does and says, and whenever a signal  *)
(* or a deadline comes.                                                    *)
(***************************************************************************)
EXTENDS AuthCarrier, FiniteSetTheorems, SequenceTheorems, TLAPS

CONSTANTS ExternalAuth, Ids, Words, Budget, MaxParts, MaxReasoning, MaxTelemetry, MaxItems, MaxDeltas

VARIABLES turn, child, code, sent, bound, host, knows, proto, io, late, closing, closure, result, failure,
  outcome   \* those of AuthRefresh; turn is its pc

VARIABLES st, pending, queue, clash, thread, round, proved, items, stream, reason, telemetry, pipes,
  answer    \* those of AppServerSession; it calls four of them sent, turn, io and result

Server == INSTANCE AuthRefresh WITH pc <- turn

Session == INSTANCE AppServerSession WITH sent <- queue, turn <- round, io <- pipes, result <- answer

Reads == (Versions \cup {None}) \X (Versions \cup {None})
Blocks == Versions \X Versions
Evidence == [file : Objects, content : Blocks, expires : Int, mono : Int, wall : Int, last : Int,
             high : Int]

Bounds ==
  /\ MaxEdits \in Nat /\ MaxTime \in Nat /\ MaxSkew \in Nat
  /\ Margin \in Int /\ Tolerance \in Int /\ Fresh \in Int
  /\ None \notin Objects /\ None \notin Evidence

-----------------------------------------------------------------------------
(* The inductive invariant *)

(* The path names the file that was replaced last, and its content is the  *)
(* last in the history; a rewrite uses a number nobody used.               *)
DiskTyped ==
  /\ kind \in [Versions -> Kinds] /\ name \in Objects \cup {None}
  /\ content \in [Objects -> Blocks] /\ private \in [Objects -> BOOLEAN]
  /\ edits \in 0..MaxEdits
  /\ history \in Seq(Blocks) /\ Len(history) > 0
HistoryEndsNow ==
  name # None => content[name] = history[Len(history)]
NumbersAreNew ==
  /\ name # None => name <= edits
  /\ \A o \in Objects : content[o][1] <= edits

Steps == {"open", "read-1", "read-2", "stat", "digest-1", "digest-2", "use", "refresh", "start", "serve",
          "sent", "failed"}
Stages == {"load", "reload", "check", "launch", "send"}
ReaderTyped ==
  /\ clock \in [mono : 0..MaxTime, wall : Int]
  /\ pc \in Steps /\ stage \in Stages
  /\ evidence \in Evidence \cup {None} /\ (stage \in {"load", "reload"}) = (evidence = None)
  /\ launched \in 0..Len(history) /\ (stage \in {"launch", "send"}) = (launched > 0)
  /\ seen \in [file : Objects \cup {None}, raw : Reads, digest : Reads, still : BOOLEAN]
StageOfStep ==
  /\ pc = "refresh" => stage = "load"
  /\ pc = "start" => stage = "check"
  /\ pc = "serve" => stage = "launch"
  /\ pc = "sent" => stage = "send"

(* What was read: the file, its blocks in turn, and that a first block     *)
(* that is read a second time was not rewritten meanwhile.                 *)
Opened == pc \in {"read-1", "read-2", "stat", "digest-1", "digest-2", "use"}
Held(c) == \E i \in 1..Len(history) : launched <= i /\ history[i] = c
Unturned == content[seen.file][1] = seen.raw[1]
ReadingIsOfOneMoment ==
  /\ Opened => seen.file \in Objects /\ seen.file <= edits
  /\ Opened /\ pc # "read-1" => seen.raw[1] \in 0..edits
  /\ pc \in {"stat", "digest-1", "digest-2", "use"} => seen.raw[2] \in Versions
  /\ pc = "stat" => (name = seen.file /\ Unturned => Held(seen.raw))
  /\ pc = "digest-1" => (seen.still /\ Unturned => Held(seen.raw))
  /\ pc \in {"digest-2", "use"} => (seen.still /\ seen.digest[1] = seen.raw[1] => Held(seen.raw))

(* The evidence was loaded of one moment, and judged by a time that covers *)
(* what has passed since.                                                  *)
EvidenceIsGood ==
  evidence # None =>
    /\ \E i \in 1..Len(history) : history[i] = evidence.content
    /\ evidence.mono <= clock.mono /\ evidence.last <= clock.mono
SentIsGood ==
  Sent =>
    /\ Held(evidence.content)
    /\ evidence.wall >= evidence.mono => evidence.expires >= evidence.last + Margin

IInv ==
  /\ DiskTyped /\ HistoryEndsNow /\ NumbersAreNew /\ ReaderTyped /\ StageOfStep
  /\ ReadingIsOfOneMoment /\ EvidenceIsGood /\ SentIsGood

LEMMA InitHolds ==
  ASSUME Bounds, Init
  PROVE  IInv
<1>1. 0 \in Versions /\ 0 \in Objects /\ <<0, 0>> \in Blocks
  BY DEF Bounds, Versions, Objects, Blocks
<1>2. Len(history) = 1 /\ history[1] = <<0, 0>> /\ history \in Seq(Blocks)
  BY <1>1 DEF Init
<1>3. DiskTyped
  BY <1>1, <1>2 DEF Init, DiskTyped, Bounds
<1>4. HistoryEndsNow /\ NumbersAreNew
  BY <1>1, <1>2 DEF Init, HistoryEndsNow, NumbersAreNew
<1>5. ReaderTyped
  <2>1. Unseen \in [file : Objects \cup {None}, raw : Reads, digest : Reads, still : BOOLEAN]
    BY DEF Unseen, Reads
  <2>2. clock \in [mono : 0..MaxTime, wall : Int]
    BY DEF Init, Bounds
  <2> QED
    BY <1>2, <2>1, <2>2 DEF Init, ReaderTyped, Steps, Stages
<1>6. StageOfStep /\ ReadingIsOfOneMoment /\ EvidenceIsGood /\ SentIsGood
  BY DEF Init, StageOfStep, ReadingIsOfOneMoment, Opened, EvidenceIsGood, SentIsGood, Sent
<1> QED
  BY <1>3, <1>4, <1>5, <1>6 DEF IInv

-----------------------------------------------------------------------------
(* The client *)

(* What every step of the client leaves to the reader: a file that was     *)
(* there has its first block or one with a new number, and a path that no  *)
(* longer names it never does again.                                       *)
Edited ==
  /\ DiskTyped' /\ HistoryEndsNow' /\ NumbersAreNew'
  /\ edits <= edits'
  /\ \/ history' = history
     \/ \E c \in Blocks : history' = Append(history, c)
  /\ \A o \in Objects : o <= edits =>
       content'[o][1] = content[o][1] \/ content'[o][1] > edits
  /\ name' \in {name, None} \/ (name' \in Objects /\ name' > edits)
  /\ UNCHANGED <<clock, reader>>

LEMMA HistoryGrows ==
  ASSUME DiskTyped, NEW c \in Blocks, history' = Append(history, c)
  PROVE  /\ history' \in Seq(Blocks) /\ Len(history') = Len(history) + 1
         /\ history'[Len(history')] = c
         /\ \A i \in 1..Len(history) : history'[i] = history[i]
BY DEF DiskTyped

LEMMA EditedInv ==
  ASSUME Bounds, IInv, Edited
  PROVE  IInv'
<1> USE DEF IInv
<1>1. /\ Len(history) \in Nat /\ Len(history') \in Nat /\ Len(history) <= Len(history')
      /\ \A i \in 1..Len(history) : history'[i] = history[i]
  BY HistoryGrows DEF Edited, DiskTyped
<1>2. /\ UNCHANGED <<clock, stage, pc, seen, evidence, launched>>
      /\ edits \in Nat /\ edits' \in Nat /\ edits <= edits'
  BY DEF Edited, reader, DiskTyped, Bounds
<1>3. \A x : Held(x) => Held(x)'
  BY <1>1, <1>2 DEF Held
<1>4. ReaderTyped'
  BY <1>1, <1>2 DEF ReaderTyped
<1>5. StageOfStep'
  BY <1>2 DEF StageOfStep
<1>6. ASSUME Opened
      PROVE  /\ seen.file \in Objects /\ seen.file <= edits
             /\ name' = seen.file => name = seen.file
             /\ pc # "read-1" /\ Unturned' => Unturned
  <2>1. seen.file \in Objects /\ seen.file <= edits /\ seen.file \in Int
    BY <1>6 DEF ReadingIsOfOneMoment, Objects
  <2>2. name' = seen.file => name = seen.file
    BY <2>1, <1>2 DEF Edited, Bounds, Objects
  <2>3. pc # "read-1" /\ Unturned' => Unturned
    BY <2>1, <1>2, <1>6 DEF Edited, ReadingIsOfOneMoment, Unturned
  <2> QED
    BY <2>1, <2>2, <2>3
<1>7. ReadingIsOfOneMoment'
  <2>1. /\ (Opened => seen.file \in Objects /\ seen.file <= edits)'
        /\ (Opened /\ pc # "read-1" => seen.raw[1] \in 0..edits)'
        /\ (pc \in {"stat", "digest-1", "digest-2", "use"} => seen.raw[2] \in Versions)'
    BY <1>2, <1>6 DEF ReadingIsOfOneMoment, Opened, Objects
  <2>2. (pc = "stat" => (name = seen.file /\ Unturned => Held(seen.raw)))'
    BY <1>2, <1>3, <1>6 DEF ReadingIsOfOneMoment, Opened
  <2>3. (pc = "digest-1" => (seen.still /\ Unturned => Held(seen.raw)))'
    BY <1>2, <1>3, <1>6 DEF ReadingIsOfOneMoment, Opened
  <2>4. (pc \in {"digest-2", "use"} =>
           (seen.still /\ seen.digest[1] = seen.raw[1] => Held(seen.raw)))'
    BY <1>2, <1>3 DEF ReadingIsOfOneMoment
  <2> QED
    BY <2>1, <2>2, <2>3, <2>4 DEF ReadingIsOfOneMoment
<1>8. EvidenceIsGood'
  BY <1>1, <1>2 DEF EvidenceIsGood
<1>9. SentIsGood'
  BY <1>2, <1>3 DEF SentIsGood, Sent
<1> QED
  BY <1>4, <1>5, <1>7, <1>8, <1>9 DEF Edited

LEMMA RewriteFirstInv == ASSUME Bounds, IInv, RewriteFirst PROVE IInv'
<1> USE DEF IInv
<1>1. /\ edits' = edits + 1 /\ edits' \in 1..MaxEdits /\ edits \in Nat
      /\ name \in Objects /\ UNCHANGED <<name, private, clock, reader>>
      /\ content' = [content EXCEPT ![name][1] = edits']
      /\ history' = Append(history, content'[name])
      /\ edits' \in Versions
  BY DEF RewriteFirst, Edit, DiskTyped, Bounds, Versions
<1>2. PICK b \in Blocks : b = [content[name] EXCEPT ![1] = edits']
  <2>1. content[name] \in Versions \X Versions
    BY <1>1 DEF DiskTyped, Blocks
  <2>2. [content[name] EXCEPT ![1] = edits'] = <<edits', content[name][2]>>
    BY <2>1
  <2>3. [content[name] EXCEPT ![1] = edits'] \in Blocks
    BY <1>1, <2>1, <2>2 DEF Blocks
  <2> QED
    BY <2>3
<1>3. /\ content' = [content EXCEPT ![name] = b] /\ content'[name] = b /\ b[1] = edits'
      /\ content' \in [Objects -> Blocks]
      /\ \A o \in Objects : o # name => content'[o] = content[o]
  BY <1>1, <1>2 DEF DiskTyped, Blocks
<1>4. kind' \in [Versions -> Kinds]
  BY <1>1 DEF RewriteFirst, Compose, DiskTyped
<1>5. DiskTyped' /\ HistoryEndsNow'
  BY <1>1, <1>3, <1>4, HistoryGrows DEF DiskTyped, HistoryEndsNow
<1>6. NumbersAreNew'
  <2>1. name <= edits' /\ edits <= edits'
    BY <1>1 DEF NumbersAreNew, Objects, Bounds
  <2>2. ASSUME NEW o \in Objects
        PROVE  content'[o][1] <= edits'
    <3>1. content[o][1] \in Nat /\ content[o][1] <= edits
      BY DEF DiskTyped, Blocks, Versions, NumbersAreNew
    <3> QED
      BY <1>1, <1>3, <3>1
  <2> QED
    BY <1>1, <2>1, <2>2 DEF NumbersAreNew
<1>7. Edited
  BY <1>1, <1>3, <1>5, <1>6 DEF Edited
<1> QED
  BY <1>7, EditedInv

LEMMA RewriteSecondInv == ASSUME Bounds, IInv, RewriteSecond PROVE IInv'
<1> USE DEF IInv
<1>1. PICK o \in Objects :
        /\ content' = [content EXCEPT ![o][2] = content[o][1]]
        /\ history' = IF o = name THEN Append(history, content'[o]) ELSE history
  BY DEF RewriteSecond
<1>2. UNCHANGED <<kind, name, private, edits, clock, reader>> /\ edits \in Nat
  BY DEF RewriteSecond, DiskTyped, Bounds
<1>3. PICK b \in Blocks : b = [content[o] EXCEPT ![2] = content[o][1]]
  <2>1. content[o] \in Versions \X Versions
    BY <1>1 DEF DiskTyped, Blocks
  <2>2. [content[o] EXCEPT ![2] = content[o][1]] = <<content[o][1], content[o][1]>>
    BY <2>1
  <2>3. [content[o] EXCEPT ![2] = content[o][1]] \in Blocks
    BY <2>1, <2>2 DEF Blocks
  <2> QED
    BY <2>3
<1>4. /\ content' = [content EXCEPT ![o] = b] /\ content'[o] = b /\ b[1] = content[o][1]
      /\ content' \in [Objects -> Blocks]
      /\ \A q \in Objects : q # o => content'[q] = content[q]
  <2>1. content[o] \in Versions \X Versions
    BY <1>1 DEF DiskTyped, Blocks
  <2> QED
    BY <1>1, <1>3, <2>1 DEF DiskTyped, Blocks
<1>5. DiskTyped' /\ HistoryEndsNow'
  BY <1>1, <1>2, <1>4, HistoryGrows DEF DiskTyped, HistoryEndsNow
<1>6. NumbersAreNew'
  BY <1>1, <1>2, <1>4 DEF NumbersAreNew
<1>7. Edited
  BY <1>1, <1>2, <1>4, <1>5, <1>6 DEF Edited
<1> QED
  BY <1>7, EditedInv

LEMMA ReplaceInv == ASSUME Bounds, IInv, Replace PROVE IInv'
<1> USE DEF IInv
<1>1. /\ edits' = edits + 1 /\ edits' \in 1..MaxEdits /\ edits \in Nat
      /\ name' = edits' /\ edits' \in Objects /\ edits' \in Versions
      /\ content' = [content EXCEPT ![edits'] = <<edits', edits'>>]
      /\ history' = Append(history, <<edits', edits'>>)
      /\ UNCHANGED <<private, clock, reader>>
  BY DEF Replace, Edit, DiskTyped, Bounds, Versions, Objects
<1>2. PICK b \in Blocks : b = <<edits', edits'>> /\ b[1] = edits'
  <2>1. <<edits', edits'>> \in Blocks /\ <<edits', edits'>>[1] = edits'
    BY <1>1 DEF Blocks
  <2> QED
    BY <2>1
<1>3. /\ content'[edits'] = b /\ content' \in [Objects -> Blocks]
      /\ \A o \in Objects : o # edits' => content'[o] = content[o]
  BY <1>1, <1>2 DEF DiskTyped
<1>4. kind' \in [Versions -> Kinds]
  BY <1>1 DEF Replace, Compose, DiskTyped
<1>5. DiskTyped' /\ HistoryEndsNow'
  BY <1>1, <1>2, <1>3, <1>4, HistoryGrows DEF DiskTyped, HistoryEndsNow
<1>6. NumbersAreNew'
  BY <1>1, <1>2, <1>3 DEF NumbersAreNew, DiskTyped, Blocks, Versions
<1>7. Edited
  BY <1>1, <1>2, <1>3, <1>5, <1>6 DEF Edited, Objects
<1> QED
  BY <1>7, EditedInv

LEMMA RemoveInv == ASSUME Bounds, IInv, Remove PROVE IInv'
<1> USE DEF IInv
<1>1. Edited
  BY DEF Remove, Edit, Edited, DiskTyped, HistoryEndsNow, NumbersAreNew, Bounds, Blocks, Versions
<1> QED
  BY <1>1, EditedInv

LEMMA LoosenInv == ASSUME Bounds, IInv, Loosen PROVE IInv'
<1> USE DEF IInv
<1>1. /\ edits' = edits + 1 /\ edits' \in 0..MaxEdits /\ edits \in Nat
      /\ UNCHANGED <<kind, name, content, history, clock, reader>>
  BY DEF Loosen, Edit, DiskTyped, Bounds
<1>2. private' \in [Objects -> BOOLEAN]
  BY DEF Loosen, DiskTyped
<1>3. DiskTyped' /\ HistoryEndsNow'
  BY <1>1, <1>2 DEF DiskTyped, HistoryEndsNow
<1>4. NumbersAreNew'
  <2>1. name # None => name \in Int
    BY DEF DiskTyped, Objects
  <2>2. \A o \in Objects : content[o][1] \in Int
    BY DEF DiskTyped, Blocks, Versions
  <2> QED
    BY <1>1, <2>1, <2>2 DEF NumbersAreNew
<1>5. Edited
  BY <1>1, <1>3, <1>4 DEF Edited
<1> QED
  BY <1>5, EditedInv

LEMMA ClockInv == ASSUME Bounds, IInv, Tick \/ SetWall PROVE IInv'
<1> USE DEF IInv
<1>1. UNCHANGED <<disk, reader>> /\ pc = "use"
  BY DEF Tick, SetWall
<1>2. clock' \in [mono : 0..MaxTime, wall : Int] /\ clock'.mono >= clock.mono
  BY DEF Tick, SetWall, ReaderTyped, Bounds
<1>3. DiskTyped' /\ HistoryEndsNow' /\ NumbersAreNew'
  BY <1>1 DEF disk, DiskTyped, HistoryEndsNow, NumbersAreNew
<1>4. ReaderTyped' /\ StageOfStep'
  BY <1>1, <1>2 DEF disk, reader, ReaderTyped, StageOfStep
<1>5. ReadingIsOfOneMoment'
  BY <1>1 DEF disk, reader, ReadingIsOfOneMoment, Opened, Unturned, Held
<1>6. EvidenceIsGood'
  BY <1>1, <1>2 DEF disk, reader, EvidenceIsGood, ReaderTyped, Evidence
<1>7. SentIsGood'
  BY <1>1 DEF reader, SentIsGood, Sent
<1> QED
  BY <1>3, <1>4, <1>5, <1>6, <1>7

-----------------------------------------------------------------------------
(* The reader *)

LEMMA DiskStays ==
  ASSUME DiskTyped, HistoryEndsNow, NumbersAreNew, UNCHANGED disk
  PROVE  DiskTyped' /\ HistoryEndsNow' /\ NumbersAreNew'
BY DEF disk, DiskTyped, HistoryEndsNow, NumbersAreNew

(* A step that begins an inspection, or gives up. *)
LEMMA AnewInv ==
  ASSUME Bounds, IInv, UNCHANGED <<disk, clock>>, seen' = Unseen,
         pc' \in {"open", "failed"}, stage' \in Stages, evidence' \in Evidence \cup {None},
         (stage' \in {"load", "reload"}) = (evidence' = None), EvidenceIsGood',
         launched' \in 0..Len(history), (stage' \in {"launch", "send"}) = (launched' > 0)
  PROVE  IInv'
<1> USE DEF IInv
<1>1. DiskTyped' /\ HistoryEndsNow' /\ NumbersAreNew'
  BY DiskStays
<1>2. seen' \in [file : Objects \cup {None}, raw : Reads, digest : Reads, still : BOOLEAN]
  BY DEF Unseen, Reads
<1>3. ReaderTyped'
  BY <1>2 DEF ReaderTyped, Steps, disk
<1>4. StageOfStep' /\ ReadingIsOfOneMoment' /\ SentIsGood'
  BY DEF StageOfStep, ReadingIsOfOneMoment, Opened, SentIsGood, Sent
<1> QED
  BY <1>1, <1>3, <1>4

LEMMA FailInv == ASSUME Bounds, IInv, Fail, UNCHANGED <<disk, clock>> PROVE IInv'
<1> USE DEF IInv
<1>1. EvidenceIsGood'
  BY DEF Fail, EvidenceIsGood, disk
<1> QED
  BY <1>1, AnewInv DEF Fail, ReaderTyped

(* A step of the inspection: only the path and what was read move. *)
LEMMA ReadingInv ==
  ASSUME Bounds, IInv, UNCHANGED <<disk, clock, stage, evidence, launched>>,
         pc' \in Steps \ {"refresh", "start", "serve", "sent"},
         seen' \in [file : Objects \cup {None}, raw : Reads, digest : Reads, still : BOOLEAN],
         ReadingIsOfOneMoment'
  PROVE  IInv'
<1> USE DEF IInv
<1>1. DiskTyped' /\ HistoryEndsNow' /\ NumbersAreNew'
  BY DiskStays
<1>2. ReaderTyped'
  BY DEF ReaderTyped, disk
<1>3. StageOfStep' /\ EvidenceIsGood' /\ SentIsGood'
  BY DEF StageOfStep, EvidenceIsGood, SentIsGood, Sent, disk
<1> QED
  BY <1>1, <1>2, <1>3

LEMMA OpenInv == ASSUME Bounds, IInv, Open PROVE IInv'
<1> USE DEF IInv
<1>1. CASE /\ pc = "open" /\ name # None /\ pc' = "read-1" /\ seen' = [seen EXCEPT !.file = name]
           /\ UNCHANGED <<disk, clock, stage, evidence, launched>>
  <2>1. name \in Objects /\ name <= edits
    BY <1>1 DEF DiskTyped, NumbersAreNew
  <2>2. seen' \in [file : Objects \cup {None}, raw : Reads, digest : Reads, still : BOOLEAN]
        /\ seen'.file = name
    BY <1>1, <2>1 DEF ReaderTyped
  <2>3. ReadingIsOfOneMoment'
    BY <1>1, <2>1, <2>2 DEF ReadingIsOfOneMoment, Opened, disk
  <2> QED
    BY <1>1, <2>2, <2>3, ReadingInv DEF Steps
<1>2. CASE Fail /\ UNCHANGED <<disk, clock>>
  BY <1>2, FailInv
<1> QED
  BY <1>1, <1>2 DEF Open, At, Go

LEMMA TupleSet ==
  ASSUME NEW t \in Reads, NEW v \in Versions
  PROVE  /\ [t EXCEPT ![1] = v] = <<v, t[2]>> /\ [t EXCEPT ![2] = v] = <<t[1], v>>
         /\ [t EXCEPT ![1] = v] \in Reads /\ [t EXCEPT ![2] = v] \in Reads
BY DEF Reads

(* The block that is read is one of the file's. *)
LEMMA BlockRead ==
  ASSUME Bounds, IInv, Opened
  PROVE  /\ seen.file \in Objects /\ seen.raw \in Reads /\ seen.digest \in Reads
         /\ content[seen.file] \in Versions \X Versions
         /\ content[seen.file][1] \in 0..edits
  BY DEF IInv, ReadingIsOfOneMoment, ReaderTyped, DiskTyped, Blocks, Versions, NumbersAreNew

LEMMA ReadFirstInv == ASSUME Bounds, IInv, Read(1, "read-1", "read-2") PROVE IInv'
<1> USE DEF IInv
<1>1. /\ pc = "read-1" /\ pc' = "read-2" /\ Opened
      /\ seen' = [seen EXCEPT !.raw[1] = content[seen.file][1]]
      /\ UNCHANGED <<disk, clock, stage, evidence, launched>>
  BY DEF Read, At, Go, Opened
<1>2. PICK r \in Reads : r = [seen.raw EXCEPT ![1] = content[seen.file][1]]
                       /\ r[1] = content[seen.file][1]
  <2>1. content[seen.file][1] \in Versions /\ seen.raw \in Reads
    BY <1>1, BlockRead DEF Versions
  <2>2. /\ [seen.raw EXCEPT ![1] = content[seen.file][1]] \in Reads
        /\ [seen.raw EXCEPT ![1] = content[seen.file][1]] = <<content[seen.file][1], seen.raw[2]>>
    BY <2>1, TupleSet
  <2> QED
    BY <2>2
<1>3. /\ seen' = [seen EXCEPT !.raw = r] /\ seen'.raw = r /\ seen'.file = seen.file
      /\ seen' \in [file : Objects \cup {None}, raw : Reads, digest : Reads, still : BOOLEAN]
  BY <1>1, <1>2 DEF ReaderTyped
<1>4. ReadingIsOfOneMoment'
  BY <1>1, <1>2, <1>3, BlockRead DEF ReadingIsOfOneMoment, Opened, disk
<1> QED
  BY <1>1, <1>3, <1>4, ReadingInv DEF Steps

(* If the first block still is the one that was read, both blocks are the  *)
(* file's, and if the path names it, the last of the history.              *)
LEMMA ReadSecondInv == ASSUME Bounds, IInv, Read(2, "read-2", "stat") PROVE IInv'
<1> USE DEF IInv
<1>1. /\ pc = "read-2" /\ pc' = "stat" /\ Opened
      /\ seen' = [seen EXCEPT !.raw[2] = content[seen.file][2]]
      /\ UNCHANGED <<disk, clock, stage, evidence, launched>>
  BY DEF Read, At, Go, Opened
<1>2. content[seen.file][2] \in Versions
  BY <1>1, BlockRead
<1>3. PICK r \in Reads : /\ r = [seen.raw EXCEPT ![2] = content[seen.file][2]]
                        /\ r = <<seen.raw[1], content[seen.file][2]>>
  <2>1. content[seen.file][2] \in Versions /\ seen.raw \in Reads
    BY <1>1, <1>2, BlockRead DEF Versions
  <2>2. /\ [seen.raw EXCEPT ![2] = content[seen.file][2]] \in Reads
        /\ [seen.raw EXCEPT ![2] = content[seen.file][2]] = <<seen.raw[1], content[seen.file][2]>>
    BY <2>1, TupleSet
  <2> QED
    BY <2>2
<1>4. /\ seen' = [seen EXCEPT !.raw = r] /\ seen'.raw = r /\ seen'.file = seen.file
      /\ seen' \in [file : Objects \cup {None}, raw : Reads, digest : Reads, still : BOOLEAN]
  BY <1>1, <1>3 DEF ReaderTyped
<1>5. ASSUME name = seen.file, Unturned
      PROVE  Held(r)
  <2>1. r = content[seen.file]
    BY <1>1, <1>3, <1>5, BlockRead DEF Unturned
  <2>2. r = history[Len(history)]
    BY <1>1, <1>5, <2>1, BlockRead DEF HistoryEndsNow, Bounds
  <2>3. launched <= Len(history) /\ Len(history) \in 1..Len(history)
    BY DEF ReaderTyped, DiskTyped
  <2> QED
    BY <2>2, <2>3 DEF Held
<1>6. r[1] = seen.raw[1] /\ r[2] \in Versions /\ r[1] \in 0..edits
  BY <1>1, <1>2, <1>3 DEF ReadingIsOfOneMoment
<1>7. (name = seen.file /\ Unturned => Held(seen.raw))'
  BY <1>1, <1>4, <1>5, <1>6 DEF disk, Unturned, Held
<1>8. ReadingIsOfOneMoment'
  BY <1>1, <1>4, <1>6, <1>7, BlockRead DEF ReadingIsOfOneMoment, Opened, disk
<1> QED
  BY <1>1, <1>4, <1>8, ReadingInv DEF Steps

LEMMA StatInv == ASSUME Bounds, IInv, Stat PROVE IInv'
<1> USE DEF IInv
<1>1. /\ pc = "stat" /\ pc' = "digest-1" /\ Opened
      /\ UNCHANGED <<disk, clock, stage, evidence, launched>>
      /\ seen' = [seen EXCEPT !.still = name = seen.file /\ private[seen.file]]
  BY DEF Stat, At, Go, Opened
<1>2. /\ seen' \in [file : Objects \cup {None}, raw : Reads, digest : Reads, still : BOOLEAN]
      /\ seen'.raw = seen.raw /\ seen'.file = seen.file
      /\ seen'.still => name = seen.file
  BY <1>1 DEF ReaderTyped
<1>3. (seen.still /\ Unturned => Held(seen.raw))'
  BY <1>1, <1>2 DEF ReadingIsOfOneMoment, disk, Unturned, Held
<1>4. ReadingIsOfOneMoment'
  BY <1>1, <1>2, <1>3 DEF ReadingIsOfOneMoment, Opened, disk
<1> QED
  BY <1>1, <1>2, <1>4, ReadingInv DEF Steps

LEMMA DigestFirstInv == ASSUME Bounds, IInv, Digest(1, "digest-1", "digest-2") PROVE IInv'
<1> USE DEF IInv
<1>1. /\ pc = "digest-1" /\ pc' = "digest-2" /\ Opened
      /\ seen' = [seen EXCEPT !.digest[1] = content[seen.file][1]]
      /\ UNCHANGED <<disk, clock, stage, evidence, launched>>
  BY DEF Digest, At, Go, Opened
<1>2. content[seen.file][1] \in Versions
  BY <1>1, BlockRead
<1>3. PICK d \in Reads : d = [seen.digest EXCEPT ![1] = content[seen.file][1]]
                       /\ d[1] = content[seen.file][1]
  <2>1. content[seen.file][1] \in Versions /\ seen.digest \in Reads
    BY <1>1, <1>2, BlockRead DEF Versions
  <2>2. /\ [seen.digest EXCEPT ![1] = content[seen.file][1]] \in Reads
        /\ [seen.digest EXCEPT ![1] = content[seen.file][1]] = <<content[seen.file][1], seen.digest[2]>>
    BY <2>1, TupleSet
  <2> QED
    BY <2>2
<1>4. /\ seen' = [seen EXCEPT !.digest = d] /\ seen'.digest = d /\ seen'.file = seen.file
      /\ seen'.raw = seen.raw /\ seen'.still = seen.still
      /\ seen' \in [file : Objects \cup {None}, raw : Reads, digest : Reads, still : BOOLEAN]
  BY <1>1, <1>3 DEF ReaderTyped
<1>5. (seen.still /\ seen.digest[1] = seen.raw[1] => Held(seen.raw))'
  BY <1>1, <1>3, <1>4 DEF ReadingIsOfOneMoment, disk, Unturned, Held
<1>6. ReadingIsOfOneMoment'
  BY <1>1, <1>4, <1>5 DEF ReadingIsOfOneMoment, Opened, disk
<1> QED
  BY <1>1, <1>4, <1>6, ReadingInv DEF Steps

LEMMA DigestSecondInv == ASSUME Bounds, IInv, Digest(2, "digest-2", "use") PROVE IInv'
<1> USE DEF IInv
<1>1. /\ pc = "digest-2" /\ pc' = "use" /\ Opened
      /\ seen' = [seen EXCEPT !.digest[2] = content[seen.file][2]]
      /\ UNCHANGED <<disk, clock, stage, evidence, launched>>
  BY DEF Digest, At, Go, Opened
<1>2. content[seen.file][2] \in Versions
  BY <1>1, BlockRead
<1>3. PICK d \in Reads : d = [seen.digest EXCEPT ![2] = content[seen.file][2]]
                       /\ d[1] = seen.digest[1]
  <2>1. content[seen.file][2] \in Versions /\ seen.digest \in Reads
    BY <1>1, <1>2, BlockRead DEF Versions
  <2>2. /\ [seen.digest EXCEPT ![2] = content[seen.file][2]] \in Reads
        /\ [seen.digest EXCEPT ![2] = content[seen.file][2]] = <<seen.digest[1], content[seen.file][2]>>
    BY <2>1, TupleSet
  <2> QED
    BY <2>2
<1>4. /\ seen' = [seen EXCEPT !.digest = d] /\ seen'.digest = d /\ seen'.file = seen.file
      /\ seen'.raw = seen.raw /\ seen'.still = seen.still
      /\ seen' \in [file : Objects \cup {None}, raw : Reads, digest : Reads, still : BOOLEAN]
  BY <1>1, <1>3 DEF ReaderTyped
<1>5. (seen.still /\ seen.digest[1] = seen.raw[1] => Held(seen.raw))'
  BY <1>1, <1>3, <1>4 DEF ReadingIsOfOneMoment, disk, Held
<1>6. ReadingIsOfOneMoment'
  BY <1>1, <1>4, <1>5 DEF ReadingIsOfOneMoment, Opened, disk
<1> QED
  BY <1>1, <1>4, <1>6, ReadingInv DEF Steps

-----------------------------------------------------------------------------
(* What is made of it *)

LEMMA ConfirmedIsHeld ==
  ASSUME Bounds, IInv, pc = "use", Confirm
  PROVE  /\ Held(seen.raw) /\ seen.raw \in Blocks /\ seen.file \in Objects
         /\ \E i \in 1..Len(history) : history[i] = seen.raw
<1>1. Held(seen.raw)
  BY DEF IInv, ReadingIsOfOneMoment, Confirm
<1>2. seen.raw \in Reads /\ seen.raw[1] \in 0..edits /\ seen.raw[2] \in Versions
      /\ seen.file \in Objects
  BY DEF IInv, ReadingIsOfOneMoment, ReaderTyped, Opened
<1>3. 0..edits \subseteq Versions
  BY DEF IInv, DiskTyped, Versions, Bounds
<1>4. seen.raw = <<seen.raw[1], seen.raw[2]>>
  BY <1>2 DEF Reads
<1>5. seen.raw \in Blocks
  BY <1>2, <1>3, <1>4 DEF Blocks
<1> QED
  BY <1>1, <1>2, <1>5 DEF Held

LEMMA LoadInv == ASSUME Bounds, IInv, Load PROVE IInv'
<1> USE DEF IInv
<1>1. pc = "use" /\ stage \in {"load", "reload"} /\ UNCHANGED <<disk, clock>>
  BY DEF Load, At
<1>2. CASE Fail
  BY <1>1, <1>2, FailInv
<1>3. CASE stage = "load" /\ pc' = "refresh" /\ UNCHANGED <<stage, seen, evidence, launched>>
  <2>1. DiskTyped' /\ HistoryEndsNow' /\ NumbersAreNew'
    BY <1>1, DiskStays
  <2>2. ReaderTyped'
    BY <1>1, <1>3 DEF ReaderTyped, disk, Steps
  <2>3. StageOfStep' /\ ReadingIsOfOneMoment' /\ EvidenceIsGood' /\ SentIsGood'
    BY <1>1, <1>3 DEF StageOfStep, ReadingIsOfOneMoment, Opened, EvidenceIsGood, SentIsGood, Sent, disk
  <2> QED
    BY <2>1, <2>2, <2>3
<1>4. CASE /\ Confirm
           /\ evidence' = [file |-> seen.file, content |-> seen.raw, expires |-> Expiration(Selected),
                           mono |-> clock.mono, wall |-> clock.wall, last |-> clock.mono,
                           high |-> clock.wall]
           /\ Begin("check") /\ UNCHANGED launched
  <2>1. Expiration(Selected) \in Int
    BY DEF Expiration, Bounds
  <2>2. clock.mono \in Int /\ clock.wall \in Int
    BY DEF ReaderTyped, Bounds
  <2>3. evidence' \in Evidence
    BY <1>1, <1>4, <2>1, <2>2, ConfirmedIsHeld DEF Evidence
  <2>4. EvidenceIsGood'
    BY <1>1, <1>4, <2>2, ConfirmedIsHeld DEF EvidenceIsGood, disk
  <2>5. evidence' # None /\ launched = 0
    BY <1>1, <2>3 DEF Bounds, ReaderTyped
  <2> QED
    BY <1>1, <1>4, <2>3, <2>4, <2>5, AnewInv DEF Begin, Stages, ReaderTyped
<1> QED
  BY <1>1, <1>2, <1>3, <1>4 DEF Load, Go

(* The time a credential is judged by. *)
LEMMA LaterIsBoth ==
  ASSUME NEW a \in Int, NEW b \in Int
  PROVE  Later(a, b) \in Int /\ Later(a, b) >= a /\ Later(a, b) >= b
BY DEF Later

LEMMA EffectiveCovers ==
  ASSUME Bounds, ReaderTyped, evidence # None
  PROVE  /\ Effective \in Int /\ Effective >= evidence.high
         /\ Effective >= evidence.wall + (clock.mono - evidence.mono)
<1>1. /\ clock.mono \in Int /\ clock.wall \in Int /\ evidence.mono \in Int
      /\ evidence.wall \in Int /\ evidence.high \in Int
  BY DEF ReaderTyped, Evidence, Bounds
<1>2. Expected \in Int /\ Expected = evidence.wall + (clock.mono - evidence.mono)
  BY <1>1 DEF Expected
<1>3. Candidate \in Int /\ Candidate >= Expected
  BY <1>1, <1>2, LaterIsBoth DEF Candidate
<1>4. Effective \in Int /\ Effective >= Candidate /\ Effective >= evidence.high
  BY <1>1, <1>3, LaterIsBoth DEF Effective
<1> QED
  BY <1>2, <1>3, <1>4

LEMMA RevalidateInv == ASSUME Bounds, IInv, Revalidate PROVE IInv'
<1> USE DEF IInv
<1>1. pc = "use" /\ stage \in {"check", "launch", "send"} /\ UNCHANGED <<disk, clock>>
  BY DEF Revalidate, At
<1>2. CASE Fail
  BY <1>1, <1>2, FailInv
<1>3. CASE /\ SameSource
           /\ evidence' = [evidence EXCEPT !.last = clock.mono, !.high = Effective]
           /\ pc' = IF Lasts THEN After ELSE "failed"
           /\ UNCHANGED <<stage, seen, launched>>
  <2>1. evidence \in Evidence /\ evidence # None /\ clock.mono \in Int
    BY <1>1 DEF ReaderTyped, Bounds
  <2>2. /\ evidence' \in Evidence /\ evidence'.content = evidence.content
        /\ evidence'.wall = evidence.wall /\ evidence'.mono = evidence.mono
        /\ evidence'.last = clock.mono /\ evidence'.expires = evidence.expires
    BY <1>3, <2>1, EffectiveCovers DEF Evidence
  <2>3. DiskTyped' /\ HistoryEndsNow' /\ NumbersAreNew'
    BY <1>1, DiskStays
  <2>4. /\ pc' \in {"start", "serve", "sent", "failed"}
        /\ pc' = "start" => stage = "check"
        /\ pc' = "serve" => stage = "launch"
        /\ pc' = "sent" => stage = "send" /\ Lasts
    BY <1>1, <1>3 DEF After
  <2>5. ReaderTyped'
    BY <1>1, <1>3, <2>1, <2>2, <2>4 DEF ReaderTyped, disk, Steps, Bounds
  <2>6. StageOfStep' /\ ReadingIsOfOneMoment'
    BY <1>3, <2>4 DEF StageOfStep, ReadingIsOfOneMoment, Opened
  <2>7. EvidenceIsGood'
    BY <1>1, <2>1, <2>2 DEF EvidenceIsGood, disk
  <2>8. SentIsGood'
    <3>1. Held(evidence.content)
      BY <1>1, <1>3, ConfirmedIsHeld DEF SameSource, Confirm
    <3>2. (Held(evidence.content))'
      BY <1>1, <1>3, <2>2, <3>1 DEF Held, disk
    <3>3. ASSUME Lasts, evidence.wall >= evidence.mono
          PROVE  evidence.expires >= clock.mono + Margin
      <4>1. Margin \in Int /\ evidence.expires \in Int /\ evidence.wall \in Int /\ evidence.mono \in Int
        BY <2>1 DEF Bounds, Evidence
      <4> QED
        BY <2>1, <3>3, <4>1, EffectiveCovers DEF Lasts
    <3> QED
      BY <2>2, <2>4, <3>2, <3>3 DEF SentIsGood, Sent
  <2> QED
    BY <2>3, <2>5, <2>6, <2>7, <2>8
<1> QED
  BY <1>1, <1>2, <1>3 DEF Revalidate, Go

LEMMA StageStepInv == ASSUME Bounds, IInv, Refresh \/ Launch \/ Serve PROVE IInv'
<1> USE DEF IInv
<1>1. UNCHANGED <<disk, clock>> /\ Len(history) \in Nat /\ Len(history) > 0
  BY DEF Refresh, Launch, Serve, DiskTyped
<1>2. CASE Fail
  BY <1>1, <1>2, FailInv
<1>3. CASE pc = "refresh" /\ Begin("reload") /\ UNCHANGED <<evidence, launched>>
  <2>1. EvidenceIsGood'
    BY <1>1, <1>3 DEF EvidenceIsGood, disk
  <2> QED
    BY <1>1, <1>3, <2>1, AnewInv DEF Begin, Stages, ReaderTyped, StageOfStep
<1>4. CASE pc = "start" /\ Begin("launch") /\ launched' = Len(history) /\ UNCHANGED evidence
  <2>1. EvidenceIsGood'
    BY <1>1, <1>4 DEF EvidenceIsGood, disk
  <2> QED
    BY <1>1, <1>4, <2>1, AnewInv DEF Begin, Stages, ReaderTyped, StageOfStep
<1>5. CASE pc = "serve" /\ Begin("send") /\ UNCHANGED <<evidence, launched>>
  <2>1. EvidenceIsGood'
    BY <1>1, <1>5 DEF EvidenceIsGood, disk
  <2> QED
    BY <1>1, <1>5, <2>1, AnewInv DEF Begin, Stages, ReaderTyped, StageOfStep
<1> QED
  BY <1>2, <1>3, <1>4, <1>5 DEF Refresh, Launch, Serve, At

LEMMA StutterInv == ASSUME Bounds, IInv, UNCHANGED vars PROVE IInv'
<1>1. DiskTyped' /\ HistoryEndsNow' /\ NumbersAreNew'
  BY DiskStays DEF IInv, vars
<1>2. ReaderTyped' /\ StageOfStep'
  BY DEF IInv, vars, disk, reader, ReaderTyped, StageOfStep
<1>3. ReadingIsOfOneMoment' /\ EvidenceIsGood' /\ SentIsGood'
  BY DEF IInv, vars, disk, reader, ReadingIsOfOneMoment, Opened, Unturned, Held, EvidenceIsGood,
    SentIsGood, Sent
<1> QED
  BY <1>1, <1>2, <1>3 DEF IInv

LEMMA StepKeeps == ASSUME Bounds, IInv, [Next]_vars PROVE IInv'
BY RewriteFirstInv, RewriteSecondInv, ReplaceInv, RemoveInv, LoosenInv, ClockInv, OpenInv,
  ReadFirstInv, ReadSecondInv, StatInv, DigestFirstInv, DigestSecondInv, LoadInv, RevalidateInv,
  StageStepInv, StutterInv DEF Next, Inspect

-----------------------------------------------------------------------------
(* What follows *)

LEMMA InvariantTells ==
  ASSUME Bounds, IInv
  PROVE  TypeOK /\ EvidenceWasWhole /\ SentWasHeldAfterLaunch /\ SentOutlivesReview
<1> USE DEF IInv
<1>1. TypeOK
  BY DEF TypeOK, DiskTyped, ReaderTyped, Blocks, Stages
<1>2. EvidenceWasWhole
  BY DEF EvidenceWasWhole, EvidenceIsGood
<1>3. SentWasHeldAfterLaunch
  BY DEF SentWasHeldAfterLaunch, SentIsGood, Held, ReaderTyped, DiskTyped
<1>4. SentOutlivesReview
  BY DEF SentOutlivesReview, SentIsGood
<1> QED
  BY <1>1, <1>2, <1>3, <1>4

(* What is loaded is the file at one moment; what a reviewer is sent was   *)
(* in the account's file after the reviewer was launched, and outlives the *)
(* review unless the wall clock was behind when it was loaded              *)
(* (auth_carrier.py:480, review_execution.py:1572).                        *)
THEOREM SentIsCurrent ==
  ASSUME Bounds
  PROVE  Spec => [](TypeOK /\ EvidenceWasWhole /\ SentWasHeldAfterLaunch /\ SentOutlivesReview)
<1>1. Init => IInv
  BY InitHolds
<1>2. IInv /\ [Next]_vars => IInv'
  BY StepKeeps
<1>3. IInv => TypeOK /\ EvidenceWasWhole /\ SentWasHeldAfterLaunch /\ SentOutlivesReview
  BY InvariantTells
<1> QED
  BY <1>1, <1>2, <1>3, PTL DEF Spec

(* The time a credential is judged by moves forward only. *)
LEMMA HighWaterStep ==
  ASSUME Bounds, IInv, [Next]_vars
  PROVE  HighWaterStays
<1>1. evidence # None => evidence.high \in Int /\ evidence.last \in Int
  BY DEF IInv, ReaderTyped, Evidence
<1>2. CASE evidence' = evidence
  BY <1>1, <1>2 DEF HighWaterStays
<1>3. CASE evidence # None /\ evidence' = [evidence EXCEPT !.last = clock.mono, !.high = Effective]
  <2>1. evidence \in Evidence /\ clock.mono \in Int /\ evidence.last <= clock.mono
    BY <1>3 DEF IInv, ReaderTyped, EvidenceIsGood, Bounds
  <2>2. Effective >= evidence.high
    BY <1>3, EffectiveCovers DEF IInv
  <2> QED
    BY <1>3, <2>1, <2>2 DEF HighWaterStays, Evidence
<1>4. CASE evidence = None
  BY <1>4 DEF HighWaterStays
<1>5. \/ evidence' = evidence \/ evidence = None
      \/ evidence # None /\ evidence' = [evidence EXCEPT !.last = clock.mono, !.high = Effective]
  <2>1. CASE Load
    BY <2>1 DEF IInv, ReaderTyped, Load
  <2>2. CASE Revalidate
    BY <2>2 DEF Revalidate, Fail
  <2>3. CASE ~Load /\ ~Revalidate
    BY <2>3 DEF Next, Inspect, vars, reader, RewriteFirst, RewriteSecond, Replace, Remove, Loosen,
      Tick, SetWall, Open, Read, Stat, Digest, Refresh, Launch, Serve, Fail, Begin
  <2> QED
    BY <2>1, <2>2, <2>3
<1> QED
  BY <1>2, <1>3, <1>4, <1>5

(* The time a credential is judged by never goes back, however the wall    *)
(* clock is set.                                                           *)
THEOREM HighWaterHolds == ASSUME Bounds PROVE Spec => HighWaterRises
<1>1. Init => IInv
  BY InitHolds
<1>2. IInv /\ [Next]_vars => IInv'
  BY StepKeeps
<1>3. IInv /\ [Next]_vars => [HighWaterStays]_vars
  BY HighWaterStep
<1> QED
  BY <1>1, <1>2, <1>3, PTL DEF Spec, HighWaterRises

-----------------------------------------------------------------------------
(* The session *)

(* The module counts with its own copy of the library's Cardinality. *)
LEMMA SameCount == \A S : Session!Cardinality(S) = Cardinality(S)
BY DEF Session!Cardinality, Cardinality

(* The units a sum counts, and those of one more. *)
Units(f) == UNION {{k} \X (1..f[k]) : k \in DOMAIN f}
Slice(k, a, d) == {k} \X (a + 1 .. a + d)

LEMMA SliceCounts ==
  ASSUME NEW k, NEW a \in Nat, NEW d \in Nat
  PROVE  IsFiniteSet(Slice(k, a, d)) /\ Cardinality(Slice(k, a, d)) = d
<1>1. IsFiniteSet({k}) /\ Cardinality({k}) = 1
  BY FS_Singleton
<1>2. IsFiniteSet(a + 1 .. a + d) /\ Cardinality(a + 1 .. a + d) = d
  <2>1. /\ IsFiniteSet(a + 1 .. a + d)
        /\ Cardinality(a + 1 .. a + d) = IF a + 1 > a + d THEN 0 ELSE (a + d) - (a + 1) + 1
    BY FS_Interval
  <2> QED
    BY <2>1
<1>3. \A S, T : IsFiniteSet(S) /\ IsFiniteSet(T) =>
        IsFiniteSet(S \X T) /\ Cardinality(S \X T) = Cardinality(S) * Cardinality(T)
  BY FS_Product
<1>4. /\ IsFiniteSet({k} \X (a + 1 .. a + d))
      /\ Cardinality({k} \X (a + 1 .. a + d)) = Cardinality({k}) * Cardinality(a + 1 .. a + d)
  BY <1>1, <1>2, <1>3, Zenon
<1> QED
  BY <1>1, <1>2, <1>4 DEF Slice

LEMMA TotalType ==
  ASSUME NEW n \in Nat, NEW f \in [1..n -> Nat]
  PROVE  IsFiniteSet(Units(f)) /\ Session!Total(f) \in Nat
<1> DEFINE Of == [k \in 1..n |-> {k} \X (1..f[k])]
           All == {{k} \X (1..f[k]) : k \in 1..n}
<1>1. Of \in Surjection(1..n, All)
  BY DEF Surjection
<1>2. IsFiniteSet(1..n)
  BY FS_Interval
<1>3. IsFiniteSet(All)
  <2> HIDE DEF All, Of
  <2> QED
    BY <1>1, <1>2, FS_Surjection
<1>4. ASSUME NEW T \in All PROVE IsFiniteSet(T)
  <2>1. PICK k \in 1..n : T = {k} \X (1..f[k])
    OBVIOUS
  <2>2. f[k] \in Nat
    OBVIOUS
  <2>3. T = Slice(k, 0, f[k])
    BY <2>1, <2>2 DEF Slice
  <2> QED
    BY <2>2, <2>3, SliceCounts
<1>5. IsFiniteSet(UNION All)
  <2> HIDE DEF All
  <2> QED
    BY <1>3, <1>4, FS_UNION
<1>6. Units(f) = UNION All
  BY DEF Units
<1> HIDE DEF All
<1> QED
  BY <1>5, <1>6, FS_CardinalityType, SameCount DEF Session!Total, Units

(* A set that gains a slice gains as many. *)
LEMMA SliceAdds ==
  ASSUME NEW U, IsFiniteSet(U), NEW k, NEW a \in Nat, NEW d \in Nat,
         \A u \in U : u \notin Slice(k, a, d)
  PROVE  Cardinality(U \cup Slice(k, a, d)) = Cardinality(U) + d
<1>1. IsFiniteSet(Slice(k, a, d)) /\ Cardinality(Slice(k, a, d)) = d
  BY SliceCounts
<1>2. Cardinality(U \cup Slice(k, a, d)) = Cardinality(U) + Cardinality(Slice(k, a, d))
           - Cardinality(U \cap Slice(k, a, d))
  BY <1>1, FS_Union
<1>3. U \cap Slice(k, a, d) = {}
  OBVIOUS
<1>4. Cardinality({}) = 0 /\ Cardinality(U) \in Nat
  BY FS_EmptySet, FS_CardinalityType
<1>5. Cardinality(U \cap Slice(k, a, d)) = 0
  BY <1>3, <1>4, Zenon
<1> QED
  BY <1>1, <1>2, <1>4, <1>5

LEMMA InUnits ==
  ASSUME NEW n \in Nat, NEW f \in [1..n -> Nat], NEW u
  PROVE  u \in Units(f) <=> \E k \in 1..n, i \in Nat : u = <<k, i>> /\ 1 <= i /\ i <= f[k]
BY DEF Units

LEMMA InSlice ==
  ASSUME NEW k, NEW a \in Nat, NEW d \in Nat, NEW u
  PROVE  u \in Slice(k, a, d) <=> \E i \in Nat : u = <<k, i>> /\ a < i /\ i <= a + d
BY DEF Slice

(* One summand more. *)
LEMMA TotalAppends ==
  ASSUME NEW n \in Nat, NEW f \in [1..n -> Nat], NEW g \in [1..(n + 1) -> Nat],
         \A k \in 1..n : g[k] = f[k]
  PROVE  Session!Total(g) = Session!Total(f) + g[n + 1]
<1>1. g[n + 1] \in Nat /\ n + 1 \in Nat /\ 1..n \subseteq 1..(n + 1)
  OBVIOUS
<1>2. ASSUME NEW u PROVE u \in Units(g) <=> u \in Units(f) \/ u \in Slice(n + 1, 0, g[n + 1])
  <2>1. u \in Units(g) <=> \E k \in 1..(n + 1), i \in Nat : u = <<k, i>> /\ 1 <= i /\ i <= g[k]
    BY <1>1, InUnits
  <2>2. u \in Units(f) <=> \E k \in 1..n, i \in Nat : u = <<k, i>> /\ 1 <= i /\ i <= f[k]
    BY InUnits
  <2>3. u \in Slice(n + 1, 0, g[n + 1]) <=> \E i \in Nat : u = <<n + 1, i>> /\ 0 < i
             /\ i <= 0 + g[n + 1]
    BY <1>1, InSlice
  <2>4. \A k \in 1..(n + 1) : k \in 1..n \/ k = n + 1
    OBVIOUS
  <2> QED
    BY <1>1, <2>1, <2>2, <2>3, <2>4
<1>3. ASSUME NEW u \in Units(f), u \in Slice(n + 1, 0, g[n + 1]) PROVE FALSE
  <2>1. PICK k \in 1..n, i \in Nat : u = <<k, i>>
    BY <1>3, InUnits
  <2>2. PICK j \in Nat : u = <<n + 1, j>>
    BY <1>1, <1>3, InSlice
  <2> QED
    BY <2>1, <2>2
<1>4. Units(g) = Units(f) \cup Slice(n + 1, 0, g[n + 1])
  BY <1>2
<1>5. IsFiniteSet(Units(f))
  BY TotalType
<1>6. Cardinality(Units(f) \cup Slice(n + 1, 0, g[n + 1])) = Cardinality(Units(f)) + g[n + 1]
  BY ONLY <1>1, <1>3, <1>5, SliceAdds, 0 \in Nat, Zenon
<1> QED
  BY <1>4, <1>6, SameCount DEF Session!Total, Units

(* One summand raised. *)
LEMMA TotalRises ==
  ASSUME NEW n \in Nat, NEW f \in [1..n -> Nat], NEW g \in [1..n -> Nat], NEW k \in 1..n, NEW d \in Nat,
         g[k] = f[k] + d, \A j \in 1..n : j # k => g[j] = f[j]
  PROVE  Session!Total(g) = Session!Total(f) + d
<1>1. f[k] \in Nat
  OBVIOUS
<1>2. ASSUME NEW u PROVE u \in Units(g) <=> u \in Units(f) \/ u \in Slice(k, f[k], d)
  <2>1. u \in Units(g) <=> \E j \in 1..n, i \in Nat : u = <<j, i>> /\ 1 <= i /\ i <= g[j]
    BY InUnits, Zenon
  <2>2. u \in Units(f) <=> \E j \in 1..n, i \in Nat : u = <<j, i>> /\ 1 <= i /\ i <= f[j]
    BY ONLY InUnits, n \in Nat, g \in [1..n -> Nat], Zenon
  <2>3. u \in Slice(k, f[k], d) <=> \E i \in Nat : u = <<k, i>> /\ f[k] < i /\ i <= f[k] + d
    BY <1>1, InSlice
  <2>4. ASSUME u \in Units(g) PROVE u \in Units(f) \/ u \in Slice(k, f[k], d)
    <3>1. PICK j \in 1..n, i \in Nat : u = <<j, i>> /\ 1 <= i /\ i <= g[j]
      BY <2>1, <2>4
    <3>2. CASE j = k /\ i > f[k]
      BY <1>1, <3>1, <3>2, <2>3
    <3>3. CASE ~(j = k /\ i > f[k])
      BY <1>1, <3>1, <3>3, <2>2
    <3> QED
      BY <3>2, <3>3
  <2>5. ASSUME u \in Units(f) PROVE u \in Units(g)
    <3>1. PICK j \in 1..n, i \in Nat : u = <<j, i>> /\ 1 <= i /\ i <= f[j]
      BY <2>2, <2>5
    <3>2. f[j] \in Nat /\ f[j] <= g[j]
      BY <1>1
    <3> QED
      BY <3>1, <3>2, <2>1
  <2>6. ASSUME u \in Slice(k, f[k], d) PROVE u \in Units(g)
    <3>1. PICK i \in Nat : u = <<k, i>> /\ f[k] < i /\ i <= f[k] + d
      BY <2>3, <2>6
    <3>2. 1 <= i /\ i <= g[k]
      BY <1>1, <3>1
    <3> QED
      BY <3>1, <3>2, <2>1
  <2> QED
    BY <2>4, <2>5, <2>6
<1>3. ASSUME NEW u \in Units(f), u \in Slice(k, f[k], d) PROVE FALSE
  <2>1. PICK j \in 1..n, i \in Nat : u = <<j, i>> /\ i <= f[j]
    BY <1>3, InUnits
  <2>2. PICK l \in Nat : u = <<k, l>> /\ f[k] < l
    BY <1>1, <1>3, InSlice
  <2> QED
    BY <1>1, <2>1, <2>2
<1>4. Units(g) = Units(f) \cup Slice(k, f[k], d)
  BY <1>2
<1>5. IsFiniteSet(Units(f))
  BY TotalType
<1>6. Cardinality(Units(f) \cup Slice(k, f[k], d)) = Cardinality(Units(f)) + d
  BY ONLY <1>1, <1>3, <1>5, SliceAdds, d \in Nat, Zenon
<1> QED
  BY <1>4, <1>6, SameCount DEF Session!Total, Units

-----------------------------------------------------------------------------
(* Sizes of lists of texts *)

LEMMA SizeType ==
  ASSUME NEW S, NEW parts \in Seq(Seq(S))
  PROVE  Session!Size(parts) \in Nat
<1> DEFINE f == [k \in DOMAIN parts |-> Len(parts[k])]
<1>1. Len(parts) \in Nat /\ f \in [1..Len(parts) -> Nat]
  OBVIOUS
<1> HIDE DEF f
<1>2. Session!Total(f) \in Nat
  BY <1>1, TotalType
<1> QED
  BY <1>2 DEF Session!Size, f

LEMMA SizeOfNone == Session!Size(<<>>) = 0
<1> DEFINE f == [k \in DOMAIN <<>> |-> Len((<<>>)[k])]
<1>1. DOMAIN f = {}
  OBVIOUS
<1> HIDE DEF f
<1>2. {{k} \X (1..f[k]) : k \in DOMAIN f} = {}
  BY <1>1
<1>3. Session!Total(f) = Cardinality({})
  BY <1>2, SameCount DEF Session!Total
<1> QED
  BY <1>3, FS_EmptySet DEF Session!Size, f

LEMMA SizeAppends ==
  ASSUME NEW S, NEW parts \in Seq(Seq(S)), NEW d \in Seq(S)
  PROVE  Session!Size(Append(parts, d)) = Session!Size(parts) + Len(d)
<1> DEFINE n == Len(parts)
           more == Append(parts, d)
           f == [k \in DOMAIN parts |-> Len(parts[k])]
           g == [k \in DOMAIN more |-> Len(more[k])]
<1>1. n \in Nat /\ f \in [1..n -> Nat] /\ more \in Seq(Seq(S)) /\ Len(more) = n + 1
  OBVIOUS
<1>2. g \in [1..(n + 1) -> Nat] /\ g[n + 1] = Len(d) /\ \A k \in 1..n : g[k] = f[k]
  BY <1>1
<1> HIDE DEF f, g, n
<1>3. Session!Total(g) = Session!Total(f) + g[n + 1]
  BY <1>1, <1>2, TotalAppends
<1> QED
  BY <1>2, <1>3 DEF Session!Size, f, g

LEMMA SizeRises ==
  ASSUME NEW S, NEW parts \in Seq(Seq(S)), NEW d \in Seq(S), NEW k \in 1..Len(parts),
         NEW more \in Seq(Seq(S)), Len(more) = Len(parts), more[k] = parts[k] \o d,
         \A j \in 1..Len(parts) : j # k => more[j] = parts[j]
  PROVE  Session!Size(more) = Session!Size(parts) + Len(d)
<1> DEFINE n == Len(parts)
           f == [j \in DOMAIN parts |-> Len(parts[j])]
           g == [j \in DOMAIN more |-> Len(more[j])]
<1>1. n \in Nat /\ f \in [1..n -> Nat] /\ parts[k] \in Seq(S)
  OBVIOUS
<1>2. Len(parts[k] \o d) = Len(parts[k]) + Len(d)
  BY <1>1
<1>3. g \in [1..n -> Nat] /\ g[k] = f[k] + Len(d) /\ \A j \in 1..n : j # k => g[j] = f[j]
  BY <1>1, <1>2
<1>4. Len(d) \in Nat /\ k \in 1..n
  OBVIOUS
<1> HIDE DEF f, g, n
<1>5. Session!Total(g) = Session!Total(f) + Len(d)
  BY <1>1, <1>3, <1>4, TotalRises
<1> QED
  BY <1>5 DEF Session!Size, f, g, n

(* Distinct identifiers are as many as the items that bear them. *)
LEMMA DistinctCount ==
  ASSUME NEW S, NEW n \in Nat, NEW f \in [1..n -> S], \A j, k \in 1..n : f[j] = f[k] => j = k
  PROVE  Cardinality({f[k] : k \in 1..n}) = n
<1> DEFINE T == {f[k] : k \in 1..n}
<1>1. f \in Injection(1..n, T)
  BY DEF Injection, IsInjective
<1>2. f \in Surjection(1..n, T)
  BY DEF Surjection
<1>3. f \in Bijection(1..n, T)
  BY <1>1, <1>2 DEF Bijection
<1> HIDE DEF T
<1>4. Cardinality(T) = n
  BY <1>3, FS_CountingElements DEF ExistsBijection
<1> QED
  BY <1>4 DEF T

-----------------------------------------------------------------------------
(* The inductive invariant *)

SessionStates == {"new", "initialize", "auth", "config", "hooks", "thread", "turn", "running", "terminal", "failed"}
Requests == {"initialize", "account/login/start", "config/read", "hooks/list", "thread/start", "turn/start"}

SessionBounds ==
  /\ Budget \in Nat \ {0} /\ MaxParts \in Nat \ {0} /\ MaxReasoning \in Nat /\ MaxTelemetry \in Nat
  /\ MaxItems \in Nat /\ MaxDeltas \in Nat /\ ExternalAuth \in BOOLEAN
  /\ None \notin Ids /\ None \notin Session!Items /\ None \notin Requests

Texted == Seq(Seq(Words))

TalkTyped ==
  /\ st \in SessionStates /\ clash \in BOOLEAN /\ queue \in Seq(Requests)
  /\ thread \in Session!IdNote /\ round \in Session!IdNote
IoTyped ==
  /\ answer \in BOOLEAN /\ telemetry \in 0..MaxTelemetry
  /\ pipes \in [stdin : BOOLEAN, queued : BOOLEAN, stdout : BOOLEAN, partial : BOOLEAN,
             exit : {None, "zero", "nonzero"}]
WorkTyped ==
  /\ items \in [active : Session!Items
       \cup {None}, done : Seq(Session!Items), final : Session!Items \cup {None}]
  /\ Len(items.done) <= MaxItems + 1
  /\ stream \in [began : Seq(Words), parts : Texted, bytes : 0..Budget]
  /\ reason \in [content : Texted, summary : Texted, bytes : 0..Budget]
  /\ Len(reason.content) <= MaxParts /\ Len(reason.summary) <= MaxParts

(* What is not known yet in a state, and what is proved by then. *)
Asked == {k \in DOMAIN queue : queue[k] = "turn/start"}
BeforeThread == {"new", "initialize", "auth", "config", "hooks"}
BeforeTurn == BeforeThread \cup {"thread"}
NotYet ==
  /\ st \in BeforeThread => thread = Session!Unknown
  /\ st \in BeforeTurn => round = Session!Unknown /\ Asked = {}
Since(states, method) == st \notin states \cup {"failed"} => Session!ClaimsOf(method) \subseteq proved
ProvedByNow ==
  /\ Since({"new", "initialize"}, "initialize")
  /\ Since({"new", "initialize", "auth", "config"}, "config/read")
  /\ Since(BeforeThread, "hooks/list")
  /\ thread.resp # None => Session!ClaimsOf("thread/start") \subseteq proved
  /\ thread.note # None => Session!ClaimsOf("thread/started") \subseteq proved
LastIsOne ==
  /\ thread.cur \in {thread.resp, thread.note}
  /\ round.cur \in {round.resp, round.note}
(* The prompt was queued once, or not at all. *)
AskedOnce == Asked = {} \/ \E k \in DOMAIN queue : Asked = {k}
Earned ==
  Asked # {} =>
    /\ \A m \in {"initialize", "config/read", "hooks/list", "thread/start", "thread/started"} :
         Session!ClaimsOf(m) \subseteq proved
    /\ ExternalAuth => Session!AuthNotices \cup {"account/login/start"} \subseteq proved
    /\ thread.resp = thread.note /\ thread.note = thread.cur
TalkInv ==
  /\ TalkTyped /\ Session!OneOutstanding /\ NotYet /\ ProvedByNow /\ LastIsOne /\ AskedOnce
  /\ Earned /\ Session!RunsOnAgreedTurn

LEMMA ClaimsTell ==
  /\ "initialize" \in Session!ClaimsOf("initialize")
  /\ {"config/read", "tools off", "features off", "user and system layers empty"}
       \subseteq Session!ClaimsOf("config/read")
  /\ {"hooks/list", "no hooks in the neutral directory"} \subseteq Session!ClaimsOf("hooks/list")
  /\ {"thread/start", "read-only sandbox", "never asks", "ephemeral"}
       \subseteq Session!ClaimsOf("thread/start")
  /\ "thread/started" \in Session!ClaimsOf("thread/started")
BY DEF Session!ClaimsOf, Session!InitializeClaims, Session!ConfigClaims, Session!NoExecutionClaims,
   Session!LayerClaims, Session!HooksClaims, Session!ThreadStartClaims, Session!ThreadClaims

(* The items: the message is the last, a user's message the first, and no  *)
(* identifier stands for two.                                              *)
FinalIsLast ==
  items.final # None =>
    /\ items.active = None /\ Len(items.done) > 0 /\ items.done[Len(items.done)] = items.final
    /\ items.final.type = "agentMessage"
MessageIsFinal ==
  \A k \in DOMAIN items.done : items.done[k].type = "agentMessage" => items.final # None /\ k
       = Len(items.done)
UserIsFirst ==
  /\ \A k \in DOMAIN items.done : items.done[k].type = "userMessage" => k = 1
  /\ Session!Active("userMessage") => items.done = <<>>
IdsDiffer ==
  /\ \A j, k \in DOMAIN items.done : items.done[j].id = items.done[k].id => j = k
  /\ items.active # None => items.active.held = 0 /\ ~Session!Used(items.active.id)
       /\ Len(items.done) < MaxItems
(* The message's text: nothing is streamed before it begins. *)
StreamIsText ==
  /\ Session!Active("agentMessage") => stream.began = items.active.text
  /\ items.final = None /\ ~Session!Active("agentMessage") => stream.parts = <<>> /\ stream.bytes = 0
  /\ items.final # None /\ stream.parts # <<>> => items.final.text
       = stream.began \o Session!Join(stream.parts)
WorkInv ==
  /\ WorkTyped /\ FinalIsLast /\ MessageIsFinal /\ UserIsFirst /\ IdsDiffer /\ StreamIsText
       /\ Session!HeldIsCounted

TerminalIsFinal == st = "terminal" => items.final # None

SessionInv == TalkInv /\ IoTyped /\ WorkInv /\ TerminalIsFinal /\ Session!AnswerIsDelivered

LEMMA SessionInvariantTells ==
  ASSUME SessionBounds, SessionInv
  PROVE  Session!TypeOK /\ Session!OneOutstanding /\ Session!PromptIsEarned
              /\ Session!RunsOnAgreedTurn /\ Session!ResultIsTheStream
         /\ Session!HeldIsCounted /\ Session!AnswerIsDelivered
<1>1. Session!OneOutstanding /\ Session!RunsOnAgreedTurn /\ Session!HeldIsCounted
           /\ Session!AnswerIsDelivered
  BY DEF SessionInv, TalkInv, WorkInv
<1>4. Session!PromptIsEarned
  <2>1. SUFFICES ASSUME "turn/start" \in Session!ToSet(queue)
                 PROVE  /\ Cardinality(Asked) = 1
                        /\ {"initialize", "config/read", "hooks/list", "thread/start", "thread/started"} \subseteq proved
                        /\ {"tools off", "features off", "user and system layers empty", "read-only sandbox",
                            "never asks", "ephemeral", "no hooks in the neutral directory"} \subseteq proved
                        /\ ExternalAuth => Session!AuthNotices
                             \cup {"account/login/start"} \subseteq proved
                        /\ thread.resp = thread.note /\ thread.note = thread.cur
    BY SameCount DEF Session!PromptIsEarned, Asked
  <2>2. Asked # {}
    BY <2>1 DEF Session!ToSet, Asked
  <2>3. Cardinality(Asked) = 1
    BY <2>2, FS_Singleton DEF SessionInv, TalkInv, AskedOnce
  <2>4. Earned
    BY DEF SessionInv, TalkInv
  <2> QED
    BY <2>2, <2>3, <2>4, ClaimsTell DEF Earned
<1>2. Session!TypeOK
  BY DEF SessionInv, TalkInv, TalkTyped, IoTyped, WorkInv, WorkTyped, Session!TypeOK, SessionStates
<1>3. Session!ResultIsTheStream
  <2>1. SUFFICES ASSUME st = "terminal"
                 PROVE  LET n == Len(items.done) IN
    /\ n > 0 /\ items.done[n] = items.final
    /\ \A k \in 1..n : (items.done[k].type = "agentMessage") <=> k = n
    /\ \A k \in 1..n : items.done[k].type = "userMessage" => k = 1
    /\ Cardinality({items.done[k].id : k \in 1..n}) = n
    /\ stream.parts # <<>> => items.final.text = stream.began \o Session!Join(stream.parts)
    BY SameCount DEF Session!ResultIsTheStream
  <2> DEFINE n == Len(items.done)
             id == [k \in 1..n |-> items.done[k].id]
  <2>2. items.final # None /\ WorkInv
    BY <2>1 DEF SessionInv, TerminalIsFinal
  <2>3. n \in Nat /\ DOMAIN items.done = 1..n /\ \A k \in 1..n : items.done[k].id \in Ids
    <3>1. items.done \in Seq(Session!Items)
      BY <2>2 DEF WorkInv, WorkTyped
    <3>2. \A x \in Session!Items : x.id \in Ids
      BY DEF Session!Items
    <3> QED
      BY <3>1, <3>2
  <2>4. n > 0 /\ items.done[n] = items.final /\ items.final.type = "agentMessage"
    BY <2>2 DEF WorkInv, FinalIsLast
  <2>5. \A k \in 1..n : (items.done[k].type = "agentMessage") <=> k = n
    BY <2>2, <2>3, <2>4 DEF WorkInv, MessageIsFinal
  <2>6. \A k \in 1..n : items.done[k].type = "userMessage" => k = 1
    BY <2>2, <2>3 DEF WorkInv, UserIsFirst
  <2>7. Cardinality({items.done[k].id : k \in 1..n}) = n
    <3>1. id \in [1..n -> Ids] /\ \A j, k \in 1..n : id[j] = id[k] => j = k
      BY <2>2, <2>3 DEF WorkInv, IdsDiffer
    <3>2. {items.done[k].id : k \in 1..n} = {id[k] : k \in 1..n}
      OBVIOUS
    <3> HIDE DEF id, n
    <3> QED
      BY <2>3, <3>1, <3>2, DistinctCount
  <2>8. stream.parts # <<>> => items.final.text = stream.began \o Session!Join(stream.parts)
    BY <2>2 DEF WorkInv, StreamIsText
  <2> QED
    BY <2>4, <2>5, <2>6, <2>7, <2>8
<1> QED
  BY <1>1, <1>2, <1>3, <1>4

LEMMA SessionInitHolds ==
  ASSUME SessionBounds, Session!Init
  PROVE  SessionInv
<1>1. TalkInv
  <2>1. TalkTyped
    <3>1. Session!Unknown \in Session!IdNote
      BY DEF Session!Unknown, Session!IdNote
    <3>2. queue \in Seq(Requests)
      BY EmptySeq DEF Session!Init
    <3> QED
      BY <3>1, <3>2 DEF Session!Init, TalkTyped, SessionStates
  <2>2. Session!ToSet(queue) = {} /\ Asked = {}
    BY DEF Session!Init, Session!ToSet, Asked
  <2>3. Session!OneOutstanding /\ NotYet /\ ProvedByNow /\ LastIsOne
    BY <2>2 DEF Session!Init, Session!OneOutstanding, NotYet, ProvedByNow, Since, LastIsOne,
       Session!Unknown, BeforeThread, BeforeTurn
  <2> QED
    BY <2>1, <2>2, <2>3 DEF TalkInv, AskedOnce, Earned, Session!RunsOnAgreedTurn, Session!Init
<1>2. IoTyped
  <2>1. 0 \in 0..MaxTelemetry
    BY DEF SessionBounds
  <2> QED
    BY <2>1 DEF Session!Init, IoTyped
<1>3. WorkInv
  <2>1. Session!Size(<<>>) = 0
    BY SizeOfNone
  <2>2. Session!Total([k \in DOMAIN items.done |-> items.done[k].held]) = 0
    <3>1. [k \in DOMAIN items.done |-> items.done[k].held] = [k \in DOMAIN <<>> |-> Len((<<>>)[k])]
      BY DEF Session!Init
    <3> QED
      BY <2>1, <3>1 DEF Session!Size
  <2>3. Session!HeldIsCounted
    BY <2>1, <2>2 DEF Session!HeldIsCounted, Session!Init, Session!Active
  <2>4. WorkTyped
    BY DEF Session!Init, WorkTyped, Texted, SessionBounds
  <2> QED
    BY <2>3, <2>4 DEF Session!Init, WorkInv, FinalIsLast, MessageIsFinal, UserIsFirst, IdsDiffer,
       StreamIsText, Session!Active
<1>4. TerminalIsFinal /\ Session!AnswerIsDelivered
  BY DEF Session!Init, TerminalIsFinal, Session!AnswerIsDelivered
<1> QED
  BY <1>1, <1>2, <1>3, <1>4 DEF SessionInv

-----------------------------------------------------------------------------
(* The conversation *)

LEMMA TalkKept ==
  ASSUME TalkInv, UNCHANGED <<Session!conv, Session!talk>>
  PROVE  TalkInv'
BY DEF TalkInv, Session!conv, Session!talk, TalkTyped, Session!OneOutstanding, NotYet, ProvedByNow,
   Since, LastIsOne, AskedOnce, Earned, Asked, Session!RunsOnAgreedTurn

LEMMA TalkFails ==
  ASSUME TalkInv, st' = "failed", UNCHANGED <<pending, queue, clash, Session!talk>>
  PROVE  TalkInv'
BY DEF TalkInv, Session!talk, TalkTyped, SessionStates, Session!OneOutstanding, NotYet,
   BeforeThread, BeforeTurn, ProvedByNow, Since, LastIsOne, AskedOnce, Earned, Asked,
   Session!RunsOnAgreedTurn

LEMMA TalkEnds ==
  ASSUME TalkInv, st = "running", st' = "terminal", UNCHANGED <<pending, queue, clash, Session!talk>>
  PROVE  TalkInv'
BY DEF TalkInv, Session!talk, TalkTyped, SessionStates, Session!OneOutstanding, NotYet,
   BeforeThread, BeforeTurn, ProvedByNow, Since, LastIsOne, AskedOnce, Earned, Asked,
   Session!RunsOnAgreedTurn

LEMMA AskedAppends ==
  ASSUME queue \in Seq(Requests), NEW m \in Requests, queue' = Append(queue, m)
  PROVE  /\ queue' \in Seq(Requests)
         /\ m # "turn/start" => Asked' = Asked
         /\ m = "turn/start" /\ Asked = {} => Asked' = {Len(queue) + 1}
              /\ Len(queue) + 1 \in DOMAIN queue'
<1>1. queue' \in Seq(Requests) /\ Len(queue') = Len(queue) + 1 /\ Len(queue) \in Nat
  OBVIOUS
<1>2. DOMAIN queue = 1..Len(queue) /\ DOMAIN queue' = 1..(Len(queue) + 1)
  BY <1>1
<1>3. queue'[Len(queue) + 1] = m /\ \A k \in 1..Len(queue) : queue'[k] = queue[k]
  OBVIOUS
<1> QED
  BY <1>1, <1>2, <1>3 DEF Asked

LEMMA StartTalks ==
  ASSUME SessionBounds, TalkInv, Session!Start
  PROVE  TalkInv'
<1>1. queue' \in Seq(Requests) /\ Asked' = Asked
  BY AskedAppends DEF TalkInv, TalkTyped, Session!Start, Session!Ask, Requests
<1>2. TalkTyped'
  BY <1>1 DEF TalkInv, TalkTyped, Session!Start, Session!Ask, SessionStates
<1>3. Session!OneOutstanding'
  BY DEF TalkInv, Session!OneOutstanding, Session!Start, Session!Ask, Session!RequestOf
<1> QED
  BY <1>1, <1>2, <1>3 DEF TalkInv, Session!Start, NotYet, BeforeThread, BeforeTurn, ProvedByNow,
     Since, LastIsOne, AskedOnce, Earned, Session!RunsOnAgreedTurn

LEMMA SetupTalks ==
  ASSUME SessionBounds, TalkInv, Session!SetupResponse
  PROVE  TalkInv'
<1>1. PICK s \in DOMAIN Session!NextState :
        /\ Session!Answered(Session!RequestOf[s], s) /\ st' = Session!NextState[s] /\ proved'
             = proved \cup Session!ClaimsOf(Session!RequestOf[s])
        /\ Session!Ask(Session!RequestOf[Session!NextState[s]], None) /\ UNCHANGED <<thread, round>>
  BY DEF Session!SetupResponse
<1>2. /\ s \in {"initialize", "auth", "config", "hooks"} /\ st = s
      /\ Session!NextState[s] \in {"auth", "config", "hooks", "thread"}
      /\ s = "initialize" => Session!NextState[s] = IF ExternalAuth THEN "auth" ELSE "config"
      /\ s = "auth" => Session!NextState[s] = "config"
      /\ s = "config" => Session!NextState[s] = "hooks"
      /\ s = "hooks" => Session!NextState[s] = "thread"
  BY <1>1 DEF Session!NextState, Session!Answered
<1>3. /\ Session!RequestOf[Session!NextState[s]] \in Requests \ {"turn/start"}
      /\ Session!RequestOf["initialize"] = "initialize" /\ Session!RequestOf["auth"]
           = "account/login/start"
      /\ Session!RequestOf["config"] = "config/read" /\ Session!RequestOf["hooks"] = "hooks/list"
      /\ Session!RequestOf["thread"] = "thread/start"
  BY <1>2 DEF Session!RequestOf, Requests
<1>4. queue' \in Seq(Requests) /\ Asked' = Asked
  BY <1>1, <1>3, AskedAppends DEF TalkInv, TalkTyped, Session!Ask
<1>5. TalkTyped'
  BY <1>1, <1>2, <1>4 DEF TalkInv, TalkTyped, Session!Ask, SessionStates
<1>6. thread = Session!Unknown /\ round = Session!Unknown /\ Asked = {}
  BY <1>2 DEF TalkInv, NotYet, BeforeThread, BeforeTurn
<1>7. Session!OneOutstanding'
  BY <1>1, <1>2, <1>3, <1>6 DEF TalkInv, Session!OneOutstanding, Session!Ask, Session!RequestOf,
     Session!Unknown
<1>8. ProvedByNow'
  <2>1. st = "initialize" => Session!ClaimsOf("initialize") \subseteq proved'
    BY <1>1, <1>2, <1>3
  <2>2. st = "config" => Session!ClaimsOf("config/read") \subseteq proved'
    BY <1>1, <1>2, <1>3
  <2>3. st = "hooks" => Session!ClaimsOf("hooks/list") \subseteq proved'
    BY <1>1, <1>2, <1>3
  <2> QED
    BY <1>1, <1>2, <1>6, <2>1, <2>2, <2>3 DEF TalkInv, ProvedByNow, Since, BeforeThread, Session!Unknown
<1>9. NotYet' /\ LastIsOne' /\ AskedOnce' /\ Earned' /\ Session!RunsOnAgreedTurn'
  BY <1>1, <1>2, <1>4, <1>6 DEF TalkInv, NotYet, LastIsOne, AskedOnce, Earned,
     Session!RunsOnAgreedTurn, Session!Unknown, BeforeTurn, BeforeThread
<1> QED
  BY <1>4, <1>5, <1>7, <1>8, <1>9 DEF TalkInv

(* What a step in the thread's state leaves to MaybeStartTurn. *)
LEMMA MaybeStarts ==
  ASSUME SessionBounds, TalkInv, st \in {"auth", "config", "hooks", "thread"},
         proved \subseteq proved', thread' \in Session!IdNote, round' = round,
         st # "thread" => thread' = thread,
         thread'.cur \in {thread'.resp, thread'.note},
         thread'.resp # None => Session!ClaimsOf("thread/start") \subseteq proved',
         thread'.note # None => Session!ClaimsOf("thread/started") \subseteq proved',
         NEW outstanding,
         outstanding = IF st = "thread" /\ thread'.resp = None THEN "thread/start"
                       ELSE IF st = "thread" THEN None ELSE Session!RequestOf[st],
         Session!MaybeStartTurn(thread', proved', outstanding)
  PROVE  TalkInv'
<1>1. round = Session!Unknown /\ Asked = {} /\ ~clash /\ queue \in Seq(Requests)
           /\ thread \in Session!IdNote /\ round \in Session!IdNote
  BY DEF TalkInv, TalkTyped, NotYet, BeforeTurn, BeforeThread, Session!OneOutstanding
<1>2. Session!ClaimsOf("initialize") \subseteq proved'
  BY DEF TalkInv, ProvedByNow, Since
<1>3. LastIsOne'
  BY DEF TalkInv, LastIsOne
<1>4. CASE st = "thread" /\ Session!Ready(thread', proved') /\ thread'.resp = thread'.note
  <2>1. st' = "turn" /\ Session!Ask("turn/start", outstanding)
    BY <1>4 DEF Session!MaybeStartTurn
  <2>2. outstanding = None
    BY <1>4 DEF Session!Ready
  <2>3. queue' \in Seq(Requests) /\ Asked' = {Len(queue) + 1} /\ Len(queue) + 1 \in DOMAIN queue'
    BY <1>1, <2>1, AskedAppends DEF Session!Ask, Requests
  <2>4. TalkTyped'
    BY <1>1, <2>1, <2>2, <2>3 DEF TalkTyped, Session!Ask, SessionStates
  <2>5. Session!OneOutstanding'
    BY <1>1, <2>1, <2>2 DEF Session!OneOutstanding, Session!Ask, Session!Unknown
  <2>6. /\ Session!ClaimsOf("config/read") \subseteq proved'
             /\ Session!ClaimsOf("hooks/list") \subseteq proved'
        /\ Session!ClaimsOf("thread/start") \subseteq proved'
             /\ Session!ClaimsOf("thread/started") \subseteq proved'
    BY <1>4 DEF TalkInv, ProvedByNow, Since, Session!Ready, BeforeThread
  <2>7. ProvedByNow'
    BY <1>2, <2>6 DEF ProvedByNow, Since
  <2>8. Earned'
    BY <1>2, <1>4, <2>6 DEF Earned, Session!Ready
  <2> QED
    BY <1>3, <2>1, <2>3, <2>4, <2>5, <2>7, <2>8 DEF TalkInv, NotYet, BeforeThread, BeforeTurn,
       AskedOnce, Session!RunsOnAgreedTurn
<1>5. CASE st = "thread" /\ Session!Ready(thread', proved') /\ thread'.resp # thread'.note
  <2>1. st' = "failed" /\ UNCHANGED <<queue, clash>>
    BY <1>5 DEF Session!MaybeStartTurn
  <2>2. Asked' = {}
    BY <1>1, <2>1 DEF Asked
  <2>3. ProvedByNow'
    BY <2>1 DEF ProvedByNow, Since
  <2> QED
    BY <1>1, <1>3, <2>1, <2>2, <2>3 DEF TalkInv, TalkTyped, SessionStates, Session!OneOutstanding,
       NotYet, BeforeThread, BeforeTurn, AskedOnce, Earned, Session!RunsOnAgreedTurn
<1>6. CASE ~(st = "thread" /\ Session!Ready(thread', proved'))
  <2>1. pending' = outstanding /\ UNCHANGED <<st, queue, clash>>
    BY <1>6 DEF Session!MaybeStartTurn
  <2>2. Asked' = {}
    BY <1>1, <2>1 DEF Asked
  <2>3. ProvedByNow'
    BY <1>2, <2>1 DEF TalkInv, ProvedByNow, Since, BeforeThread
  <2>4. NotYet'
    BY <1>1, <2>1, <2>2 DEF TalkInv, NotYet, BeforeThread, BeforeTurn
  <2>5. Session!OneOutstanding'
    BY <1>1, <2>1 DEF Session!OneOutstanding
  <2>6. TalkTyped'
    BY <1>1, <2>1 DEF TalkInv, TalkTyped
  <2> QED
    BY <1>3, <2>1, <2>2, <2>3, <2>4, <2>5, <2>6 DEF TalkInv, AskedOnce, Earned, Session!RunsOnAgreedTurn
<1> QED
  BY <1>4, <1>5, <1>6

LEMMA ThreadTalks ==
  ASSUME SessionBounds, TalkInv, Session!ThreadResponse \/ Session!ThreadStarted \/ Session!AuthNotice
  PROVE  TalkInv'
<1>1. thread \in Session!IdNote /\ round \in Session!IdNote
  BY DEF TalkInv, TalkTyped
<1>2. CASE Session!ThreadResponse
  <2>1. PICK i \in Ids : thread' = [thread EXCEPT !.resp = i, !.cur = i]
                         /\ proved' = proved \cup Session!ClaimsOf("thread/start")
                         /\ Session!MaybeStartTurn(thread', proved', None)
    BY <1>2 DEF Session!ThreadResponse
  <2>2. st = "thread" /\ round' = round
    BY <1>2 DEF Session!ThreadResponse, Session!Answered
  <2>3. thread' \in Session!IdNote /\ thread'.resp = i /\ thread'.cur = i /\ thread'.note
             = thread.note /\ i # None
    BY <1>1, <2>1 DEF Session!IdNote, SessionBounds
  <2>4. thread'.note # None => Session!ClaimsOf("thread/started") \subseteq proved'
    BY <2>1, <2>3 DEF TalkInv, ProvedByNow
  <2> QED
    BY <2>1, <2>2, <2>3, <2>4, MaybeStarts
<1>3. CASE Session!ThreadStarted
  <2>1. PICK i \in Ids : thread' = [thread EXCEPT !.note = i, !.cur = i]
                         /\ proved' = proved \cup Session!ClaimsOf("thread/started")
                         /\ Session!MaybeStartTurn(thread', proved', pending)
    BY <1>3 DEF Session!ThreadStarted
  <2>2. st = "thread" /\ round' = round
    BY <1>3 DEF Session!ThreadStarted
  <2>3. thread' \in Session!IdNote /\ thread'.note = i /\ thread'.cur = i /\ thread'.resp = thread.resp
    BY <1>1, <2>1 DEF Session!IdNote
  <2>4. thread'.resp # None => Session!ClaimsOf("thread/start") \subseteq proved'
    BY <2>1, <2>3 DEF TalkInv, ProvedByNow
  <2>5. pending = IF thread'.resp = None THEN "thread/start" ELSE None
    BY <2>2, <2>3 DEF TalkInv, Session!OneOutstanding
  <2> QED
    BY <2>1, <2>2, <2>3, <2>4, <2>5, MaybeStarts
<1>4. CASE Session!AuthNotice
  <2>1. /\ st \in {"auth", "config", "hooks", "thread"} /\ proved \subseteq proved'
        /\ Session!MaybeStartTurn(thread, proved', pending) /\ UNCHANGED <<thread, round>>
    BY <1>4 DEF Session!AuthNotice
  <2>2. /\ thread.resp # None => Session!ClaimsOf("thread/start") \subseteq proved'
        /\ thread.note # None => Session!ClaimsOf("thread/started") \subseteq proved'
        /\ thread.cur \in {thread.resp, thread.note}
    BY <2>1 DEF TalkInv, ProvedByNow, LastIsOne
  <2>3. pending = IF st = "thread" /\ thread.resp = None THEN "thread/start"
                  ELSE IF st = "thread" THEN None ELSE Session!RequestOf[st]
    BY <2>1 DEF TalkInv, Session!OneOutstanding
  <2>4. Session!MaybeStartTurn(thread', proved', pending)
    BY <2>1
  <2> QED
    BY <1>1, <2>1, <2>2, <2>3, <2>4, MaybeStarts
<1> QED
  BY <1>2, <1>3, <1>4

LEMMA TurnTalks ==
  ASSUME SessionBounds, TalkInv, Session!TurnResponse \/ Session!TurnStarted
  PROVE  TalkInv'
<1>1. /\ st = "turn" /\ round \in Session!IdNote /\ UNCHANGED <<queue, clash, thread, proved>>
      /\ Session!EnterRunning(round') /\ st' \in {"turn", "running", "failed"}
  BY DEF TalkInv, TalkTyped, Session!TurnResponse, Session!TurnStarted, Session!Answered,
     Session!EnterRunning
<1>2. PICK i \in Ids : round' = [round EXCEPT !.resp = i, !.cur = i] \/ round'
                = [round EXCEPT !.note = i, !.cur = i]
  BY DEF Session!TurnResponse, Session!TurnStarted
<1>3. round' \in Session!IdNote /\ round'.cur \in {round'.resp, round'.note} /\ i # None
           /\ round'.cur = i
  BY <1>1, <1>2 DEF Session!IdNote, SessionBounds
<1>4. Session!OneOutstanding'
  <2>1. CASE Session!TurnResponse
    <3>1. pending' = None /\ round'.resp # None
      BY <1>1, <2>1 DEF Session!TurnResponse, Session!IdNote, SessionBounds
    <3> QED
      BY <1>1, <3>1 DEF TalkInv, Session!OneOutstanding
  <2>2. CASE Session!TurnStarted
    <3>1. pending' = pending /\ round'.resp = round.resp /\ round'.note # None
      BY <1>1, <2>2 DEF Session!TurnStarted, Session!IdNote, SessionBounds
    <3>2. st' = "running" => round.resp # None
      BY <1>1, <3>1 DEF Session!EnterRunning
    <3> QED
      BY <1>1, <3>1, <3>2 DEF TalkInv, Session!OneOutstanding
  <2> QED
    BY <2>1, <2>2
<1>5. Session!RunsOnAgreedTurn'
  BY <1>1, <1>3 DEF Session!RunsOnAgreedTurn, Session!EnterRunning
<1>6. Asked' = Asked
  BY <1>1 DEF Asked
<1>7. TalkTyped'
  BY <1>1, <1>3 DEF TalkInv, TalkTyped, SessionStates
<1>8. ProvedByNow'
  BY <1>1 DEF TalkInv, ProvedByNow, Since, BeforeThread
<1>9. NotYet' /\ LastIsOne' /\ AskedOnce' /\ Earned'
  BY <1>1, <1>3, <1>6 DEF TalkInv, NotYet, BeforeThread, BeforeTurn, LastIsOne, AskedOnce, Earned
<1> QED
  BY <1>4, <1>5, <1>7, <1>8, <1>9 DEF TalkInv

-----------------------------------------------------------------------------
(* The items of the turn *)

LEMMA WorkKept ==
  ASSUME WorkInv, UNCHANGED Session!work
  PROVE  WorkInv'
BY DEF WorkInv, Session!work, WorkTyped, FinalIsLast, MessageIsFinal, UserIsFirst, IdsDiffer,
   StreamIsText, Session!HeldIsCounted, Session!Active, Session!Used

HeldOf(done) == Session!Total([k \in DOMAIN done |-> done[k].held])
LiveUnits == Session!Size(reason.content) + Session!Size(reason.summary)

LEMMA HeldAppends ==
  ASSUME NEW done \in Seq(Session!Items), NEW item \in Session!Items
  PROVE  HeldOf(done) \in Nat /\ HeldOf(Append(done, item)) = HeldOf(done) + item.held
<1> DEFINE n == Len(done)
           more == Append(done, item)
           f == [k \in DOMAIN done |-> done[k].held]
           g == [k \in DOMAIN more |-> more[k].held]
<1>1. \A x \in Session!Items : x.held \in Nat
  BY DEF Session!Items
<1>2. n \in Nat /\ f \in [1..n -> Nat] /\ more \in Seq(Session!Items) /\ Len(more) = n + 1
  BY <1>1
<1>3. g \in [1..(n + 1) -> Nat] /\ g[n + 1] = item.held /\ \A k \in 1..n : g[k] = f[k]
  BY <1>1, <1>2
<1> HIDE DEF f, g, n
<1>4. Session!Total(g) = Session!Total(f) + g[n + 1] /\ Session!Total(f) \in Nat
  BY <1>2, <1>3, TotalAppends, TotalType
<1> QED
  BY <1>3, <1>4 DEF HeldOf, f, g

LEMMA LiveType ==
  ASSUME WorkInv
  PROVE  Session!Size(reason.content) \in Nat /\ Session!Size(reason.summary) \in Nat
BY SizeType DEF WorkInv, WorkTyped, Texted

LEMMA ItemTyped ==
  ASSUME SessionBounds, NEW sort \in {"userMessage", "reasoning", "agentMessage"},
              NEW i \in Ids, NEW t \in Session!Texts
  PROVE  /\ Session!Item(sort, i, t) \in Session!Items /\ Session!Item(sort, i, t).type = sort
              /\ Session!Item(sort, i, t).id = i
         /\ Session!Item(sort, i, t).text = t /\ Session!Item(sort, i, t).held = 0
BY DEF Session!Item, Session!Items, SessionBounds

LEMMA TextsAre ==
  ASSUME SessionBounds
  PROVE  /\ <<>> \in Session!Texts /\ Session!BoundedSeq(Words, 1) \subseteq Session!Texts
         /\ \A t \in Session!Texts : t \in Seq(Words)
         /\ \A p \in Session!InitialParts : p \in Texted /\ Len(p) <= 1
<1>1. \A n \in Nat : Session!BoundedSeq(Words, n) = UNION {[1..m -> Words] : m \in 0..n}
  BY DEF Session!BoundedSeq, Session!SeqOf
<1>2. <<>> \in Session!Texts /\ Session!BoundedSeq(Words, 1) \subseteq Session!Texts
  <2>1. 0 \in 0..Budget /\ 0..1 \subseteq 0..Budget
    BY DEF SessionBounds
  <2>2. <<>> \in [1..0 -> Words]
    OBVIOUS
  <2>3. Session!Texts = UNION {[1..m -> Words] : m \in 0..Budget} /\ Session!BoundedSeq(Words, 1)
             = UNION {[1..m -> Words] : m \in 0..1}
    BY <1>1 DEF Session!Texts, SessionBounds
  <2>4. <<>> \in UNION {[1..m -> Words] : m \in 0..Budget}
    BY <2>1, <2>2
  <2>5. UNION {[1..m -> Words] : m \in 0..1} \subseteq UNION {[1..m -> Words] : m \in 0..Budget}
    BY <2>1
  <2> QED
    BY <2>3, <2>4, <2>5
<1>3. \A t \in Session!Texts : t \in Seq(Words)
  <2>1. ASSUME NEW m \in Nat, NEW t \in [1..m -> Words] PROVE t \in Seq(Words)
    BY <2>1
  <2> QED
    BY <1>1, <2>1 DEF Session!Texts, SessionBounds
<1>4. \A p \in Session!InitialParts : p \in Texted /\ Len(p) <= 1
  <2>1. ASSUME NEW w \in Words PROVE <<<<w>>>> \in Seq(Seq(Words)) /\ Len(<<<<w>>>>) = 1
    <3>1. <<w>> \in Seq(Words)
      OBVIOUS
    <3> QED
      BY <3>1
  <2>2. <<>> \in Seq(Seq(Words)) /\ Len(<<>>) = 0
    BY EmptySeq
  <2>3. ASSUME NEW p \in Session!InitialParts PROVE p \in Texted /\ Len(p) <= 1
    <3>1. CASE p = <<>>
      BY <2>2, <3>1 DEF Texted
    <3>2. CASE p # <<>>
      <4>1. PICK w \in Words : p = <<<<w>>>>
        BY <2>3, <3>2 DEF Session!InitialParts
      <4> QED
        BY <2>1, <4>1 DEF Texted
    <3> QED
      BY <3>1, <3>2
  <2> QED
    BY <2>3
<1> QED
  BY <1>2, <1>3, <1>4

(* An item begins: what was streamed and counted is as before. *)
LEMMA ItemBegins ==
  ASSUME SessionBounds, WorkInv, NEW sort \in {"userMessage", "reasoning", "agentMessage"},
              NEW i \in Ids, NEW t \in Session!Texts,
         Session!ItemStarted(sort, i), items' = [items EXCEPT !.active = Session!Item(sort, i, t)]
  PROVE  /\ items' \in [active : Session!Items
              \cup {None}, done : Seq(Session!Items), final : Session!Items \cup {None}]
         /\ items.active = None /\ items.final = None
         /\ items'.active = Session!Item(sort, i, t) /\ items'.active # None /\ items'.done
              = items.done /\ items'.final = None
         /\ FinalIsLast' /\ MessageIsFinal' /\ IdsDiffer'
<1>1. Session!Item(sort, i, t) \in Session!Items /\ Session!Item(sort, i, t) # None
  BY ItemTyped DEF SessionBounds
<1>2. items.active = None /\ items.final = None /\ ~Session!Used(i) /\ Len(items.done) < MaxItems
  BY DEF Session!ItemStarted, Session!Starts
<1>3. items \in [active : Session!Items
           \cup {None}, done : Seq(Session!Items), final : Session!Items \cup {None}]
  BY DEF WorkInv, WorkTyped
<1>4. /\ items' \in [active : Session!Items
           \cup {None}, done : Seq(Session!Items), final : Session!Items \cup {None}]
      /\ items'.active = Session!Item(sort, i, t) /\ items'.active # None /\ items'.done
           = items.done /\ items'.final = None
  BY <1>1, <1>2, <1>3
<1>5. FinalIsLast' /\ MessageIsFinal'
  BY <1>2, <1>4 DEF WorkInv, FinalIsLast, MessageIsFinal
<1>6. IdsDiffer'
  BY <1>2, <1>4, ItemTyped DEF WorkInv, IdsDiffer, Session!Used
<1> QED
  BY <1>2, <1>4, <1>5, <1>6

LEMMA ItemsBegin ==
  ASSUME SessionBounds, WorkInv, Session!UserMessageStarted \/ Session!ReasoningStarted
              \/ Session!AgentMessageStarted
  PROVE  WorkInv'
<1>1. CASE Session!UserMessageStarted
  <2>1. PICK i \in Ids : Session!ItemStarted("userMessage", i) /\ items' = [items EXCEPT !.active
                  = Session!Item("userMessage", i, <<>>)]
    BY <1>1 DEF Session!UserMessageStarted
  <2>2. items.done = <<>> /\ UNCHANGED <<stream, reason>>
    BY <1>1 DEF Session!UserMessageStarted
  <2>3. <<>> \in Session!Texts
    BY TextsAre
  <2>4. /\ items' \in [active : Session!Items
             \cup {None}, done : Seq(Session!Items), final : Session!Items \cup {None}]
        /\ items.active = None /\ items.final = None
        /\ items'.active = Session!Item("userMessage", i, <<>>) /\ items'.done = items.done
             /\ items'.final = None
        /\ FinalIsLast' /\ MessageIsFinal' /\ IdsDiffer'
    BY <2>1, <2>3, ItemBegins
  <2>5. items'.active.type = "userMessage"
    BY <2>3, <2>4, ItemTyped
  <2>6. WorkTyped'
    BY <2>2, <2>4 DEF WorkInv, WorkTyped
  <2>7. UserIsFirst'
    BY <2>2, <2>4 DEF WorkInv, UserIsFirst
  <2>8. StreamIsText' /\ Session!HeldIsCounted'
    BY <2>2, <2>4, <2>5 DEF WorkInv, StreamIsText, Session!HeldIsCounted, Session!Active
  <2> QED
    BY <2>4, <2>6, <2>7, <2>8 DEF WorkInv
<1>2. CASE Session!ReasoningStarted
  <2>1. PICK i \in Ids, c \in Session!InitialParts, s \in Session!InitialParts :
          /\ Session!ItemStarted("reasoning", i)
               /\ reason.bytes + Session!Size(c) + Session!Size(s) <= Budget
          /\ reason' = [content |-> c, summary |-> s, bytes |-> reason.bytes + Session!Size(c) + Session!Size(s)]
          /\ items' = [items EXCEPT !.active = Session!Item("reasoning", i, <<>>)]
    BY <1>2 DEF Session!ReasoningStarted
  <2>2. stream' = stream
    BY <1>2 DEF Session!ReasoningStarted
  <2>3. <<>> \in Session!Texts /\ c \in Texted /\ s \in Texted /\ Len(c) <= 1 /\ Len(s) <= 1
    BY TextsAre
  <2>4. /\ items' \in [active : Session!Items
             \cup {None}, done : Seq(Session!Items), final : Session!Items \cup {None}]
        /\ items.active = None /\ items.final = None /\ items'.active # None
        /\ items'.active = Session!Item("reasoning", i, <<>>) /\ items'.done = items.done
             /\ items'.final = None
        /\ FinalIsLast' /\ MessageIsFinal' /\ IdsDiffer'
    BY <2>1, <2>3, ItemBegins
  <2>5. items'.active.type = "reasoning"
    BY <2>3, <2>4, ItemTyped
  <2>6. Session!Size(c) \in Nat /\ Session!Size(s) \in Nat /\ reason.bytes \in 0..Budget
    BY <2>3, SizeType DEF WorkInv, WorkTyped, Texted
  <2>7. WorkTyped'
    <3>1. reason.bytes + Session!Size(c) + Session!Size(s) \in 0..Budget
      BY <2>1, <2>6 DEF SessionBounds
    <3>2. reason' \in [content : Texted, summary : Texted, bytes : 0..Budget]
      BY <2>1, <2>3, <3>1
    <3>3. Len(reason'.content) <= MaxParts /\ Len(reason'.summary) <= MaxParts
      <4>1. Len(c) \in Nat /\ Len(s) \in Nat
        BY <2>3 DEF Texted
      <4> QED
        BY <2>1, <2>3, <4>1 DEF SessionBounds
    <3> QED
      BY <2>2, <2>4, <3>2, <3>3 DEF WorkInv, WorkTyped
  <2>8. UserIsFirst' /\ StreamIsText'
    BY <2>2, <2>4, <2>5 DEF WorkInv, UserIsFirst, StreamIsText, Session!Active
  <2>9. Session!HeldIsCounted'
    <3>1. reason.bytes = HeldOf(items.done) /\ stream.bytes = Session!Size(stream.parts)
      <4>1. HeldOf(items.done) \in Nat
        BY ItemTyped, HeldAppends, <2>3, <2>4 DEF Session!Items
      <4> QED
        BY <2>4, <4>1 DEF WorkInv, Session!HeldIsCounted, HeldOf, Session!Active
    <3>2. reason'.bytes
               = HeldOf(items'.done) + (Session!Size(reason'.content) + Session!Size(reason'.summary))
      <4>1. reason'.bytes = reason.bytes + Session!Size(c) + Session!Size(s) /\ reason'.content
                 = c /\ reason'.summary = s
        BY <2>1
      <4> QED
        BY <2>4, <2>6, <3>1, <4>1
    <3> QED
      BY <2>2, <2>4, <2>5, <3>1, <3>2 DEF Session!HeldIsCounted, HeldOf, Session!Active
  <2> QED
    BY <2>4, <2>7, <2>8, <2>9 DEF WorkInv
<1>3. CASE Session!AgentMessageStarted
  <2>1. PICK i \in Ids, t \in Session!BoundedSeq(Words, 1) :
          /\ Session!ItemStarted("agentMessage", i) /\ items' = [items EXCEPT !.active
               = Session!Item("agentMessage", i, t)]
          /\ stream' = [stream EXCEPT !.began = t, !.parts = <<>>]
    BY <1>3 DEF Session!AgentMessageStarted
  <2>2. reason' = reason
    BY <1>3 DEF Session!AgentMessageStarted
  <2>3. t \in Session!Texts /\ t \in Seq(Words)
    BY TextsAre
  <2>4. /\ items' \in [active : Session!Items
             \cup {None}, done : Seq(Session!Items), final : Session!Items \cup {None}]
        /\ items.active = None /\ items.final = None /\ items'.active # None
        /\ items'.active = Session!Item("agentMessage", i, t) /\ items'.done = items.done
             /\ items'.final = None
        /\ FinalIsLast' /\ MessageIsFinal' /\ IdsDiffer'
    BY <2>1, <2>3, ItemBegins
  <2>5. items'.active.type = "agentMessage" /\ items'.active.text = t
    BY <2>3, <2>4, ItemTyped
  <2>6. stream \in [began : Seq(Words), parts : Texted, bytes : 0..Budget] /\ stream.parts
             = <<>> /\ stream.bytes = 0
    BY <2>4 DEF WorkInv, WorkTyped, StreamIsText, Session!Active
  <2>7. /\ stream' \in [began : Seq(Words), parts : Texted, bytes : 0..Budget]
        /\ stream'.began = t /\ stream'.parts = <<>> /\ stream'.bytes = 0
    BY <2>1, <2>3, <2>6 DEF Texted
  <2>8. WorkTyped'
    BY <2>2, <2>4, <2>7 DEF WorkInv, WorkTyped
  <2>9. UserIsFirst' /\ StreamIsText'
    BY <2>4, <2>5, <2>7 DEF WorkInv, UserIsFirst, StreamIsText, Session!Active
  <2>10. Session!HeldIsCounted'
    BY <2>2, <2>4, <2>5, <2>7, SizeOfNone DEF WorkInv, Session!HeldIsCounted, Session!Active
  <2> QED
    BY <2>4, <2>8, <2>9, <2>10 DEF WorkInv
<1> QED
  BY <1>1, <1>2, <1>3

LEMMA StreamGrows ==
  ASSUME SessionBounds, WorkInv, Session!MessageDelta
  PROVE  WorkInv'
<1>1. PICK d \in Session!BoundedSeq(Words, 1) :
        stream.bytes + Len(d) <= Budget /\ stream' = [stream EXCEPT !.parts
             = Append(@, d), !.bytes = @ + Len(d)]
  BY DEF Session!MessageDelta
<1>2. Session!Active("agentMessage") /\ items.final = None /\ UNCHANGED <<items, reason>>
  BY DEF Session!MessageDelta
<1>3. d \in Seq(Words) /\ Len(d) \in Nat
  BY TextsAre
<1>4. stream \in [began : Seq(Words), parts : Texted, bytes : 0..Budget] /\ stream.bytes
           = Session!Size(stream.parts)
  BY DEF WorkInv, WorkTyped, Session!HeldIsCounted
<1>5. stream'.began = stream.began /\ stream'.parts = Append(stream.parts, d) /\ stream'.bytes
           = stream.bytes + Len(d)
  BY <1>1, <1>4
<1>6. stream' \in [began : Seq(Words), parts : Texted, bytes : 0..Budget]
  <2>1. Append(stream.parts, d) \in Texted /\ stream.bytes + Len(d) \in 0..Budget
    BY <1>1, <1>3, <1>4 DEF Texted, SessionBounds
  <2> QED
    BY <1>1, <1>4, <2>1
<1>7. stream'.bytes = Session!Size(stream'.parts)
  BY <1>3, <1>4, <1>5, SizeAppends DEF Texted
<1> QED
  BY <1>2, <1>5, <1>6, <1>7 DEF WorkInv, WorkTyped, FinalIsLast, MessageIsFinal, UserIsFirst,
     IdsDiffer, StreamIsText, Session!HeldIsCounted, Session!Active, Session!Used

(* The reasoning in progress grows by as many units as are counted. *)
LEMMA ReasonGrows ==
  ASSUME SessionBounds, WorkInv, Session!Active("reasoning"), UNCHANGED <<items, stream>>,
         reason' \in [content : Texted, summary : Texted, bytes : 0..Budget],
         Len(reason'.content) <= MaxParts, Len(reason'.summary) <= MaxParts,
         NEW d \in Nat, reason'.bytes = reason.bytes + d,
         Session!Size(reason'.content) + Session!Size(reason'.summary) = LiveUnits + d
  PROVE  WorkInv'
<1>1. WorkTyped'
  BY DEF WorkInv, WorkTyped
<1>2. items \in [active : Session!Items
           \cup {None}, done : Seq(Session!Items), final : Session!Items \cup {None}]
           /\ LiveUnits \in Nat
  BY LiveType DEF WorkInv, WorkTyped, LiveUnits
<1>3. HeldOf(items.done) \in Nat
  BY <1>2, HeldAppends DEF Session!Active
<1>4. reason.bytes = HeldOf(items.done) + LiveUnits
  BY DEF WorkInv, Session!HeldIsCounted, HeldOf, LiveUnits
<1>5. reason'.bytes
           = HeldOf(items'.done) + (Session!Size(reason'.content) + Session!Size(reason'.summary))
  BY <1>2, <1>3, <1>4
<1>6. Session!HeldIsCounted'
  BY <1>5 DEF WorkInv, Session!HeldIsCounted, HeldOf, Session!Active
<1> QED
  BY <1>1, <1>6 DEF WorkInv, FinalIsLast, MessageIsFinal, UserIsFirst, IdsDiffer, StreamIsText,
     Session!Active, Session!Used

LEMMA ReasoningGrows ==
  ASSUME SessionBounds, WorkInv, Session!SummaryPartAdded \/ Session!ReasoningDelta
  PROVE  WorkInv'
<1>1. /\ reason \in [content : Texted, summary : Texted, bytes : 0..Budget]
      /\ Len(reason.content) <= MaxParts /\ Len(reason.summary) <= MaxParts
      /\ Session!Size(reason.content) \in Nat /\ Session!Size(reason.summary) \in Nat
  BY LiveType DEF WorkInv, WorkTyped
<1>2. CASE Session!SummaryPartAdded
  <2>1. /\ Session!Active("reasoning") /\ UNCHANGED <<items, stream>> /\ Len(reason.summary) < MaxParts
        /\ reason' = [reason EXCEPT !.summary = Append(@, <<>>)]
    BY <1>2 DEF Session!SummaryPartAdded
  <2>2. /\ reason'.content = reason.content /\ reason'.summary = Append(reason.summary, <<>>)
        /\ reason'.bytes = reason.bytes
    BY <1>1, <2>1
  <2>3. <<>> \in Seq(Words) /\ Len(<<>>) = 0
    BY EmptySeq
  <2>4. /\ Append(reason.summary, <<>>) \in Texted
        /\ Len(Append(reason.summary, <<>>)) = Len(reason.summary) + 1 /\ Len(reason.summary) \in Nat
    BY <1>1, <2>3 DEF Texted
  <2>5. reason' \in [content : Texted, summary : Texted, bytes : 0..Budget]
    BY <1>1, <2>1, <2>4
  <2>6. Session!Size(reason'.summary) = Session!Size(reason.summary) + 0
    BY <1>1, <2>2, <2>3, SizeAppends DEF Texted
  <2>7. Len(reason'.content) <= MaxParts /\ Len(reason'.summary) <= MaxParts
    BY <1>1, <2>1, <2>2, <2>4 DEF SessionBounds
  <2>8. Session!Size(reason'.content) + Session!Size(reason'.summary) = LiveUnits + 0
             /\ reason'.bytes = reason.bytes + 0
    BY <1>1, <2>2, <2>6 DEF LiveUnits
  <2> QED
    BY <2>1, <2>5, <2>7, <2>8, ReasonGrows
<1>3. CASE Session!ReasoningDelta
  <2>1. Session!Active("reasoning") /\ UNCHANGED <<items, stream>>
    BY <1>3 DEF Session!ReasoningDelta
  <2>2. PICK field \in {"summary", "content"}, d \in Session!BoundedSeq(Words, 1), k \in 1..MaxParts :
       LET parts == reason[field]
           fits  == IF field = "content" /\ k = Len(parts) + 1
                    THEN Append(parts, <<>>) ELSE parts
           bytes == Session!CountDelta(field, d) IN
       /\ k <= Len(fits) /\ bytes <= Budget
       /\ reason' = [reason EXCEPT ![field] = [fits EXCEPT ![k] = @ \o d], !.bytes = bytes]
    BY <1>3 DEF Session!ReasoningDelta
  <2> DEFINE parts == reason[field]
             fits  == IF field = "content" /\ k = Len(parts) + 1 THEN Append(parts, <<>>) ELSE parts
             more  == [fits EXCEPT ![k] = @ \o d]
  <2>3. d \in Seq(Words) /\ Len(d) \in Nat /\ <<>> \in Seq(Words) /\ Len(<<>>) = 0
    BY TextsAre, EmptySeq
  <2>4. parts \in Texted /\ Len(parts) <= MaxParts /\ Len(parts) \in Nat /\ Session!Size(parts) \in Nat
    BY <1>1 DEF Texted
  <2>5. fits \in Texted /\ Len(fits) <= MaxParts /\ k \in 1..Len(fits) /\ Session!Size(fits)
             = Session!Size(parts)
    <3>1. CASE field = "content" /\ k = Len(parts) + 1
      <4>1. fits = Append(parts, <<>>)
        BY <3>1
      <4>2. Append(parts, <<>>) \in Texted /\ Len(Append(parts, <<>>)) = Len(parts) + 1
        BY <2>3, <2>4 DEF Texted
      <4>3. Session!Size(Append(parts, <<>>)) = Session!Size(parts) + Len(<<>>)
        BY <2>3, <2>4, SizeAppends DEF Texted
      <4> QED
        BY <2>3, <2>4, <3>1, <4>1, <4>2, <4>3 DEF SessionBounds
    <3>2. CASE ~(field = "content" /\ k = Len(parts) + 1)
      <4>1. fits = parts /\ k <= Len(parts)
        BY <2>2, <3>2
      <4> QED
        BY <2>4, <4>1
    <3> QED
      BY <3>1, <3>2
  <2> HIDE DEF fits
  <2>6. more \in Texted /\ Len(more) = Len(fits) /\ Session!Size(more) = Session!Size(fits) + Len(d)
    <3>1. fits \in Seq(Seq(Words)) /\ k \in 1..Len(fits)
      BY <2>5 DEF Texted
    <3>2. fits[k] \o d \in Seq(Words)
      BY <2>3, <3>1
    <3>3. more \in Seq(Seq(Words)) /\ Len(more) = Len(fits)
      BY <3>1, <3>2, ExceptSeq
    <3>4. more[k] = fits[k] \o d /\ \A j \in 1..Len(fits) : j # k => more[j] = fits[j]
      BY <3>1
    <3> HIDE DEF more
    <3>5. ASSUME NEW p \in Seq(Seq(Words)), NEW q \in Seq(Words), NEW h \in 1..Len(p),
                      NEW m \in Seq(Seq(Words)),
                 Len(m) = Len(p), m[h] = p[h] \o q, \A j \in 1..Len(p) : j # h => m[j] = p[j]
          PROVE  Session!Size(m) = Session!Size(p) + Len(q)
      BY ONLY <3>5, SizeRises, Zenon
    <3>6. Session!Size(more) = Session!Size(fits) + Len(d)
      BY ONLY <2>3, <3>1, <3>3, <3>4, <3>5, Zenon
    <3> QED
      BY <3>3, <3>6 DEF Texted
  <2>7. reason.bytes + Len(d) <= Budget /\ reason' = [reason EXCEPT ![field] = more, !.bytes
             = reason.bytes + Len(d)]
    BY <2>2 DEF Session!CountDelta, fits
  <2>8. reason.bytes + Len(d) \in 0..Budget
    <3>1. reason.bytes \in 0..Budget /\ Budget \in Nat
      BY <1>1 DEF SessionBounds
    <3>2. reason.bytes + Len(d) <= Budget
      BY <2>7
    <3> QED
      BY ONLY <2>3, <3>1, <3>2
  <2> HIDE DEF more
  <2>9. CASE field = "content"
    <3>1. /\ reason'.content = more /\ reason'.summary = reason.summary /\ reason'.bytes
               = reason.bytes + Len(d)
          /\ reason' \in [content : Texted, summary : Texted, bytes : 0..Budget]
      BY <1>1, <2>6, <2>7, <2>8, <2>9
    <3>2. Session!Size(more) = Session!Size(reason.content) + Len(d)
      BY <2>5, <2>6, <2>9
    <3>3. Session!Size(reason'.content) + Session!Size(reason'.summary) = LiveUnits + Len(d)
      BY <1>1, <2>3, <3>1, <3>2 DEF LiveUnits
    <3>4. Len(reason'.content) <= MaxParts /\ Len(reason'.summary) <= MaxParts
      BY <1>1, <2>5, <2>6, <3>1
    <3> QED
      BY <2>1, <2>3, <3>1, <3>3, <3>4, ReasonGrows
  <2>10. CASE field = "summary"
    <3>1. /\ reason'.summary = more /\ reason'.content = reason.content /\ reason'.bytes
               = reason.bytes + Len(d)
          /\ reason' \in [content : Texted, summary : Texted, bytes : 0..Budget]
      BY <1>1, <2>6, <2>7, <2>8, <2>10
    <3>2. Session!Size(more) = Session!Size(reason.summary) + Len(d)
      BY <2>5, <2>6, <2>10
    <3>3. Session!Size(reason'.content) + Session!Size(reason'.summary) = LiveUnits + Len(d)
      BY <1>1, <2>3, <3>1, <3>2 DEF LiveUnits
    <3>4. Len(reason'.content) <= MaxParts /\ Len(reason'.summary) <= MaxParts
      BY <1>1, <2>5, <2>6, <3>1
    <3> QED
      BY <2>1, <2>3, <3>1, <3>3, <3>4, ReasonGrows
  <2> QED
    BY <2>9, <2>10
<1> QED
  BY <1>2, <1>3

(* An item ends: it joins those that are done. *)
LEMMA ItemEnds ==
  ASSUME SessionBounds, WorkInv, items.active # None, UNCHANGED <<stream, reason>>,
         NEW item \in Session!Items, item.id = items.active.id, item.type = items.active.type,
         item.held = IF item.type = "reasoning" THEN LiveUnits ELSE 0,
         NEW final, Session!Complete(item, final), final = IF item.type
              = "agentMessage" THEN item ELSE items.final,
         item.type = "agentMessage" /\ stream.parts # <<>> => item.text
              = stream.began \o Session!Join(stream.parts)
  PROVE  WorkInv'
<1>1. items \in [active : Session!Items
           \cup {None}, done : Seq(Session!Items), final : Session!Items \cup {None}]
           /\ items.active \in Session!Items
  BY DEF WorkInv, WorkTyped
<1>2. items.final = None /\ ~Session!Used(items.active.id) /\ Len(items.done) < MaxItems
  BY DEF WorkInv, FinalIsLast, IdsDiffer
<1>3. items' = [active |-> None, done |-> Append(items.done, item), final |-> final]
  BY DEF Session!Complete
<1>4. /\ items'.active = None /\ items'.done = Append(items.done, item) /\ items'.final = final
  BY <1>3
<1>5. /\ items'.done \in Seq(Session!Items) /\ Len(items'.done) = Len(items.done) + 1
           /\ Len(items.done) \in Nat
      /\ DOMAIN items.done = 1..Len(items.done) /\ DOMAIN items'.done = 1..(Len(items.done) + 1)
      /\ items'.done[Len(items.done) + 1] = item
      /\ \A k \in 1..Len(items.done) : items'.done[k] = items.done[k]
  BY <1>1, <1>4
<1>6. WorkTyped'
  BY <1>1, <1>2, <1>3, <1>4, <1>5 DEF WorkInv, WorkTyped, SessionBounds
<1>7. item # None /\ (final # None <=> item.type = "agentMessage")
  BY <1>2 DEF SessionBounds
<1>8. FinalIsLast'
  BY <1>4, <1>5, <1>7 DEF FinalIsLast
<1>9. MessageIsFinal'
  BY <1>2, <1>4, <1>5, <1>7 DEF WorkInv, MessageIsFinal
<1>10. UserIsFirst'
  <2>1. item.type = "userMessage" => Len(items.done) = 0
    BY DEF WorkInv, UserIsFirst, Session!Active
  <2> QED
    BY <1>4, <1>5, <2>1 DEF WorkInv, UserIsFirst, Session!Active
<1>11. IdsDiffer'
  BY <1>2, <1>4, <1>5 DEF WorkInv, IdsDiffer, Session!Used
<1>12. StreamIsText'
  BY <1>2, <1>4, <1>7 DEF WorkInv, StreamIsText, Session!Active
<1>13. Session!HeldIsCounted'
  <2>1. reason.bytes = HeldOf(items.done) + IF item.type = "reasoning" THEN LiveUnits ELSE 0
    BY DEF WorkInv, Session!HeldIsCounted, HeldOf, LiveUnits, Session!Active
  <2>2. HeldOf(items'.done) = HeldOf(items.done) + item.held /\ HeldOf(items.done) \in Nat
    BY <1>1, <1>4, HeldAppends
  <2>3. reason.bytes = HeldOf(items'.done)
    BY <2>1, <2>2
  <2>4. reason'.bytes = HeldOf(items'.done) + 0
    BY <1>1, <2>2, <2>3 DEF WorkInv, WorkTyped
  <2> QED
    BY <1>4, <2>4 DEF WorkInv, Session!HeldIsCounted, HeldOf, Session!Active
<1> QED
  BY <1>6, <1>8, <1>9, <1>10, <1>11, <1>12, <1>13 DEF WorkInv

LEMMA ItemsEnd ==
  ASSUME SessionBounds, WorkInv, Session!UserMessageCompleted \/ Session!ReasoningCompleted
              \/ Session!AgentMessageCompleted
  PROVE  WorkInv'
<1>1. items.active # None /\ items.active \in Session!Items /\ UNCHANGED <<stream, reason>>
           /\ items.active.held = 0
  BY DEF Session!UserMessageCompleted, Session!ReasoningCompleted, Session!AgentMessageCompleted,
     Session!Active, WorkInv, WorkTyped, IdsDiffer
<1>2. CASE Session!UserMessageCompleted
  BY <1>1, <1>2, ItemEnds DEF Session!UserMessageCompleted, Session!Active
<1>3. CASE Session!ReasoningCompleted
  <2> DEFINE item == [items.active EXCEPT !.held = LiveUnits]
  <2>1. Session!Complete(item, items.final) /\ items.active.type = "reasoning"
    BY <1>3 DEF Session!ReasoningCompleted, LiveUnits, Session!Active
  <2>2. LiveUnits \in 0..Budget
    <3>1. LiveUnits \in Nat /\ HeldOf(items.done) \in Nat
      BY <1>1, LiveType, HeldAppends DEF LiveUnits, WorkInv, WorkTyped
    <3>2. reason.bytes = HeldOf(items.done) + LiveUnits /\ reason.bytes \in 0..Budget
      BY <1>1, <2>1 DEF WorkInv, WorkTyped, Session!HeldIsCounted, HeldOf, LiveUnits, Session!Active
    <3> QED
      BY <3>1, <3>2 DEF SessionBounds
  <2>3. item \in Session!Items /\ item.id = items.active.id /\ item.type = items.active.type
             /\ item.held = LiveUnits
    BY <1>1, <2>2 DEF Session!Items
  <2> QED
    BY <1>1, <2>1, <2>3, ItemEnds
<1>4. CASE Session!AgentMessageCompleted
  <2>1. PICK text \in Session!Texts : Session!Agrees(text)
                  /\ Session!Complete([items.active EXCEPT !.text
                  = text], [items.active EXCEPT !.text = text])
    BY <1>4 DEF Session!AgentMessageCompleted
  <2> DEFINE item == [items.active EXCEPT !.text = text]
  <2>2. items.active.type = "agentMessage"
    BY <1>4 DEF Session!AgentMessageCompleted, Session!Active
  <2>3. /\ item \in Session!Items /\ item.id = items.active.id /\ item.type = items.active.type
             /\ item.held = 0
        /\ item.text = text
    BY <1>1 DEF Session!Items
  <2>4. stream.parts # <<>> => item.text = stream.began \o Session!Join(stream.parts)
    BY <1>1, <2>1, <2>2, <2>3 DEF Session!Agrees, WorkInv, StreamIsText, Session!Active
  <2> QED
    BY <1>1, <2>1, <2>2, <2>3, <2>4, ItemEnds
<1> QED
  BY <1>2, <1>3, <1>4

-----------------------------------------------------------------------------
(* The steps together *)

LEMMA SessionStepKeeps ==
  ASSUME SessionBounds, SessionInv, [Session!Next]_(Session!vars)
  PROVE  SessionInv'
<1>1. TalkInv /\ IoTyped /\ WorkInv /\ TerminalIsFinal /\ Session!AnswerIsDelivered
  BY DEF SessionInv
<1>2. CASE Session!Start \/ Session!SetupResponse
  <2>1. TalkInv'
    BY <1>1, <1>2, StartTalks, SetupTalks
  <2>2. WorkInv'
    BY <1>1, <1>2, WorkKept DEF Session!Start, Session!SetupResponse, Session!work
  <2>3. IoTyped'
    BY <1>1, <1>2 DEF IoTyped, Session!Start, Session!SetupResponse
  <2>4. st' # "terminal" /\ ~answer'
    <3>1. CASE Session!Start
      BY <1>1, <3>1 DEF Session!Start, Session!AnswerIsDelivered, IoTyped
    <3>2. CASE Session!SetupResponse
      <4>1. PICK s \in DOMAIN Session!NextState : Session!Answered(Session!RequestOf[s], s)
                      /\ st' = Session!NextState[s] /\ answer' = answer
        BY <3>2 DEF Session!SetupResponse
      <4>2. Session!NextState[s] \in {"auth", "config", "hooks", "thread"}
        BY DEF Session!NextState
      <4> QED
        BY <4>1, <4>2 DEF Session!Answered, Session!Reads
    <3> QED
      BY <1>2, <3>1, <3>2
  <2> QED
    BY <2>1, <2>2, <2>3, <2>4 DEF SessionInv, TerminalIsFinal, Session!AnswerIsDelivered
<1>3. CASE Session!ThreadResponse \/ Session!ThreadStarted \/ Session!AuthNotice
  <2>1. TalkInv'
    BY <1>1, <1>3, ThreadTalks
  <2>2. WorkInv'
    BY <1>1, <1>3, WorkKept DEF Session!ThreadResponse, Session!ThreadStarted, Session!AuthNotice,
       Session!work
  <2>3. /\ UNCHANGED <<telemetry, answer>> /\ ~answer /\ st' # "terminal"
        /\ pipes' = pipes \/ pipes' = [pipes EXCEPT !.queued = TRUE]
    BY <1>3 DEF Session!ThreadResponse, Session!ThreadStarted, Session!AuthNotice, Session!Answered,
       Session!Reads, Session!MaybeStartTurn
  <2>4. IoTyped'
    BY <1>1, <2>3 DEF IoTyped
  <2> QED
    BY <2>1, <2>2, <2>3, <2>4 DEF SessionInv, TerminalIsFinal, Session!AnswerIsDelivered
<1>4. CASE Session!TurnResponse \/ Session!TurnStarted
  <2>1. TalkInv'
    BY <1>1, <1>4, TurnTalks
  <2>2. WorkInv'
    BY <1>1, <1>4, WorkKept DEF Session!TurnResponse, Session!TurnStarted
  <2>3. UNCHANGED <<telemetry, pipes, answer>> /\ ~answer /\ st' # "terminal"
    BY <1>4 DEF Session!TurnResponse, Session!TurnStarted, Session!Answered, Session!Reads,
       Session!EnterRunning
  <2>4. IoTyped'
    BY <1>1, <2>3 DEF IoTyped
  <2> QED
    BY <2>1, <2>2, <2>3, <2>4 DEF SessionInv, TerminalIsFinal, Session!AnswerIsDelivered
<1>5. CASE Session!UserMessageStarted \/ Session!ReasoningStarted \/ Session!AgentMessageStarted
                \/ Session!MessageDelta \/ Session!SummaryPartAdded
           \/ Session!ReasoningDelta \/ Session!UserMessageCompleted
                \/ Session!ReasoningCompleted \/ Session!AgentMessageCompleted
  <2>1. UNCHANGED <<Session!conv, Session!talk, telemetry, pipes, answer>> /\ st = "running" /\ ~answer
    <3>1. CASE Session!UserMessageStarted \/ Session!ReasoningStarted \/ Session!AgentMessageStarted
      BY <3>1 DEF Session!UserMessageStarted, Session!ReasoningStarted, Session!AgentMessageStarted,
         Session!ItemStarted, Session!Starts, Session!Running, Session!Reads, Session!Others
    <3>2. CASE ~(Session!UserMessageStarted \/ Session!ReasoningStarted \/ Session!AgentMessageStarted)
      BY <1>5, <3>2 DEF Session!MessageDelta, Session!SummaryPartAdded, Session!ReasoningDelta,
         Session!UserMessageCompleted, Session!ReasoningCompleted, Session!AgentMessageCompleted,
         Session!Running, Session!Reads, Session!Others
    <3> QED
      BY <3>1, <3>2
  <2>2. WorkInv'
    BY <1>1, <1>5, ItemsBegin, StreamGrows, ReasoningGrows, ItemsEnd
  <2>3. TalkInv' /\ IoTyped'
    BY <1>1, <2>1, TalkKept DEF IoTyped
  <2>4. st' # "terminal"
    BY <2>1 DEF Session!conv
  <2> QED
    BY <2>1, <2>2, <2>3, <2>4 DEF SessionInv, TerminalIsFinal, Session!AnswerIsDelivered
<1>6. CASE Session!TurnCompleted
  <2>1. /\ st = "running" /\ st' = "terminal" /\ items.final # None /\ ~answer
        /\ UNCHANGED <<pending, queue, clash, Session!talk, Session!work, telemetry, pipes, answer>>
    BY <1>6 DEF Session!TurnCompleted, Session!Running, Session!Reads
  <2>2. TalkInv' /\ WorkInv' /\ IoTyped'
    BY <1>1, <2>1, TalkEnds, WorkKept DEF IoTyped
  <2> QED
    BY <2>1, <2>2 DEF SessionInv, TerminalIsFinal, Session!AnswerIsDelivered, Session!work
<1>7. CASE Session!Telemetry
  <2>1. UNCHANGED <<Session!conv, Session!talk, Session!work, pipes, answer>>
             /\ telemetry' \in 0..MaxTelemetry /\ ~answer
    BY <1>1, <1>7 DEF Session!Telemetry, Session!Reads, IoTyped, SessionBounds
  <2>2. TalkInv' /\ WorkInv' /\ IoTyped'
    BY <1>1, <2>1, TalkKept, WorkKept DEF IoTyped
  <2> QED
    BY <1>1, <2>1, <2>2 DEF SessionInv, TerminalIsFinal, Session!AnswerIsDelivered, Session!work,
       Session!conv
<1>8. CASE Session!Reject \/ Session!Finish
  <2>1. UNCHANGED <<pending, queue, clash, Session!talk, Session!work, telemetry, pipes>> /\ ~answer
    BY <1>8 DEF Session!Reject, Session!Finish
  <2>2. CASE st' = "failed" /\ answer' = answer
    <3>1. TalkInv' /\ WorkInv' /\ IoTyped'
      BY <1>1, <2>1, <2>2, TalkFails, WorkKept DEF IoTyped
    <3> QED
      BY <2>1, <2>2, <3>1 DEF SessionInv, TerminalIsFinal, Session!AnswerIsDelivered
  <2>3. CASE Session!Whole /\ answer' = TRUE /\ st' = st /\ ~pipes.stdout
    <3>1. TalkInv' /\ WorkInv' /\ IoTyped'
      BY <1>1, <2>1, <2>3, TalkKept, WorkKept DEF IoTyped, Session!conv
    <3>2. pending = None
      BY <1>1, <2>3 DEF TalkInv, Session!OneOutstanding, Session!Whole
    <3> QED
      BY <1>1, <2>1, <2>3, <3>1, <3>2 DEF SessionInv, TerminalIsFinal, Session!AnswerIsDelivered,
         Session!Whole, Session!work
  <2> QED
    BY <1>8, <2>2, <2>3 DEF Session!Reject, Session!Finish
<1>9. CASE Session!Flush \/ Session!CloseStdin \/ Session!StdoutEnds \/ Session!PartialRecord
                \/ Session!ServerExits
  <2>1. UNCHANGED <<Session!conv, Session!talk, Session!work, telemetry, answer>> /\ ~answer
    BY <1>9 DEF Session!Flush, Session!CloseStdin, Session!StdoutEnds, Session!PartialRecord,
       Session!ServerExits, Session!IoStep
  <2>2. pipes' \in [stdin : BOOLEAN, queued : BOOLEAN, stdout : BOOLEAN, partial : BOOLEAN,
                 exit : {None, "zero", "nonzero"}]
    BY <1>1, <1>9 DEF IoTyped, Session!Flush, Session!CloseStdin, Session!StdoutEnds,
       Session!PartialRecord, Session!ServerExits, Session!IoStep
  <2>3. TalkInv' /\ WorkInv' /\ IoTyped'
    BY <1>1, <2>1, <2>2, TalkKept, WorkKept DEF IoTyped
  <2> QED
    BY <1>1, <2>1, <2>3 DEF SessionInv, TerminalIsFinal, Session!AnswerIsDelivered, Session!work,
       Session!conv
<1>10. CASE UNCHANGED Session!vars
  <2>1. UNCHANGED <<Session!conv, Session!talk, Session!work, telemetry, pipes, answer>>
    BY <1>10 DEF Session!vars, Session!conv, Session!talk, Session!work
  <2>2. TalkInv' /\ WorkInv' /\ IoTyped'
    BY <1>1, <2>1, TalkKept, WorkKept DEF IoTyped
  <2> QED
    BY <1>1, <2>1, <2>2 DEF SessionInv, TerminalIsFinal, Session!AnswerIsDelivered, Session!work,
       Session!conv
<1> QED
  BY <1>2, <1>3, <1>4, <1>5, <1>6, <1>7, <1>8, <1>9, <1>10 DEF Session!Next

(* For any identifiers and texts the server may send, in any order: one     *)
(* request is outstanding at a time, the prompt is sent only after every    *)
(* attestation, in one agreed turn, sizes are those of the items kept, and  *)
(* the result is the one final message as it was streamed, delivered only   *)
(* by an orderly end (appserver_protocol.py:1088, 1579, direct_gate.py:422).*)
THEOREM SessionIsEarned ==
  ASSUME SessionBounds
  PROVE  Session!Spec => [](/\ Session!TypeOK /\ Session!OneOutstanding /\ Session!PromptIsEarned
                          /\ Session!RunsOnAgreedTurn /\ Session!ResultIsTheStream
                          /\ Session!HeldIsCounted /\ Session!AnswerIsDelivered)
<1>1. Session!Init => SessionInv
  BY SessionInitHolds
<1>2. SessionInv /\ [Session!Next]_(Session!vars) => SessionInv'
  BY SessionStepKeeps
<1>3. SessionInv => /\ Session!TypeOK /\ Session!OneOutstanding /\ Session!PromptIsEarned
                    /\ Session!RunsOnAgreedTurn /\ Session!ResultIsTheStream
                    /\ Session!HeldIsCounted /\ Session!AnswerIsDelivered
  BY SessionInvariantTells
<1> QED
  BY <1>1, <1>2, <1>3, PTL DEF Session!Spec

-----------------------------------------------------------------------------
(* The refresh *)

ServerBounds == None \notin {0, 1} /\ None \notin {"refreshed", "failed", "retained"}

-----------------------------------------------------------------------------
(* The inductive invariant *)

Places == {"launch", "bind", "start", "loop", "close", "term", "kill", "await", "unbind", "wait",
           "settled", "finalize", "done"}
States == {"new", "initialize", "remote-control-status", "account-update", "account-response",
           "complete"}

Typed ==
  /\ turn \in Places /\ knows \in {"nothing", "launched", "pid"}
  /\ proto \in [state : States, update : BOOLEAN, valid : SUBSET Server!Records]
  /\ io \in [stdin : BOOLEAN, out : BOOLEAN, err : BOOLEAN, outbound : BOOLEAN, partial : BOOLEAN]

(* Where the caller still has the process to wait for *)
Minds ==
  \/ turn \in {"bind", "start", "loop", "term", "kill", "await", "unbind", "wait"}
  \/ turn = "close" /\ knows = "pid"

(* The process the caller knows of has not been waited for, and is bound   *)
(* only then; a receipt of its closure is one of this process.             *)
ProcessIsKnown ==
  /\ turn = "launch" => child = "none" /\ knows = "nothing"
  /\ turn \in {"start", "loop", "term", "kill", "await", "unbind"} => knows = "pid"
  /\ turn \in {"launch", "bind", "start", "loop"} => failure = None
  /\ Minds => child \in {"runs", "exited"} /\ closure = None
  /\ turn = "bind" => ~bound
  /\ turn = "wait" => child = "exited" /\ ~bound
  /\ bound => Minds
  /\ knows = "nothing" => child = "none"
  /\ closure # None => child = "reaped" /\ closure = code

(* What the protocol has come to, it was told. *)
StateIsTold ==
  /\ proto.state \in States \ {"new", "initialize"} => "initialize" \in proto.valid
  /\ proto.state \in {"account-update", "account-response", "complete"} => "disabled" \in proto.valid
  /\ proto.state = "complete" => "account" \in proto.valid

(* A result belongs to a complete exchange, and after the wait to a server *)
(* that exited with 0; at the end it yields to a signal.                   *)
ResultIsEarned ==
  result =>
    /\ turn \in {"unbind", "wait", "settled", "finalize", "done"} /\ Server!Complete
    /\ turn \in {"settled", "finalize", "done"} => closure = 0
    /\ turn \in {"finalize", "done"} => ~host

OutcomeIsLast ==
  /\ turn # "done" => outcome = None
  /\ outcome = "refreshed" => result
  /\ outcome \in {"refreshed", "failed"} => child \in {"none", "reaped"}

ServerInv == Server!TypeOK /\ Typed /\ ProcessIsKnown /\ StateIsTold /\ ResultIsEarned /\ OutcomeIsLast

USE DEF ServerBounds, ServerInv, Server!TypeOK, Typed, ProcessIsKnown, StateIsTold, ResultIsEarned,
  OutcomeIsLast, Places, States, Server!Records, Minds, Server!Complete, Server!process,
  Server!talk, Server!timing, Server!verdict, Server!Goto, Server!Raise, Server!Step, Server!Valid,
  Server!Ask, Server!In

LEMMA ServerInitHolds == ASSUME ServerBounds, Server!Init PROVE ServerInv
<1>1. Server!TypeOK
  <2>1. (result => failure = None)
    BY DEF Server!Init
  <2>2. (late \in 0..2 /\ code \in {None, 0, 1} /\ closure \in {None, 0, 1})
    BY DEF Server!Init
  <2>3. ((code # None) = (child \in {"exited", "reaped"}))
    BY DEF Server!Init
  <2> QED
    BY <2>1, <2>2, <2>3 DEF Server!Init
<1>2. Typed /\ StateIsTold
  BY DEF Server!Init
<1>3. ProcessIsKnown
  BY DEF Server!Init
<1>4. ResultIsEarned /\ OutcomeIsLast
  BY DEF Server!Init
<1> QED
  BY <1>1, <1>2, <1>3, <1>4

-----------------------------------------------------------------------------
(* The steps *)

LEMMA ServerStutterInv == ASSUME ServerBounds, ServerInv, UNCHANGED Server!vars PROVE ServerInv'
BY DEF Server!vars

LEMMA ExitsInv == ASSUME ServerBounds, ServerInv, Server!Exits PROVE ServerInv'
BY DEF Server!Exits

LEMMA HostSignalInv == ASSUME ServerBounds, ServerInv, Server!HostSignal PROVE ServerInv'
BY DEF Server!HostSignal

LEMMA TimeInv == ASSUME ServerBounds, ServerInv, Server!Time PROVE ServerInv'
BY DEF Server!Time

LEMMA LaunchInv == ASSUME ServerBounds, ServerInv, Server!Launch PROVE ServerInv'
<1>1. Server!TypeOK'
  BY DEF Server!Launch
<1>2. Typed' /\ StateIsTold'
  BY DEF Server!Launch
<1>3. ProcessIsKnown'
  BY DEF Server!Launch
<1>4. ResultIsEarned' /\ OutcomeIsLast'
  BY DEF Server!Launch
<1> QED
  BY <1>1, <1>2, <1>3, <1>4

LEMMA BindInv == ASSUME ServerBounds, ServerInv, Server!Bind PROVE ServerInv'
<1>1. Server!TypeOK'
  <2>1. (result => failure = None)'
    BY DEF Server!Bind
  <2>2. (late \in 0..2 /\ code \in {None, 0, 1} /\ closure \in {None, 0, 1})'
    BY DEF Server!Bind
  <2>3. ((code # None) = (child \in {"exited", "reaped"}))'
    BY DEF Server!Bind
  <2> QED
    BY <2>1, <2>2, <2>3 DEF Server!Bind
<1>2. Typed' /\ StateIsTold'
  BY DEF Server!Bind
<1>3. ProcessIsKnown'
  <2>1. CASE Server!Raise("invalid") /\ UNCHANGED <<bound, knows>>
    BY <2>1 DEF Server!Bind
  <2>2. CASE bound' = TRUE /\ knows' = "pid" /\ turn' \in {"start", "close"} /\ UNCHANGED closure
    BY <2>2 DEF Server!Bind
  <2> QED
    BY <2>1, <2>2 DEF Server!Bind
<1>4. ResultIsEarned' /\ OutcomeIsLast'
  BY DEF Server!Bind
<1> QED
  BY <1>1, <1>2, <1>3, <1>4

LEMMA StartInv == ASSUME ServerBounds, ServerInv, Server!Start PROVE ServerInv'
<1>1. Server!TypeOK'
  BY DEF Server!Start
<1>2. Typed' /\ StateIsTold'
  BY DEF Server!Start
<1>3. ProcessIsKnown'
  BY DEF Server!Start
<1>4. ResultIsEarned' /\ OutcomeIsLast'
  BY DEF Server!Start
<1> QED
  BY <1>1, <1>2, <1>3, <1>4

LEMMA BreakInv == ASSUME ServerBounds, ServerInv, Server!Break PROVE ServerInv'
<1>1. Server!TypeOK'
  BY DEF Server!Break
<1>2. Typed' /\ StateIsTold'
  BY DEF Server!Break
<1>3. ProcessIsKnown'
  BY DEF Server!Break
<1>4. ResultIsEarned' /\ OutcomeIsLast'
  BY DEF Server!Break
<1> QED
  BY <1>1, <1>2, <1>3, <1>4

LEMMA WriteInv == ASSUME ServerBounds, ServerInv, Server!Write PROVE ServerInv'
BY DEF Server!Write

(* A record that is due leaves the exchange where it was told. *)
LEMMA AdmitInv ==
  ASSUME Typed, StateIsTold, NEW record \in Server!Records, Server!Admit(record)
  PROVE  /\ proto' \in [state : States, update : BOOLEAN, valid : SUBSET Server!Records]
         /\ io' \in [stdin : BOOLEAN, out : BOOLEAN, err : BOOLEAN, outbound : BOOLEAN, partial : BOOLEAN]
         /\ StateIsTold'
         /\ proto.state = "complete" => proto'.state = "complete"
<1>1. CASE record = "initialize" /\ Server!Valid(record, "initialize", "remote-control-status") /\ Server!Ask(TRUE)
  BY <1>1
<1>2. CASE /\ record = "disabled" /\ Server!Ask(io.outbound)
           /\ Server!Valid(record, "remote-control-status", "account-update")
  BY <1>2
<1>3. CASE /\ record = "update" /\ proto.state \in {"account-update", "complete"} /\ Server!Ask(io.outbound)
           /\ proto' = [proto EXCEPT !.update = TRUE,
                                     !.state = IF Server!Complete THEN @ ELSE "account-response"]
  BY <1>3
<1>4. CASE /\ record = "account" /\ Server!Ask(io.outbound)
           /\ proto' = [proto EXCEPT !.state = "complete", !.valid = @ \cup {record}]
           /\ proto.state \in {"account-update", "account-response"}
  BY <1>4
<1> QED
  BY <1>1, <1>2, <1>3, <1>4 DEF Server!Admit

LEMMA ReadRecordInv == ASSUME ServerBounds, ServerInv, Server!ReadRecord PROVE ServerInv'
<1>1. PICK record \in Server!Records : Server!Admit(record)
  BY DEF Server!ReadRecord
<1>2. /\ Typed' /\ StateIsTold'
      /\ Server!Complete => Server!Complete'
  BY <1>1, AdmitInv DEF Server!ReadRecord
<1>3. UNCHANGED <<turn, Server!process, bound, host, knows, Server!timing, Server!verdict>>
  BY DEF Server!ReadRecord
<1>4. Server!TypeOK'
  BY <1>2, <1>3
<1> HIDE DEF StateIsTold, Typed, Server!Complete
<1> QED
  BY <1>2, <1>3, <1>4

LEMMA ReadPartInv == ASSUME ServerBounds, ServerInv, Server!ReadPart PROVE ServerInv'
BY DEF Server!ReadPart

LEMMA ReadEndInv == ASSUME ServerBounds, ServerInv, Server!ReadEnd PROVE ServerInv'
<1>1. Server!TypeOK'
  BY DEF Server!ReadEnd
<1>2. Typed' /\ StateIsTold'
  BY DEF Server!ReadEnd
<1>3. ProcessIsKnown'
  BY DEF Server!ReadEnd
<1>4. ResultIsEarned' /\ OutcomeIsLast'
  BY DEF Server!ReadEnd
<1> QED
  BY <1>1, <1>2, <1>3, <1>4

LEMMA CloseStdinInv == ASSUME ServerBounds, ServerInv, Server!CloseStdin PROVE ServerInv'
BY DEF Server!CloseStdin

LEMMA FinishInv == ASSUME ServerBounds, ServerInv, Server!Finish PROVE ServerInv'
<1>1. Server!TypeOK'
  BY DEF Server!Finish
<1>2. Typed' /\ StateIsTold'
  BY DEF Server!Finish
<1>3. ProcessIsKnown'
  BY DEF Server!Finish
<1>4. ResultIsEarned' /\ OutcomeIsLast'
  BY DEF Server!Finish
<1> QED
  BY <1>1, <1>2, <1>3, <1>4

LEMMA LetGoInv == ASSUME ServerBounds, ServerInv, Server!LetGo PROVE ServerInv'
<1>1. Server!TypeOK'
  BY DEF Server!LetGo, Server!Unbind
<1>2. Typed' /\ StateIsTold'
  BY DEF Server!LetGo, Server!Unbind
<1>3. ProcessIsKnown'
  BY DEF Server!LetGo, Server!Unbind
<1>4. ResultIsEarned' /\ OutcomeIsLast'
  BY DEF Server!LetGo, Server!Unbind
<1> QED
  BY <1>1, <1>2, <1>3, <1>4

LEMMA WaitInv == ASSUME ServerBounds, ServerInv, Server!Wait PROVE ServerInv'
<1>1. Server!TypeOK'
  BY DEF Server!Wait
<1>2. Typed' /\ StateIsTold'
  BY DEF Server!Wait
<1>3. ProcessIsKnown'
  BY DEF Server!Wait
<1>4. ResultIsEarned' /\ OutcomeIsLast'
  BY DEF Server!Wait
<1> QED
  BY <1>1, <1>2, <1>3, <1>4

LEMMA CloseInv == ASSUME ServerBounds, ServerInv, Server!Close PROVE ServerInv'
<1>1. Server!TypeOK'
  BY DEF Server!Close
<1>2. Typed' /\ StateIsTold'
  BY DEF Server!Close
<1>3. ProcessIsKnown'
  BY DEF Server!Close
<1>4. ResultIsEarned' /\ OutcomeIsLast'
  BY DEF Server!Close
<1> QED
  BY <1>1, <1>2, <1>3, <1>4

LEMMA TermInv == ASSUME ServerBounds, ServerInv, Server!Term PROVE ServerInv'
BY DEF Server!Term

LEMMA KillInv == ASSUME ServerBounds, ServerInv, Server!Kill PROVE ServerInv'
BY DEF Server!Kill

LEMMA AwaitInv == ASSUME ServerBounds, ServerInv, Server!Await PROVE ServerInv'
<1>1. Server!TypeOK'
  <2>1. (result => failure = None)'
    BY DEF Server!Await
  <2>2. (late \in 0..2 /\ code \in {None, 0, 1} /\ closure \in {None, 0, 1})'
    BY DEF Server!Await
  <2>3. ((code # None) = (child \in {"exited", "reaped"}))'
    BY DEF Server!Await
  <2> QED
    BY <2>1, <2>2, <2>3 DEF Server!Await
<1>2. Typed' /\ StateIsTold'
  BY DEF Server!Await
<1>3. ProcessIsKnown'
  BY DEF Server!Await
<1>4. ResultIsEarned' /\ OutcomeIsLast'
  BY DEF Server!Await
<1> QED
  BY <1>1, <1>2, <1>3, <1>4

LEMMA LeaveBoundaryInv == ASSUME ServerBounds, ServerInv, Server!LeaveBoundary PROVE ServerInv'
<1>1. Server!TypeOK'
  BY DEF Server!LeaveBoundary, Server!Boundary
<1>2. Typed' /\ StateIsTold'
  BY DEF Server!LeaveBoundary, Server!Boundary
<1>3. ProcessIsKnown'
  BY DEF Server!LeaveBoundary, Server!Boundary
<1>4. ResultIsEarned' /\ OutcomeIsLast'
  BY DEF Server!LeaveBoundary, Server!Boundary
<1> QED
  BY <1>1, <1>2, <1>3, <1>4

LEMMA FinalizeInv == ASSUME ServerBounds, ServerInv, Server!Finalize PROVE ServerInv'
<1>1. Server!TypeOK'
  BY DEF Server!Finalize, Server!Proven
<1>2. Typed' /\ StateIsTold'
  BY DEF Server!Finalize, Server!Proven
<1>3. ProcessIsKnown'
  BY DEF Server!Finalize, Server!Proven
<1>4. ResultIsEarned' /\ OutcomeIsLast'
  BY DEF Server!Finalize, Server!Proven
<1> QED
  BY <1>1, <1>2, <1>3, <1>4

LEMMA ServerStepKeeps == ASSUME ServerBounds, ServerInv, [Server!Next]_(Server!vars) PROVE ServerInv'
BY ServerStutterInv, ExitsInv, HostSignalInv, TimeInv, LaunchInv, BindInv, StartInv, BreakInv,
  WriteInv, ReadRecordInv, ReadPartInv, ReadEndInv, CloseStdinInv, FinishInv, LetGoInv, WaitInv,
  CloseInv, TermInv, KillInv, AwaitInv, LeaveBoundaryInv, FinalizeInv DEF Server!Next, Server!Refresh

-----------------------------------------------------------------------------
(* What follows *)

LEMMA ServerInvariantTells ==
  ASSUME ServerBounds, ServerInv
  PROVE  /\ Server!TypeOK /\ Server!RefreshedIsProved /\ Server!BoundIsOwn
         /\ Server!ClosedLeavesNothing /\ Server!SignalWins
<1>1. Server!RefreshedIsProved
  BY DEF Server!RefreshedIsProved
<1>2. Server!BoundIsOwn
  BY DEF Server!BoundIsOwn
<1>3. Server!ClosedLeavesNothing /\ Server!SignalWins
  BY DEF Server!ClosedLeavesNothing, Server!SignalWins
<1> QED
  BY <1>1, <1>2, <1>3

(* A refresh is reported only of a server that proved its home, that its   *)
(* remote control is off and that it read the account, then exited with 0  *)
(* and was reaped; and to no caller that was told to stop. A signal never  *)
(* goes to the PID of a process that was reaped, and a stage that was not  *)
(* retained has left no process behind (auth_refresh.py:602).              *)
THEOREM RefreshIsProved ==
  ASSUME ServerBounds
  PROVE  Server!Spec => [](/\ Server!TypeOK /\ Server!RefreshedIsProved /\ Server!BoundIsOwn
                         /\ Server!ClosedLeavesNothing /\ Server!SignalWins)
<1>1. Server!Init => ServerInv
  BY ServerInitHolds
<1>2. ServerInv /\ [Server!Next]_(Server!vars) => ServerInv'
  BY ServerStepKeeps
<1>3. ServerInv => /\ Server!TypeOK /\ Server!RefreshedIsProved /\ Server!BoundIsOwn
                   /\ Server!ClosedLeavesNothing /\ Server!SignalWins
  BY ServerInvariantTells
<1> HIDE DEF ServerInv, Server!TypeOK, Server!vars
<1> QED
  BY <1>1, <1>2, <1>3, PTL DEF Server!Spec
=============================================================================
