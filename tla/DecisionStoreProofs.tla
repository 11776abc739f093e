-------------------------- MODULE DecisionStoreProofs --------------------------
(***************************************************************************)
(* Theorems about module DecisionStore: what the decision log keeps, for   *)
(* any handlers, decisions, failed writes and crashes.                     *)
(*                                                                         *)
(* The invariant follows an append from its first write to its newline:    *)
(* while it is clean, the open line is exactly what it has written so far, *)
(* and its decision is in memory since before the file was opened.         *)
(***************************************************************************)
EXTENDS DecisionStore, SequenceTheorems, FunctionTheorems, FiniteSetTheorems, WellFoundedInduction,
        TLAPS

\* The append h is in the middle of.
Writing(h) == writer[h].next \in {"head", "tail", "newline"}

FileTyped == file \in Seq(Seq(Piece)) /\ file # <<>>

WriterTyped ==
  writer \in [Handler -> {Idle} \cup [decision : Decision, next : {"head", "tail", "newline"}]]

\* An append is of a decision of its own, not yet acknowledged and already in memory.
Pending ==
  /\ \A h \in Handler : Writing(h) =>
       /\ up /\ store = "jsonl"
       /\ writer[h].decision \in tried \ acked
       /\ <<writer[h].decision, writer[h].decision>> \in memory
       /\ writer[h].next = "head" => writer[h].decision \notin clean
  /\ \A g, h \in Handler : Writing(g) /\ Writing(h) /\ g # h => writer[g].decision # writer[h].decision

\* While an append is clean the open line is its own.
OwnLine ==
  \A h \in Handler : Writing(h) /\ writer[h].decision \in clean =>
    /\ writer[h].next = "tail" => Open = << <<writer[h].decision, "head">> >>
    /\ writer[h].next = "newline" => Open = Whole(writer[h].decision)

Written(d) == \E i \in 1 .. Len(file) - 1 : file[i] = Whole(d)

LinesKept == \A d \in acked \cap clean : Written(d)

MemoryKept ==
  /\ store = "jsonl" /\ up => \A d \in acked \cap clean : <<d, d>> \in memory
  /\ store = "sqlite" => acked \subseteq rows

Inv == TypeOK /\ Pending /\ OwnLine /\ LinesKept /\ MemoryKept

-----------------------------------------------------------------------------
(* The file.                                                               *)

LEMMA ExtendedFile ==
  ASSUME FileTyped, NEW piece \in Piece, file' = Extended(piece)
  PROVE  /\ FileTyped' /\ Len(file') = Len(file)
         /\ Open' = Append(Open, piece)
         /\ \A i \in 1 .. Len(file) - 1 : file'[i] = file[i]
<1>1. Len(file) \in Nat \ {0} /\ Open \in Seq(Piece)
  BY DEF FileTyped, Open
<1>2. Append(Open, piece) \in Seq(Piece)
  BY <1>1
<1>3. file' \in Seq(Seq(Piece)) /\ Len(file') = Len(file)
  BY <1>1, <1>2 DEF Extended, Open, FileTyped
<1>4. file'[Len(file)] = Append(Open, piece)
  BY <1>1 DEF Extended, Open, FileTyped
<1>5. \A i \in 1 .. Len(file) - 1 : file'[i] = file[i]
  BY <1>1 DEF Extended, FileTyped
<1> QED
  BY <1>1, <1>3, <1>4, <1>5 DEF FileTyped, Open

LEMMA AppendPieces ==
  ASSUME NEW p \in Piece, NEW q \in Piece
  PROVE  Append(<<>>, p) = <<p>> /\ Append(<<p>>, q) = <<p, q>>
<1>1. Append(<<>>, p) \in Seq(Piece) /\ Len(Append(<<>>, p)) = 1 /\ Append(<<>>, p)[1] = p
  OBVIOUS
<1>2. <<p>> \in Seq(Piece) /\ Len(<<p>>) = 1 /\ <<p>>[1] = p
  OBVIOUS
<1>3. /\ Append(<<p>>, q) \in Seq(Piece) /\ Len(Append(<<p>>, q)) = 2
      /\ Append(<<p>>, q)[1] = p /\ Append(<<p>>, q)[2] = q
  OBVIOUS
<1>4. <<p, q>> \in Seq(Piece) /\ Len(<<p, q>>) = 2 /\ <<p, q>>[1] = p /\ <<p, q>>[2] = q
  OBVIOUS
<1>5. Append(<<>>, p) = <<p>>
  BY <1>1, <1>2, SeqEqual
<1>6. Append(<<p>>, q) = <<p, q>>
  <2> DEFINE s == Append(<<p>>, q)
             t == <<p, q>>
  <2>1. \A i \in 1 .. Len(s) : i = 1 \/ i = 2
    BY <1>3
  <2> HIDE DEF s, t
  <2>2. \A i \in 1 .. Len(s) : s[i] = t[i]
    BY <1>3, <1>4, <2>1 DEF s, t
  <2>3. s \in Seq(Piece) /\ t \in Seq(Piece) /\ Len(s) = Len(t)
    BY <1>3, <1>4 DEF s, t
  <2>4. s = t
    BY <2>2, <2>3, SeqEqual
  <2> QED
    BY <2>4 DEF s, t
<1> QED
  BY <1>5, <1>6

LEMMA NewLine ==
  ASSUME FileTyped, file' = Append(file, <<>>)
  PROVE  /\ FileTyped' /\ Len(file') = Len(file) + 1
         /\ \A i \in 1 .. Len(file) : file'[i] = file[i]
         /\ file[Len(file)] = Open
<1>1. <<>> \in Seq(Piece)
  OBVIOUS
<1> QED
  BY <1>1 DEF FileTyped, Open

\* Closed lines are never written again.
LEMMA WrittenStays ==
  ASSUME FileTyped, Len(file') \in Nat, Len(file') >= Len(file),
         \A i \in 1 .. Len(file) - 1 : file'[i] = file[i],
         NEW d \in Decision, Written(d)
  PROVE  Written(d)'
<1>1. PICK i \in 1 .. Len(file) - 1 : file[i] = Whole(d)
  BY DEF Written
<1>2. Len(file) \in Nat
  BY DEF FileTyped
<1>3. i \in 1 .. Len(file') - 1 /\ file'[i] = Whole(d)
  BY <1>1, <1>2
<1> QED
  BY <1>3 DEF Written, Whole

\* Reading the file back finds every whole line.
LEMMA WrittenRead ==
  ASSUME FileTyped, NEW d \in Decision, Written(d)
  PROVE  <<d, d>> \in Rehydrated
<1>1. PICK i \in 1 .. Len(file) - 1 : file[i] = Whole(d)
  BY DEF Written
<1>2. i \in 1 .. Len(file)
  BY <1>1 DEF FileTyped
<1>3. /\ Len(file[i]) = 2
      /\ file[i][1][1] = d /\ file[i][1][2] = "head" /\ file[i][2][1] = d /\ file[i][2][2] = "tail"
  BY <1>1 DEF Whole
<1> QED
  BY <1>2, <1>3 DEF Rehydrated, Parses

LEMMA RehydratedTyped ==
  ASSUME FileTyped PROVE Rehydrated \subseteq Decision \X Decision
<1> SUFFICES ASSUME NEW i \in 1 .. Len(file), Parses(file[i])
             PROVE  <<file[i][1][1], file[i][2][1]>> \in Decision \X Decision
  BY DEF Rehydrated
<1>1. file[i] \in Seq(Piece) /\ Len(file[i]) = 2
  BY DEF FileTyped, Parses
<1>2. file[i][1] \in Piece /\ file[i][2] \in Piece
  BY <1>1
<1> QED
  BY <1>2 DEF Piece

-----------------------------------------------------------------------------
(* The writers.                                                            *)

LEMMA WriterFields ==
  ASSUME WriterTyped, NEW h \in Handler
  PROVE  /\ ~Writing(h) <=> writer[h] = Idle
         /\ Writing(h) <=> writer[h].next # "none"
         /\ Writing(h) => /\ writer[h].decision \in Decision
                          /\ writer[h] = [decision |-> writer[h].decision, next |-> writer[h].next]
BY DEF WriterTyped, Writing, Idle

\* One writer moves.
LEMMA WriterMoves ==
  ASSUME WriterTyped, NEW h \in Handler, NEW d \in Decision,
         NEW n \in {"head", "tail", "newline"},
         writer' = [writer EXCEPT ![h] = [decision |-> d, next |-> n]]
  PROVE  /\ WriterTyped'
         /\ writer'[h].decision = d /\ writer'[h].next = n
         /\ \A g \in Handler \ {h} : writer'[g] = writer[g]
BY DEF WriterTyped

LEMMA WriterAdvances ==
  ASSUME WriterTyped, NEW h \in Handler, Writing(h), NEW n \in {"head", "tail", "newline"},
         writer' = [writer EXCEPT ![h].next = n]
  PROVE  writer' = [writer EXCEPT ![h] = [decision |-> writer[h].decision, next |-> n]]
<1>1. writer[h] = [decision |-> writer[h].decision, next |-> writer[h].next]
  BY WriterFields
<1>2. [writer[h] EXCEPT !.next = n] = [decision |-> writer[h].decision, next |-> n]
  BY <1>1
<1> QED
  BY <1>2

LEMMA WriterStops ==
  ASSUME WriterTyped, NEW h \in Handler, writer' = [writer EXCEPT ![h] = Idle]
  PROVE  /\ WriterTyped'
         /\ writer'[h] = Idle /\ ~Writing(h)'
         /\ \A g \in Handler \ {h} : writer'[g] = writer[g]
BY DEF WriterTyped, Writing, Idle

\* A write takes every other append under way out of the clean ones.
LEMMA SparedOthers ==
  ASSUME TypeOK, Pending, NEW h \in Handler
  PROVE  /\ Spared(h) \subseteq clean
         /\ \A g \in Handler \ {h} : Writing(g) => writer[g].decision \notin Spared(h)
BY DEF Spared, Pending, Writing

LEMMA TypedParts == TypeOK => FileTyped /\ WriterTyped
BY DEF TypeOK, FileTyped, WriterTyped

-----------------------------------------------------------------------------
(* The actions.                                                            *)

LEMMA InitEstablishes == Init => Inv
<1> SUFFICES ASSUME Init PROVE Inv
  OBVIOUS
<1>1. store \in {"memory", "jsonl", "sqlite"}
  BY DEF Init, Chosen
<1>2. file \in Seq(Seq(Piece)) /\ file # <<>>
  BY DEF Init
<1>3. events \in [Table -> Seq(Subject)]
  BY DEF Init
<1>4. TypeOK
  BY <1>1, <1>2, <1>3, StoreAssumption DEF Init, TypeOK
<1>5. \A h \in Handler : ~Writing(h)
  BY DEF Init, Idle, Writing
<1>6. Pending /\ OwnLine
  BY <1>5 DEF Pending, OwnLine
<1>7. LinesKept /\ MemoryKept
  BY DEF Init, LinesKept, MemoryKept
<1> QED
  BY <1>4, <1>6, <1>7 DEF Inv

\* A step that writes nothing to the file, moves no writer, and touches no clean append.
LEMMA QuietKeeps ==
  ASSUME Inv, TypeOK', UNCHANGED <<store, up, file, writer, clean>>,
         memory \subseteq memory', tried \subseteq tried',
         acked' \cap tried = acked,
         store = "sqlite" => acked' \subseteq rows'
  PROVE  Inv'
<1>1. acked' \cap clean' = acked \cap clean
  BY DEF Inv, TypeOK
<1>2. Pending'
  BY DEF Inv, TypeOK, Pending, Writing
<1>3. OwnLine'
  BY DEF Inv, OwnLine, Writing, Open, Whole
<1>4. LinesKept'
  BY <1>1 DEF Inv, LinesKept, Written, Whole
<1>5. MemoryKept'
  BY <1>1 DEF Inv, MemoryKept
<1> QED
  BY <1>2, <1>3, <1>4, <1>5 DEF Inv

LEMMA RecordInMemoryKeeps ==
  ASSUME Inv, NEW h \in Handler, NEW d \in Decision, RecordInMemory(h, d)
  PROVE  Inv'
<1>1. TypeOK'
  BY DEF RecordInMemory, Begins, Inv, TypeOK
<1>2. acked' \cap tried = acked
  BY DEF RecordInMemory, Begins, Inv, TypeOK
<1> QED
  BY <1>1, <1>2, QuietKeeps DEF RecordInMemory, Begins

LEMMA RecordRowKeeps ==
  ASSUME Inv, NEW h \in Handler, NEW d \in Decision, RecordRow(h, d)
  PROVE  Inv'
<1>1. TypeOK'
  BY DEF RecordRow, Begins, Inv, TypeOK
<1>2. acked' \cap tried = acked
  BY DEF RecordRow, Begins, Inv, TypeOK
<1>3. store = "sqlite" => acked' \subseteq rows'
  BY DEF RecordRow, Inv, MemoryKept
<1> QED
  BY <1>1, <1>2, <1>3, QuietKeeps DEF RecordRow, Begins

LEMMA RecordRowFailsKeeps ==
  ASSUME Inv, NEW h \in Handler, NEW d \in Decision, RecordRowFails(h, d)
  PROVE  Inv'
<1>1. TypeOK'
  BY DEF RecordRowFails, Begins, Inv, TypeOK
<1>2. acked' \cap tried = acked
  BY DEF RecordRowFails, Inv, TypeOK
<1>3. store = "sqlite" => acked' \subseteq rows'
  BY DEF RecordRowFails, Inv, MemoryKept
<1> QED
  BY <1>1, <1>2, <1>3, QuietKeeps DEF RecordRowFails, Begins

LEMMA InsertsKeeps ==
  ASSUME Inv, NEW t \in Table, NEW subject \in Subject, Inserts(t, subject)
  PROVE  Inv'
<1>1. events \in [Table -> Seq(Subject)] /\ events' = [events EXCEPT ![t] = Append(@, subject)]
  BY DEF Inserts, Inv, TypeOK
<1>2. events' \in [Table -> Seq(Subject)]
  BY <1>1
<1>3. TypeOK'
  BY <1>2 DEF Inserts, Inv, TypeOK
<1>4. acked' \cap tried = acked
  BY DEF Inserts, Inv, TypeOK
<1>5. store = "sqlite" => acked' \subseteq rows'
  BY DEF Inserts, Inv, MemoryKept
<1> QED
  BY <1>3, <1>4, <1>5, QuietKeeps DEF Inserts

\* The decision that starts was never tried: it is neither clean nor anybody else's.
LEMMA StartAppendKeeps ==
  ASSUME Inv, NEW h \in Handler, NEW d \in Decision, StartAppend(h, d)
  PROVE  Inv'
<1>1. WriterTyped /\ ~Writing(h)
  BY TypedParts DEF StartAppend, Begins, Inv, Writing, Idle
<1>2. /\ WriterTyped' /\ writer'[h].decision = d /\ writer'[h].next = "head"
      /\ \A g \in Handler \ {h} : writer'[g] = writer[g]
  BY <1>1, WriterMoves DEF StartAppend
<1>3. /\ store' = store /\ up' = up /\ file' = file /\ rows' = rows /\ acked' = acked /\ clean' = clean
      /\ store = "jsonl" /\ up /\ d \notin tried /\ tried' = tried \cup {d}
      /\ memory' = memory \cup {<<d, d>>} /\ crashes' = crashes /\ events' = events
  BY DEF StartAppend, Begins
<1>4. TypeOK'
  BY <1>2, <1>3 DEF Inv, TypeOK, WriterTyped
<1>5. d \notin acked /\ d \notin clean
  BY <1>3 DEF Inv, TypeOK
<1>6. \A g \in Handler \ {h} : Writing(g)' => Writing(g)
  BY <1>2 DEF Writing
<1>7. Pending'
  <2>1. ASSUME NEW g \in Handler, Writing(g)'
        PROVE  /\ writer'[g].decision \in tried' \ acked'
               /\ <<writer'[g].decision, writer'[g].decision>> \in memory'
               /\ writer'[g].next = "head" => writer'[g].decision \notin clean'
    <3>1. CASE g = h
      BY <3>1, <1>2, <1>3, <1>5
    <3>2. CASE g # h
      BY <3>2, <2>1, <1>2, <1>3, <1>6 DEF Inv, Pending
    <3> QED
      BY <3>1, <3>2
  <2>2. ASSUME NEW g \in Handler, NEW k \in Handler, Writing(g)', Writing(k)', g # k
        PROVE  writer'[g].decision # writer'[k].decision
    <3>1. CASE g = h
      BY <3>1, <2>2, <1>2, <1>3, <1>6 DEF Inv, Pending
    <3>2. CASE k = h
      BY <3>2, <2>2, <1>2, <1>3, <1>6 DEF Inv, Pending
    <3>3. CASE g # h /\ k # h
      BY <3>3, <2>2, <1>2, <1>6 DEF Inv, Pending
    <3> QED
      BY <3>1, <3>2, <3>3
  <2> QED
    BY <2>1, <2>2, <1>3 DEF Pending
<1>8. OwnLine'
  <2> SUFFICES ASSUME NEW g \in Handler, Writing(g)', writer'[g].decision \in clean'
               PROVE  /\ writer'[g].next = "tail" => Open' = << <<writer'[g].decision, "head">> >>
                      /\ writer'[g].next = "newline" => Open' = Whole(writer'[g].decision)
    BY DEF OwnLine, Whole
  <2>1. g # h /\ writer'[g] = writer[g] /\ Writing(g)
    BY <1>2, <1>3, <1>5, <1>6
  <2> QED
    BY <2>1, <1>3 DEF Inv, OwnLine, Open
<1>9. LinesKept'
  BY <1>3 DEF Inv, LinesKept, Written, Whole
<1>10. MemoryKept'
  BY <1>3 DEF Inv, MemoryKept
<1> QED
  BY <1>4, <1>7, <1>8, <1>9, <1>10 DEF Inv

\* A write by h: it closes no line but its own, and leaves no other append under way clean.
LEMMA WriteKeeps ==
  ASSUME Inv, NEW h \in Handler, Writing(h), NEW D \in Decision, writer[h].decision = D,
         UNCHANGED <<store, up, memory, rows, events, tried, crashes>>,
         FileTyped', WriterTyped',
         Len(file') >= Len(file),
         \A i \in 1 .. Len(file) - 1 : file'[i] = file[i],
         \A g \in Handler \ {h} : writer'[g] = writer[g],
         clean' \subseteq Spared(h) \cup {D},
         acked \subseteq acked', acked' \subseteq acked \cup {D},
         Writing(h)' => /\ writer'[h].decision = D
                        /\ acked' = acked /\ writer'[h].next # "head",
         D \in clean' =>
           /\ writer'[h].next = "tail" => Open' = << <<D, "head">> >>
           /\ writer'[h].next = "newline" => Open' = Whole(D)
           /\ D \in acked' => Written(D)'
  PROVE  Inv'
<1>1. /\ D \in tried /\ D \notin acked /\ <<D, D>> \in memory /\ up /\ store = "jsonl" /\ D \in Decision
      /\ \A g \in Handler \ {h} : Writing(g) => writer[g].decision # D
  BY DEF Inv, Pending, TypeOK
<1>2. /\ Spared(h) \subseteq clean
      /\ \A g \in Handler \ {h} : Writing(g) => writer[g].decision \notin Spared(h)
  BY SparedOthers DEF Inv
<1>3. \A g \in Handler \ {h} : Writing(g)' => Writing(g) /\ writer[g].decision \notin clean'
  BY <1>1, <1>2 DEF Writing
<1>4. TypeOK'
  <2>1. clean' \subseteq tried' /\ acked' \subseteq tried'
    BY <1>1, <1>2 DEF Inv, TypeOK
  <2> QED
    BY <2>1 DEF Inv, TypeOK, FileTyped, WriterTyped
<1>5. Pending'
  <2>1. ASSUME NEW g \in Handler, Writing(g)'
        PROVE  /\ writer'[g].decision \in tried' \ acked'
               /\ <<writer'[g].decision, writer'[g].decision>> \in memory'
               /\ writer'[g].next = "head" => writer'[g].decision \notin clean'
    <3>1. CASE g = h
      BY <3>1, <2>1, <1>1
    <3>2. CASE g # h
      <4>1. Writing(g) /\ writer'[g] = writer[g] /\ writer[g].decision # D
        BY <3>2, <2>1, <1>1, <1>3
      <4>2. writer[g].decision \in tried \ acked /\ <<writer[g].decision, writer[g].decision>> \in memory
        BY <4>1 DEF Inv, Pending
      <4> QED
        BY <4>1, <4>2, <1>3, <2>1, <3>2
    <3> QED
      BY <3>1, <3>2
  <2>2. ASSUME NEW g \in Handler, NEW k \in Handler, Writing(g)', Writing(k)', g # k
        PROVE  writer'[g].decision # writer'[k].decision
    <3>1. CASE g = h
      BY <3>1, <2>2, <1>1, <1>3
    <3>2. CASE k = h
      BY <3>2, <2>2, <1>1, <1>3
    <3>3. CASE g # h /\ k # h
      BY <3>3, <2>2, <1>3 DEF Inv, Pending
    <3> QED
      BY <3>1, <3>2, <3>3
  <2> QED
    BY <2>1, <2>2, <1>1 DEF Pending
<1>6. OwnLine'
  <2> SUFFICES ASSUME NEW g \in Handler, Writing(g)', writer'[g].decision \in clean'
               PROVE  /\ writer'[g].next = "tail" => Open' = << <<writer'[g].decision, "head">> >>
                      /\ writer'[g].next = "newline" => Open' = Whole(writer'[g].decision)
    BY DEF OwnLine, Whole
  <2>1. g = h
    BY <1>3
  <2> QED
    BY <2>1
<1>7. LinesKept'
  <2> SUFFICES ASSUME NEW d \in acked' \cap clean' PROVE Written(d)'
    BY DEF LinesKept
  <2>1. CASE d = D
    BY <2>1
  <2>2. CASE d # D
    <3>1. d \in acked \cap clean /\ d \in Decision
      BY <2>2, <1>2 DEF Inv, TypeOK
    <3>2. Written(d)
      BY <3>1 DEF Inv, LinesKept
    <3>3. FileTyped /\ Len(file') \in Nat
      BY TypedParts DEF Inv, FileTyped
    <3> QED
      BY <3>1, <3>2, <3>3, WrittenStays
  <2> QED
    BY <2>1, <2>2
<1>8. MemoryKept'
  <2>1. \A d \in acked' \cap clean' : d = D \/ d \in acked \cap clean
    BY <1>2
  <2> QED
    BY <2>1, <1>1 DEF Inv, MemoryKept
<1> QED
  BY <1>4, <1>5, <1>6, <1>7, <1>8 DEF Inv

\* The head of a record starts a clean append when the open line is empty.
LEMMA WriteHeadKeeps == ASSUME Inv, NEW h \in Handler, WriteHead(h) PROVE Inv'
<1>1. FileTyped /\ WriterTyped /\ Writing(h) /\ writer[h].next = "head"
  BY TypedParts DEF Inv, WriteHead, Writing
<1>d. PICK D \in Decision : writer[h].decision = D
  BY <1>1, WriterFields
<1>2. D \in Decision /\ <<D, "head">> \in Piece /\ D \notin clean /\ D \notin acked
  BY <1>d, <1>1 DEF Inv, Pending, TypeOK, Piece
<1>3. file' = Extended(<<D, "head">>)
  BY <1>d DEF WriteHead
<1>4. writer' = [writer EXCEPT ![h] = [decision |-> D, next |-> "tail"]]
  BY <1>d, <1>1, WriterAdvances DEF WriteHead
<1>5. /\ FileTyped' /\ Len(file') = Len(file) /\ Open' = Append(Open, <<D, "head">>)
      /\ \A i \in 1 .. Len(file) - 1 : file'[i] = file[i]
  BY <1>d, <1>1, <1>2, <1>3, ExtendedFile
<1>6. /\ WriterTyped' /\ writer'[h].decision = D /\ writer'[h].next = "tail"
      /\ \A g \in Handler \ {h} : writer'[g] = writer[g]
  BY <1>d, <1>1, <1>2, <1>4, WriterMoves
<1>7. clean' = Spared(h) \cup (IF Open = <<>> THEN {D} ELSE {}) /\ Spared(h) \subseteq clean
  BY <1>d, SparedOthers DEF Inv, WriteHead
<1>8. D \in clean' => Open' = << <<D, "head">> >>
  BY <1>d, <1>2, <1>5, <1>7, AppendPieces
<1>9. Len(file') >= Len(file)
  BY <1>d, <1>1, <1>5 DEF FileTyped
<1>10. UNCHANGED <<store, up, memory, rows, events, tried, acked, crashes>>
  BY <1>d DEF WriteHead
<1> QED
  BY <1>d, <1>1, <1>2, <1>5, <1>6, <1>7, <1>8, <1>9, <1>10, WriteKeeps

\* The tail completes the line of an append that is still clean.
LEMMA WriteTailKeeps == ASSUME Inv, NEW h \in Handler, WriteTail(h) PROVE Inv'
<1>1. FileTyped /\ WriterTyped /\ Writing(h) /\ writer[h].next = "tail"
  BY TypedParts DEF Inv, WriteTail, Writing
<1>d. PICK D \in Decision : writer[h].decision = D
  BY <1>1, WriterFields
<1>2. D \in Decision /\ <<D, "tail">> \in Piece /\ D \notin acked
  BY <1>d, <1>1 DEF Inv, Pending, TypeOK, Piece
<1>3. file' = Extended(<<D, "tail">>)
  BY <1>d DEF WriteTail
<1>4. writer' = [writer EXCEPT ![h] = [decision |-> D, next |-> "newline"]]
  BY <1>d, <1>1, WriterAdvances DEF WriteTail
<1>5. D \in clean => Open = << <<D, "head">> >>
  BY <1>d, <1>1 DEF Inv, OwnLine
<1>6. /\ FileTyped' /\ Len(file') = Len(file) /\ Open' = Append(Open, <<D, "tail">>)
      /\ \A i \in 1 .. Len(file) - 1 : file'[i] = file[i]
  BY <1>d, <1>1, <1>2, <1>3, ExtendedFile
<1>7. /\ WriterTyped' /\ writer'[h].decision = D /\ writer'[h].next = "newline"
      /\ \A g \in Handler \ {h} : writer'[g] = writer[g]
  BY <1>d, <1>1, <1>2, <1>4, WriterMoves
<1>8. clean' = Spared(h) /\ Spared(h) \subseteq clean
  BY <1>d, SparedOthers DEF Inv, WriteTail
<1>9. D \in clean' => Open' = Whole(D)
  <2>1. <<D, "head">> \in Piece
    BY <1>d DEF Piece
  <2> QED
    BY <2>1, <1>d, <1>2, <1>5, <1>6, <1>8, AppendPieces DEF Whole
<1>10. Len(file') >= Len(file)
  BY <1>d, <1>1, <1>6 DEF FileTyped
<1>11. UNCHANGED <<store, up, memory, rows, events, tried, acked, crashes>>
  BY <1>d DEF WriteTail
<1> QED
  BY <1>d, <1>1, <1>2, <1>6, <1>7, <1>8, <1>9, <1>10, <1>11, WriteKeeps

\* The newline closes the line, and the append is acknowledged.
LEMMA WriteNewlineKeeps == ASSUME Inv, NEW h \in Handler, WriteNewline(h) PROVE Inv'
<1>1. FileTyped /\ WriterTyped /\ Writing(h) /\ writer[h].next = "newline"
  BY TypedParts DEF Inv, WriteNewline, Writing
<1>d. PICK D \in Decision : writer[h].decision = D
  BY <1>1, WriterFields
<1>2. D \in clean => Open = Whole(D)
  BY <1>d, <1>1 DEF Inv, OwnLine
<1>3. /\ FileTyped' /\ Len(file') = Len(file) + 1 /\ file[Len(file)] = Open
      /\ \A i \in 1 .. Len(file) : file'[i] = file[i]
  BY <1>d, <1>1, NewLine DEF WriteNewline
<1>4. writer'[h] = Idle /\ ~Writing(h)' /\ WriterTyped' /\ \A g \in Handler \ {h} : writer'[g] = writer[g]
  BY <1>d, <1>1, WriterStops DEF WriteNewline
<1>5. acked' = acked \cup {D} /\ clean' = Spared(h) /\ Spared(h) \subseteq clean
  BY <1>d, SparedOthers DEF Inv, WriteNewline
<1>6. UNCHANGED <<store, up, memory, rows, events, tried, crashes>>
  BY <1>d DEF WriteNewline
<1>7. Len(file) \in Nat \ {0}
  BY <1>d, <1>1 DEF FileTyped
<1>8. D \in clean' => Written(D)'
  <2> SUFFICES ASSUME D \in clean PROVE Written(D)'
    BY <1>d, <1>5
  <2>1. PICK n \in Nat : n = Len(file)
    BY <1>d, <1>7
  <2>2. n \in 1 .. Len(file') - 1 /\ file'[n] = Whole(D)
    BY <1>d, <2>1, <1>2, <1>3, <1>7
  <2> QED
    BY <1>d, <2>2 DEF Written, Whole
<1>9. Len(file') >= Len(file) /\ \A i \in 1 .. Len(file) - 1 : file'[i] = file[i]
  BY <1>d, <1>3, <1>7
<1> QED
  BY <1>d, <1>1, <1>3, <1>4, <1>5, <1>6, <1>8, <1>9, WriteKeeps DEF Idle

\* A write that fails leaves the decision in memory, unacknowledged.
LEMMA WriteFailsKeeps == ASSUME Inv, NEW h \in Handler, WriteFails(h) PROVE Inv'
<1>1. FileTyped /\ WriterTyped /\ Writing(h)
  BY TypedParts, WriterFields DEF Inv, WriteFails
<1>d. PICK D \in Decision : writer[h].decision = D
  BY <1>1, WriterFields
<1>2. writer'[h] = Idle /\ ~Writing(h)' /\ WriterTyped' /\ \A g \in Handler \ {h} : writer'[g] = writer[g]
  BY <1>1, WriterStops DEF WriteFails
<1>3. UNCHANGED <<store, up, memory, rows, events, tried, acked, crashes>>
  BY DEF WriteFails
<1>4. D \notin acked
  BY <1>1, <1>d DEF Inv, Pending
<1>5. CASE file' = file /\ clean' = clean
  <2>1. TypeOK'
    BY <1>2, <1>3, <1>5 DEF Inv, TypeOK, WriterTyped
  <2>2. \A g \in Handler : Writing(g)' => g # h /\ Writing(g) /\ writer'[g] = writer[g]
    BY <1>2 DEF Writing
  <2>3. Pending'
    BY <2>2, <1>3, <1>5 DEF Inv, Pending
  <2>4. OwnLine'
    BY <2>2, <1>5 DEF Inv, OwnLine, Open, Whole
  <2>5. LinesKept'
    BY <1>3, <1>5 DEF Inv, LinesKept, Written, Whole
  <2>6. MemoryKept'
    BY <1>3, <1>5 DEF Inv, MemoryKept
  <2> QED
    BY <2>1, <2>3, <2>4, <2>5, <2>6 DEF Inv
<1>6. CASE file' = Extended(<<writer[h].decision, "cut">>) /\ clean' = Spared(h)
  <2>1. <<D, "cut">> \in Piece /\ file' = Extended(<<D, "cut">>)
    BY <1>d, <1>6 DEF Piece
  <2>2. FileTyped' /\ Len(file') = Len(file) /\ \A i \in 1 .. Len(file) - 1 : file'[i] = file[i]
    BY <1>1, <2>1, ExtendedFile
  <2>3. Len(file') >= Len(file)
    BY <1>1, <2>2 DEF FileTyped
  <2>4. writer'[h].next = "none"
    BY <1>2 DEF Idle
  <2>5. clean' \subseteq Spared(h) \cup {D} /\ acked \subseteq acked' /\ acked' \subseteq acked \cup {D}
    BY <1>3, <1>6
  <2>6. D \notin acked'
    BY <1>3, <1>4
  <2> QED
    BY <1>1, <1>d, <1>2, <1>3, <2>2, <2>3, <2>4, <2>5, <2>6, WriteKeeps
<1> QED
  BY <1>5, <1>6 DEF WriteFails

LEMMA CrashKeeps == ASSUME Inv, Crash PROVE Inv'
<1>1. \A h \in Handler : writer'[h] = Idle /\ ~Writing(h)'
  BY DEF Crash, Writing, Idle
<1>2. crashes' \in 0 .. MaxCrashes
  BY StoreAssumption DEF Crash, Inv, TypeOK
<1>3. writer' \in [Handler -> {Idle} \cup [decision : Decision, next : {"head", "tail", "newline"}]]
  BY DEF Crash
<1>4. TypeOK'
  BY <1>2, <1>3 DEF Crash, Inv, TypeOK
<1>5. Pending' /\ OwnLine'
  BY <1>1 DEF Pending, OwnLine
<1>6. LinesKept'
  BY DEF Crash, Inv, LinesKept, Written, Whole
<1>7. MemoryKept'
  BY DEF Crash, Inv, MemoryKept
<1> QED
  BY <1>4, <1>5, <1>6, <1>7 DEF Inv

\* What was kept is read back.
LEMMA RestartKeeps == ASSUME Inv, Restart PROVE Inv'
<1>1. FileTyped
  BY TypedParts DEF Inv
<1>2. memory' \subseteq Decision \X Decision
  BY <1>1, RehydratedTyped DEF Restart
<1>3. TypeOK'
  BY <1>2 DEF Restart, Inv, TypeOK
<1>4. \A h \in Handler : ~Writing(h) /\ ~Writing(h)'
  BY DEF Restart, Inv, Pending, Writing
<1>5. Pending' /\ OwnLine'
  BY <1>4 DEF Pending, OwnLine
<1>6. LinesKept'
  BY DEF Restart, Inv, LinesKept, Written, Whole
<1>7. store = "jsonl" => \A d \in acked \cap clean : <<d, d>> \in memory'
  <2> SUFFICES ASSUME store = "jsonl", NEW d \in acked \cap clean PROVE <<d, d>> \in memory'
    OBVIOUS
  <2>1. d \in Decision /\ Written(d)
    BY DEF Inv, TypeOK, LinesKept
  <2> QED
    BY <2>1, <1>1, WrittenRead DEF Restart
<1>8. MemoryKept'
  BY <1>7 DEF Restart, Inv, MemoryKept
<1> QED
  BY <1>3, <1>5, <1>6, <1>8 DEF Inv

LEMMA StutterKeeps == ASSUME Inv, UNCHANGED vars PROVE Inv'
<1>1. TypeOK'
  BY DEF vars, Inv, TypeOK
<1>2. acked' \cap tried = acked
  BY DEF vars, Inv, TypeOK
<1> QED
  BY <1>1, <1>2, QuietKeeps DEF vars, Inv, MemoryKept

LEMMA StepKeeps == Inv /\ [Next]_vars => Inv'
<1> SUFFICES ASSUME Inv, [Next]_vars PROVE Inv'
  OBVIOUS
<1>1. CASE UNCHANGED vars
  BY <1>1, StutterKeeps
<1>2. ASSUME NEW h \in Handler, NEW d \in Decision,
             RecordInMemory(h, d) \/ RecordRow(h, d) \/ RecordRowFails(h, d) \/ StartAppend(h, d)
      PROVE  Inv'
  BY <1>2, RecordInMemoryKeeps, RecordRowKeeps, RecordRowFailsKeeps, StartAppendKeeps
<1>3. ASSUME NEW h \in Handler, WriteHead(h) \/ WriteTail(h) \/ WriteNewline(h) \/ WriteFails(h)
      PROVE  Inv'
  BY <1>3, WriteHeadKeeps, WriteTailKeeps, WriteNewlineKeeps, WriteFailsKeeps
<1>4. ASSUME NEW subject \in Subject,
             \/ RecordRuntimeSnapshot(subject)
             \/ RecordResidentEvent(subject)
             \/ RecordStagingEvent(subject)
             \/ RecordActionPlanEvent(subject)
      PROVE  Inv'
  BY <1>4, InsertsKeeps
     DEF Table, RecordRuntimeSnapshot, RecordResidentEvent, RecordStagingEvent, RecordActionPlanEvent
<1>5. CASE Crash
  BY <1>5, CrashKeeps
<1>6. CASE Restart
  BY <1>6, RestartKeeps
<1> QED
  BY <1>1, <1>2, <1>3, <1>4, <1>5, <1>6 DEF Next

LEMMA SpecInv == Spec => []Inv
BY InitEstablishes, StepKeeps, PTL DEF Spec

LEMMA KeptServed == ASSUME Inv, up PROVE Kept \subseteq Served
<1> SUFFICES ASSUME NEW d \in Kept PROVE d \in Stored
  BY DEF Served
<1>1. CASE store = "sqlite"
  BY <1>1 DEF Kept, Stored, Inv, MemoryKept
<1>2. CASE store = "jsonl"
  <2>1. <<d, d>> \in memory
    BY <1>2 DEF Kept, Inv, MemoryKept
  <2> QED
    BY <1>2, <2>1 DEF Stored
<1>3. CASE store = "memory"
  BY <1>3 DEF Kept
<1> QED
  BY <1>1, <1>2, <1>3 DEF Inv, TypeOK

-----------------------------------------------------------------------------
(* The theorems.                                                           *)

\* Every variable has its type.
THEOREM StoreTyped == Spec => []TypeOK
<1>1. Inv => TypeOK
  BY DEF Inv
<1> QED
  BY <1>1, SpecInv, PTL

\* An acknowledged append that nothing wrote into is one whole line of the file for good,
\* whatever was torn before it, fails or crashes after it
\* (JsonlDecisionLog::record_decision).
THEOREM CleanAppendsKept == Spec => []CleanAppendsWhole
<1>1. Inv => CleanAppendsWhole
  BY DEF Inv, LinesKept, Written, CleanAppendsWhole
<1> QED
  BY <1>1, SpecInv, PTL

\* A process that runs serves every decision no restart may lose: those SQLite
\* acknowledged, and those of the JSONL log whose append was clean (get_decision,
\* JsonlDecisionLog::new).
THEOREM KeptDecisionsServed == Spec => [](up => Kept \subseteq Served)
<1>1. Inv => (up => Kept \subseteq Served)
  BY KeptServed
<1> QED
  BY <1>1, SpecInv, PTL

-----------------------------------------------------------------------------
(* What readers see is a DecisionJournal.                                  *)

\* A file only ever holds pieces of decisions handed to record_decision, and so does the table.
Sourced ==
  /\ rows \subseteq tried
  /\ file \in Seq(Seq(tried \X {"head", "tail", "cut"}))

LEMMA LatestFinite ==
  ASSUME NEW S \in SUBSET Nat, IsFiniteSet(S), NEW id \in Nat
  PROVE  /\ IsFiniteSet({row \in S : row >= id})
         /\ Cardinality({row \in S : row >= id}) \in Nat
<1>1. {row \in S : row >= id} \in SUBSET S
  OBVIOUS
<1> QED
  BY <1>1, FS_Subset, FS_CardinalityType

\* Every set of naturals that has an element has a least one.
LEMMA LeastNumber ==
  ASSUME NEW S \in SUBSET Nat, S # {}
  PROVE  \E n \in S : \A k \in S : n <= k
<1>1. PICK n \in S : \A k \in S : <<k, n>> \notin OpToRel(<, Nat)
  BY NatLessThanWellFounded, WFMin
<1>2. \A k \in S : ~ (k < n)
  BY <1>1 DEF OpToRel
<1> QED
  BY <1>2

\* ORDER BY id DESC LIMIT takes no more rows than the limit; it leaves a row out only when it
\* has taken as many as that, all of them newer.
LEMMA LatestLists ==
  ASSUME NEW S \in SUBSET Nat, IsFiniteSet(S), NEW limit \in Nat
  PROVE  /\ IsFiniteSet(Latest(S, limit)) /\ Cardinality(Latest(S, limit)) <= limit
         /\ \A id \in S \ Latest(S, limit) :
              /\ Cardinality(Latest(S, limit)) = limit
              /\ \A row \in Latest(S, limit) : row > id
<1> DEFINE From(id) == {row \in S : row >= id}
           N == Latest(S, limit)
<1>1. \A id \in S : IsFiniteSet(From(id)) /\ Cardinality(From(id)) \in Nat
  BY LatestFinite
<1>2. \A id : id \in N <=> id \in S /\ Cardinality(From(id)) <= limit
  BY DEF Latest
<1>3. N \in SUBSET S /\ IsFiniteSet(N) /\ Cardinality(N) \in Nat
  BY <1>2, FS_Subset, FS_CardinalityType
<1>4. ASSUME NEW id \in S, NEW row \in S, row >= id
      PROVE  /\ From(row) \in SUBSET From(id) /\ Cardinality(From(row)) <= Cardinality(From(id))
             /\ row # id => Cardinality(From(row)) < Cardinality(From(id))
  <2>1. From(row) \in SUBSET From(id)
    <3>1. id \in Nat /\ row \in Nat /\ \A other \in S : other \in Nat
      OBVIOUS
    <3>2. \A other \in S : other >= row => other >= id
      BY <1>4, <3>1
    <3> QED
      BY <3>2
  <2>2. row # id => id \in From(id) \ From(row)
    BY <1>4
  <2>3. IsFiniteSet(From(id)) /\ Cardinality(From(id)) \in Nat /\ Cardinality(From(row)) \in Nat
    BY <1>1
  <2> HIDE DEF From
  <2>4. /\ Cardinality(From(row)) <= Cardinality(From(id))
        /\ Cardinality(From(row)) = Cardinality(From(id)) => From(row) = From(id)
    BY <2>1, <2>3, FS_Subset
  <2> QED
    BY <2>1, <2>2, <2>3, <2>4
<1>5. \A id \in N, row \in S : row >= id => row \in N
  <2> SUFFICES ASSUME NEW id \in N, NEW row \in S, row >= id PROVE row \in N
    OBVIOUS
  <2>1. id \in S /\ Cardinality(From(id)) <= limit
    BY <1>2
  <2>2. Cardinality(From(row)) <= Cardinality(From(id))
    BY <1>4, <2>1
  <2>3. Cardinality(From(row)) \in Nat /\ Cardinality(From(id)) \in Nat
    BY <1>1, <2>1
  <2> HIDE DEF From, N
  <2> QED
    BY <1>2, <2>1, <2>2, <2>3
<1>6. Cardinality(N) <= limit
  <2>1. CASE N = {}
    BY <2>1, FS_EmptySet
  <2>2. CASE N # {}
    <3>1. N \in SUBSET Nat
      BY <1>3
    <3>2. PICK least \in N : \A row \in N : least <= row
      <4> HIDE DEF N
      <4> QED
        BY <2>2, <3>1, LeastNumber
    <3>3. least \in S /\ Cardinality(From(least)) <= limit
      BY <1>2
    <3>4. N \in SUBSET From(least)
      BY <1>3, <3>1, <3>2
    <3>5. IsFiniteSet(From(least)) /\ Cardinality(From(least)) \in Nat
      BY <1>1, <3>3
    <3> HIDE DEF From, N
    <3>6. Cardinality(N) <= Cardinality(From(least))
      BY <3>4, <3>5, FS_Subset
    <3> QED
      BY <1>3, <3>3, <3>5, <3>6
  <2> QED
    BY <2>1, <2>2
<1>7. ASSUME NEW id \in S \ N
      PROVE  /\ \A row \in N : row > id
             /\ Cardinality(N) = limit
  <2>1. \A row \in N : row > id
    <3> SUFFICES ASSUME NEW row \in N, ~ (row > id) PROVE FALSE
      OBVIOUS
    <3>1. row \in Nat /\ id \in Nat
      BY <1>3
    <3>2. id >= row
      BY <3>1
    <3> HIDE DEF N
    <3> QED
      BY <1>5, <3>2
  <2> DEFINE Sizes == {Cardinality(From(row)) : row \in S \ N}
  <2>2. PICK last \in S \ N : \A row \in S \ N : Cardinality(From(last)) <= Cardinality(From(row))
    <3>1. Sizes \in SUBSET Nat
      BY <1>1
    <3>2. Sizes # {}
      OBVIOUS
    <3>3. PICK size \in Sizes : \A other \in Sizes : size <= other
      <4> HIDE DEF Sizes
      <4> QED
        BY <3>1, <3>2, LeastNumber
    <3> QED
      BY <3>3
  <2>3. \A row \in From(last) : row = last \/ row \in N
    <3> SUFFICES ASSUME NEW row \in S, row >= last, row # last, row \notin N PROVE FALSE
      OBVIOUS
    <3>1. Cardinality(From(row)) < Cardinality(From(last))
      BY <1>4
    <3>2. Cardinality(From(last)) <= Cardinality(From(row))
      BY <2>2
    <3>3. Cardinality(From(last)) \in Nat /\ Cardinality(From(row)) \in Nat
      BY <1>1
    <3> HIDE DEF From
    <3> QED
      BY <3>1, <3>2, <3>3
  <2>4. \A row \in N : row >= last
    <3> SUFFICES ASSUME NEW row \in N, ~ (row >= last) PROVE FALSE
      OBVIOUS
    <3>1. row \in Nat /\ last \in Nat
      BY <1>3
    <3>2. last >= row
      BY <3>1
    <3> HIDE DEF N
    <3> QED
      BY <1>5, <3>2
  <2>5. From(last) = N \cup {last}
    <3>1. last \in From(last)
      OBVIOUS
    <3>2. N \subseteq From(last)
      BY <1>3, <2>4
    <3> HIDE DEF From, N
    <3> QED
      BY <2>3, <3>1, <3>2
  <2>6. Cardinality(From(last)) \in Nat /\ ~ (Cardinality(From(last)) <= limit)
    BY <1>1, <1>2
  <2> HIDE DEF From, N
  <2>7. Cardinality(From(last)) = Cardinality(N) + 1
    BY <1>3, <2>2, <2>5, FS_AddElement
  <2>8. Cardinality(N) = limit
    BY <1>3, <1>6, <2>6, <2>7
  <2> QED
    BY <2>1, <2>8
<1> QED
  BY <1>3, <1>6, <1>7

\* The newest of a set with a newer element is the newest of its newest with it.
LEMMA LatestAdd ==
  ASSUME NEW S \in SUBSET Nat, IsFiniteSet(S), NEW n \in Nat, \A id \in S : id <= n, NEW limit \in Nat
  PROVE  Latest(S \cup {n + 1}, limit) = Latest(Latest(S, limit) \cup {n + 1}, limit)
<1> DEFINE From(T, id) == {row \in T : row >= id}
           N == Latest(S, limit)
<1>1. N \in SUBSET S /\ IsFiniteSet(N)
  <2>1. N \in SUBSET S
    BY DEF Latest
  <2> QED
    BY <2>1, FS_Subset
<1>2. ASSUME NEW T \in SUBSET S, NEW id \in T
      PROVE  Cardinality(From(T \cup {n + 1}, id)) = Cardinality(From(T, id)) + 1
  <2>1. From(T \cup {n + 1}, id) = From(T, id) \cup {n + 1}
    OBVIOUS
  <2>2. n + 1 \notin From(T, id)
    OBVIOUS
  <2>3. IsFiniteSet(T)
    BY FS_Subset
  <2>4. IsFiniteSet(From(T, id))
    BY <2>3, LatestFinite
  <2> HIDE DEF From
  <2> QED
    BY <2>1, <2>2, <2>4, FS_AddElement
<1>3. ASSUME NEW T \in SUBSET S
      PROVE  From(T \cup {n + 1}, n + 1) = {n + 1}
  <2>1. \A row \in T : row \in Nat /\ row <= n
    OBVIOUS
  <2>2. \A row \in T : ~ (row >= n + 1)
    BY <2>1
  <2>3. n + 1 >= n + 1
    OBVIOUS
  <2> QED
    BY <2>2, <2>3
<1>4. ASSUME NEW id \in N
      PROVE  From(N, id) = From(S, id)
  <2> SUFFICES ASSUME NEW row \in From(S, id)
               PROVE  row \in N
    BY <1>1
  <2>1. From(S, row) \subseteq From(S, id)
    <3>1. id \in Nat /\ row \in Nat /\ row >= id
      BY <1>1
    <3>2. \A other \in S : other \in Nat
      OBVIOUS
    <3>3. \A other \in S : other >= row => other >= id
      BY <3>1, <3>2
    <3> QED
      BY <3>3
  <2>2. IsFiniteSet(From(S, id)) /\ Cardinality(From(S, id)) \in Nat /\ Cardinality(From(S, row)) \in Nat
    BY <1>1, LatestFinite
  <2>3. Cardinality(From(S, row)) <= Cardinality(From(S, id))
    BY <2>1, <2>2, FS_Subset
  <2>4. Cardinality(From(S, id)) <= limit
    BY DEF Latest
  <2>5. Cardinality(From(S, row)) <= limit
    BY <2>2, <2>3, <2>4
  <2> QED
    BY <2>5 DEF Latest
<1>5. \A id \in S : Cardinality(From(S, id)) \in Nat
  BY LatestFinite
<1>6. ASSUME NEW T, NEW id
      PROVE  id \in Latest(T, limit) <=> id \in T /\ Cardinality(From(T, id)) <= limit
  BY DEF Latest
<1> HIDE DEF From, N
<1>7. ASSUME NEW id \in S
      PROVE  id \in Latest(S \cup {n + 1}, limit) <=> id \in Latest(N \cup {n + 1}, limit)
  <2>1. CASE id \in N
    <3>1. /\ Cardinality(From(S \cup {n + 1}, id)) = Cardinality(From(S, id)) + 1
          /\ Cardinality(From(N \cup {n + 1}, id)) = Cardinality(From(N, id)) + 1
      BY <1>1, <1>2, <2>1
    <3> QED
      BY <1>4, <1>6, <2>1, <3>1
  <2>2. CASE id \notin N
    <3>1. id # n + 1
      OBVIOUS
    <3>2. ~ (Cardinality(From(S, id)) <= limit)
      BY <1>6, <2>2 DEF N
    <3>3. Cardinality(From(S \cup {n + 1}, id)) = Cardinality(From(S, id)) + 1
      BY <1>2
    <3>4. ~ (Cardinality(From(S \cup {n + 1}, id)) <= limit)
      BY <1>5, <3>2, <3>3
    <3> QED
      BY <1>6, <2>2, <3>1, <3>4
  <2> QED
    BY <2>1, <2>2
<1>8. n + 1 \in Latest(S \cup {n + 1}, limit) <=> n + 1 \in Latest(N \cup {n + 1}, limit)
  <2>1. From(S \cup {n + 1}, n + 1) = {n + 1} /\ From(N \cup {n + 1}, n + 1) = {n + 1}
    BY <1>1, <1>3
  <2>2. n + 1 \in S \cup {n + 1} /\ n + 1 \in N \cup {n + 1}
    OBVIOUS
  <2> QED
    BY <1>6, <2>1, <2>2
<1>9. Latest(S \cup {n + 1}, limit) \subseteq S \cup {n + 1} /\ Latest(N \cup {n + 1}, limit) \subseteq S \cup {n + 1}
  BY <1>1 DEF Latest
<1>10. \A id \in S \cup {n + 1} :
         id \in Latest(S \cup {n + 1}, limit) <=> id \in Latest(N \cup {n + 1}, limit)
  BY <1>7, <1>8
<1>11. Latest(S \cup {n + 1}, limit) = Latest(N \cup {n + 1}, limit)
  BY <1>9, <1>10
<1> QED
  BY <1>11 DEF N

\* The journal counts rows, the store their ids.
LEMMA NewestRows ==
  ASSUME NEW S \in SUBSET Nat, IsFiniteSet(S), NEW e
  PROVE  Journal!Newest({<<id, e[id]>> : id \in S})
           = {<<id, e[id]>> : id \in Latest(S, ClampLimit(TelemetryLimit(ReadLimit)))}
<1> DEFINE Row(id) == <<id, e[id]>>
           Rows == {Row(id) : id \in S}
           Limit == ClampLimit(TelemetryLimit(ReadLimit))
<1>1. ASSUME NEW id \in S
      PROVE  Cardinality({other \in Rows : other[1] >= id}) = Cardinality({row \in S : row >= id})
  <2> DEFINE A == {row \in S : row >= id}
             B == {other \in Rows : other[1] >= id}
             f == [row \in A |-> Row(row)]
  <2>1. IsFiniteSet(A)
    BY LatestFinite
  <2>2. B = {Row(row) : row \in A}
    OBVIOUS
  <2>3. f \in Bijection(A, B)
    BY <2>2, Fun_IsBij
  <2> HIDE DEF A, B, f
  <2> QED
    <3>1. Cardinality(B) = Cardinality(A)
      BY <2>1, <2>3, Fun_ExistsBij, FS_Bijection
    <3> QED
      BY <3>1 DEF A, B
<1>2. \A X : Journal!Cardinality(X) = Cardinality(X)
  BY DEF Journal!Cardinality, Cardinality
<1>3. Journal!Newest(Rows) = {row \in Rows : Cardinality({other \in Rows : other[1] >= row[1]}) <= Limit}
  BY <1>2 DEF Journal!Newest
<1>4. ASSUME NEW row
      PROVE  row \in Journal!Newest(Rows) <=> row \in {Row(id) : id \in Latest(S, Limit)}
  <2>1. row \in Journal!Newest(Rows)
          <=> row \in Rows /\ Cardinality({other \in Rows : other[1] >= row[1]}) <= Limit
    BY <1>3
  <2>2. row \in {Row(id) : id \in Latest(S, Limit)}
          <=> \E id \in S : row = Row(id) /\ Cardinality({r \in S : r >= id}) <= Limit
    BY DEF Latest
  <2>3. ASSUME NEW id \in S PROVE Row(id) \in Rows /\ Row(id)[1] = id
    OBVIOUS
  <2>4. row \in Rows <=> \E id \in S : row = Row(id)
    OBVIOUS
  <2> HIDE DEF Row, Rows, Limit
  <2>5. \A id \in S : row = Row(id) =>
          Cardinality({other \in Rows : other[1] >= row[1]}) = Cardinality({r \in S : r >= id})
    BY <1>1, <2>3
  <2> QED
    BY <2>1, <2>2, <2>4, <2>5
<1> QED
  BY <1>4

LEMMA PiecesGrow ==
  ASSUME NEW A, NEW B, A \subseteq B
  PROVE  Seq(Seq(A \X {"head", "tail", "cut"})) \subseteq Seq(Seq(B \X {"head", "tail", "cut"}))
<1>1. A \X {"head", "tail", "cut"} \subseteq B \X {"head", "tail", "cut"}
  OBVIOUS
<1>2. ASSUME NEW U, NEW V, U \subseteq V
      PROVE  Seq(U) \subseteq Seq(V)
  BY <1>2, SeqDef
<1> QED
  BY <1>1, <1>2

\* A line that parses begins with a piece of a decision somebody tried to record.
LEMMA RehydratedSourced ==
  ASSUME Sourced
  PROVE  {entry[1] : entry \in Rehydrated} \subseteq tried
<1> SUFFICES ASSUME NEW i \in 1 .. Len(file), Parses(file[i])
             PROVE  file[i][1][1] \in tried
  BY DEF Rehydrated
<1>1. file[i] \in Seq(tried \X {"head", "tail", "cut"}) /\ Len(file[i]) = 2
  BY DEF Sourced, Parses
<1>2. file[i][1] \in tried \X {"head", "tail", "cut"}
  BY <1>1
<1> QED
  BY <1>2

LEMMA ExtendedSourced ==
  ASSUME Sourced, FileTyped, NEW d \in tried, NEW kind \in {"head", "tail", "cut"},
         file' = Extended(<<d, kind>>)
  PROVE  file' \in Seq(Seq(tried \X {"head", "tail", "cut"}))
<1> DEFINE P == tried \X {"head", "tail", "cut"}
<1>1. file \in Seq(Seq(P)) /\ Len(file) \in Nat \ {0} /\ file[Len(file)] \in Seq(P)
  BY DEF Sourced, FileTyped
<1>2. <<d, kind>> \in P
  OBVIOUS
<1>3. Append(file[Len(file)], <<d, kind>>) \in Seq(P)
  BY <1>1, <1>2
<1> HIDE DEF P
<1>4. file' \in Seq(Seq(P))
  BY <1>1, <1>3 DEF Extended
<1> QED
  BY <1>4 DEF P

LEMMA SourcedKept == ASSUME Inv, Sourced, [Next]_vars PROVE Sourced'
<1>1. FileTyped /\ WriterTyped /\ Pending
  BY TypedParts DEF Inv
<1>2. ASSUME NEW h \in Handler, NEW d \in Decision,
             RecordInMemory(h, d) \/ RecordRow(h, d) \/ RecordRowFails(h, d) \/ StartAppend(h, d)
      PROVE  Sourced'
  <2>1. file' = file /\ tried' = tried \cup {d} /\ rows' \subseteq rows \cup {d}
    BY <1>2 DEF RecordInMemory, RecordRow, RecordRowFails, StartAppend, Begins
  <2>2. Seq(Seq(tried \X {"head", "tail", "cut"})) \subseteq Seq(Seq(tried' \X {"head", "tail", "cut"}))
    BY <2>1, PiecesGrow
  <2> QED
    BY <2>1, <2>2 DEF Sourced
<1>3. ASSUME NEW h \in Handler, WriteHead(h) \/ WriteTail(h) \/ WriteNewline(h) \/ WriteFails(h)
      PROVE  Sourced'
  <2>1. tried' = tried /\ rows' = rows /\ Writing(h)
    BY <1>1, <1>3, WriterFields DEF WriteHead, WriteTail, WriteNewline, WriteFails, Writing
  <2>2. writer[h].decision \in tried
    BY <1>1, <2>1 DEF Pending
  <2>3. \/ file' = file
        \/ file' = Append(file, <<>>)
        \/ \E kind \in {"head", "tail", "cut"} : file' = Extended(<<writer[h].decision, kind>>)
    BY <1>3 DEF WriteHead, WriteTail, WriteNewline, WriteFails
  <2>4. CASE file' = Append(file, <<>>)
    <3>1. <<>> \in Seq(tried \X {"head", "tail", "cut"})
      OBVIOUS
    <3>2. file' \in Seq(Seq(tried \X {"head", "tail", "cut"}))
      BY <2>4, <3>1 DEF Sourced
    <3> QED
      BY <2>1, <3>2 DEF Sourced
  <2>5. ASSUME NEW kind \in {"head", "tail", "cut"}, file' = Extended(<<writer[h].decision, kind>>)
        PROVE  Sourced'
    <3>1. file' \in Seq(Seq(tried \X {"head", "tail", "cut"}))
      BY <1>1, <2>2, <2>5, ExtendedSourced
    <3> QED
      BY <2>1, <3>1 DEF Sourced
  <2>6. CASE file' = file
    BY <2>1, <2>6 DEF Sourced
  <2> QED
    BY <2>3, <2>4, <2>5, <2>6
<1>4. ASSUME UNCHANGED <<file, tried, rows>> PROVE Sourced'
  BY <1>4 DEF Sourced
<1>5. ASSUME NEW subject \in Subject,
             \/ RecordRuntimeSnapshot(subject)
             \/ RecordResidentEvent(subject)
             \/ RecordStagingEvent(subject)
             \/ RecordActionPlanEvent(subject)
      PROVE  Sourced'
  BY <1>4, <1>5 DEF Inserts, RecordRuntimeSnapshot, RecordResidentEvent, RecordStagingEvent, RecordActionPlanEvent
<1>6. CASE Crash
  BY <1>4, <1>6 DEF Crash
<1>7. CASE Restart
  BY <1>4, <1>7 DEF Restart
<1>8. CASE UNCHANGED vars
  BY <1>4, <1>8 DEF vars
<1> QED
  BY <1>2, <1>3, <1>5, <1>6, <1>7, <1>8 DEF Next

\* What an insert adds to the rows a query matches.
LEMMA MatchingAppend ==
  ASSUME events \in [Table -> Seq(Subject)], NEW t \in Table, NEW subject \in Subject,
         events' = [events EXCEPT ![t] = Append(@, subject)], NEW about
  PROVE  /\ Matching(t, about)' = IF about \in {None, subject}
              THEN Matching(t, about) \cup {Len(events[t]) + 1} ELSE Matching(t, about)
         /\ \A id \in Matching(t, about) : events'[t][id] = events[t][id]
         /\ events'[t][Len(events[t]) + 1] = subject
<1> DEFINE n == Len(events[t])
<1>1. events[t] \in Seq(Subject) /\ events'[t] = Append(events[t], subject) /\ n \in Nat
  OBVIOUS
<1>2. /\ Len(events'[t]) = n + 1
      /\ \A id \in 1 .. n : events'[t][id] = events[t][id]
      /\ events'[t][n + 1] = subject
  BY <1>1
<1>3. 1 .. n + 1 = (1 .. n) \cup {n + 1}
  BY <1>1
<1> HIDE DEF n
<1>4. Matching(t, about)' = {id \in (1 .. n) \cup {n + 1} : about \in {None, events'[t][id]}}
  BY <1>2, <1>3 DEF Matching
<1>5. Matching(t, about) = {id \in 1 .. n : about \in {None, events[t][id]}}
  BY DEF Matching, n
<1>6. \A id \in Matching(t, about) : events'[t][id] = events[t][id]
  BY <1>2, <1>5
<1>7. Matching(t, about)' = IF about \in {None, subject}
        THEN Matching(t, about) \cup {n + 1} ELSE Matching(t, about)
  BY <1>2, <1>4, <1>5
<1> QED
  BY <1>2, <1>6, <1>7 DEF n

LEMMA MatchingFinite ==
  ASSUME events \in [Table -> Seq(Subject)], NEW t \in Table, NEW about
  PROVE  /\ Matching(t, about) \in SUBSET Nat /\ IsFiniteSet(Matching(t, about))
         /\ Len(events[t]) \in Nat /\ \A id \in Matching(t, about) : id <= Len(events[t])
<1>1. Len(events[t]) \in Nat
  OBVIOUS
<1>2. Matching(t, about) \in SUBSET (1 .. Len(events[t]))
  BY DEF Matching
<1>3. IsFiniteSet(1 .. Len(events[t]))
  BY <1>1, FS_Interval
<1> QED
  BY <1>1, <1>2, <1>3, FS_Subset

LEMMA LimitNat == ClampLimit(TelemetryLimit(ReadLimit)) \in Nat
<1>1. ASSUME NEW n \in Nat PROVE ClampLimit(n) \in Nat
  BY StoreAssumption DEF ClampLimit
<1>2. TelemetryLimit(ReadLimit) \in Nat
  BY <1>1, StoreAssumption DEF TelemetryLimit
<1> QED
  BY <1>1, <1>2

\* A query that asks for the subject of the new event lists it and drops what is beyond the limit.
LEMMA SelectedAppend ==
  ASSUME events \in [Table -> Seq(Subject)], NEW t \in Table, NEW subject \in Subject,
         events' = [events EXCEPT ![t] = Append(@, subject)], NEW about
  PROVE  LET limit == ClampLimit(TelemetryLimit(ReadLimit)) IN
         Selected(t, about, limit)' =
           IF about \in {None, subject}
             THEN Journal!Newest(Selected(t, about, limit) \cup {<<Len(events[t]) + 1, subject>>})
             ELSE Selected(t, about, limit)
<1> DEFINE limit == ClampLimit(TelemetryLimit(ReadLimit))
           n == Len(events[t])
           M == Matching(t, about)
           N == Latest(M, limit)
           Rows(ids) == {<<id, events'[t][id]>> : id \in ids}
<1>1. /\ M \in SUBSET Nat /\ IsFiniteSet(M) /\ n \in Nat /\ \A id \in M : id <= n
      /\ limit \in Nat
  BY MatchingFinite, LimitNat
<1>2. N \in SUBSET M
  BY DEF Latest
<1>3. \A id \in M : events'[t][id] = events[t][id]
  BY MatchingAppend
<1>4. Selected(t, about, limit) = Rows(N)
  BY <1>2, <1>3 DEF Selected
<1>5. Selected(t, about, limit)' = Rows(Latest(Matching(t, about)', limit))
  BY DEF Selected
<1>6. CASE about \in {None, subject}
  <2>1. Matching(t, about)' = M \cup {n + 1} /\ events'[t][n + 1] = subject
    BY <1>6, MatchingAppend
  <2>2. Rows(N) \cup {<<n + 1, subject>>} = Rows(N \cup {n + 1})
    BY <2>1
  <2>3. N \cup {n + 1} \in SUBSET Nat /\ IsFiniteSet(N \cup {n + 1})
    <3> HIDE DEF N, M, n
    <3>1. IsFiniteSet(N)
      BY <1>1, <1>2, FS_Subset
    <3>2. IsFiniteSet(N \cup {n + 1})
      BY <3>1, FS_AddElement
    <3> QED
      BY <1>1, <1>2, <3>2
  <2>4. Latest(M \cup {n + 1}, limit) = Latest(N \cup {n + 1}, limit)
    <3> HIDE DEF M, n, limit
    <3> QED
      BY <1>1, LatestAdd DEF N
  <2>5. PICK e : e = events'[t]
    OBVIOUS
  <2>6. Journal!Newest(Rows(N \cup {n + 1})) = Rows(Latest(N \cup {n + 1}, limit))
    <3> HIDE DEF N, n
    <3>1. Journal!Newest({<<id, e[id]>> : id \in N \cup {n + 1}})
            = {<<id, e[id]>> : id \in Latest(N \cup {n + 1}, limit)}
      BY <2>3, NewestRows
    <3> QED
      BY <2>5, <3>1
  <2> HIDE DEF Rows, N, M, n, limit
  <2> QED
    BY <1>4, <1>5, <1>6, <2>1, <2>2, <2>4, <2>6 DEF Rows, N, M, n, limit
<1>7. CASE about \notin {None, subject}
  <2>1. Matching(t, about)' = M
    BY <1>7, MatchingAppend
  <2> HIDE DEF Rows, N
  <2> QED
    BY <1>4, <1>5, <1>7, <2>1 DEF N
<1> QED
  BY <1>6, <1>7

\* An event shows up at the head of the lists it belongs to, and of no other.
LEMMA InsertNotes ==
  ASSUME TypeOK, NEW t \in Table, NEW subject \in Subject, Inserts(t, subject)
  PROVE  Journal!Note(t, subject)
<1> DEFINE limit == ClampLimit(TelemetryLimit(ReadLimit))
           noted == [table \in Table |-> Len(events[table])]
<1>1. /\ up /\ events \in [Table -> Seq(Subject)]
      /\ events' = [events EXCEPT ![t] = Append(@, subject)]
  BY DEF TypeOK, Inserts
<1>2. UNCHANGED <<up, tried, Served, Kept>>
  <2>1. UNCHANGED <<store, up, memory, rows, tried, acked, clean>>
    BY DEF Inserts
  <2>2. Served' = Served /\ Kept' = Kept
    BY <2>1 DEF Served, Stored, Kept
  <2> QED
    BY <2>1, <2>2
<1>3. noted' = [noted EXCEPT ![t] = @ + 1] /\ noted'[t] = Len(events[t]) + 1
  <2>1. Len(events'[t]) = Len(events[t]) + 1
    BY <1>1
  <2>2. \A table \in Table \ {t} : events'[table] = events[table]
    BY <1>1
  <2>3. \A table \in Table : Len(events'[table]) = IF table = t THEN Len(events[t]) + 1 ELSE Len(events[table])
    BY <2>1, <2>2
  <2> QED
    BY <2>3
<1>4. ASSUME NEW q \in Query
      PROVE  Selected(q[1], q[2], limit)' =
               IF q \in {<<t, subject>>, <<t, None>>}
                 THEN Journal!Newest(Selected(q[1], q[2], limit) \cup {<<Len(events[t]) + 1, subject>>})
                 ELSE Selected(q[1], q[2], limit)
  <2>1. q[1] \in Table /\ q = <<q[1], q[2]>>
    BY DEF Query
  <2>2. CASE q[1] = t
    <3>1. q \in {<<t, subject>>, <<t, None>>} <=> q[2] \in {None, subject}
      BY <2>1, <2>2
    <3>2. PICK about : about = q[2]
      OBVIOUS
    <3>3. Selected(t, about, limit)' =
            IF about \in {None, subject}
              THEN Journal!Newest(Selected(t, about, limit) \cup {<<Len(events[t]) + 1, subject>>})
              ELSE Selected(t, about, limit)
      BY <1>1, SelectedAppend
    <3> QED
      BY <2>2, <3>1, <3>2, <3>3
  <2>3. CASE q[1] # t
    <3>1. q \notin {<<t, subject>>, <<t, None>>}
      BY <2>1, <2>3
    <3>2. events'[q[1]] = events[q[1]]
      BY <1>1, <2>1, <2>3
    <3>3. Selected(q[1], q[2], limit)' = Selected(q[1], q[2], limit)
      BY <3>2 DEF Selected, Matching
    <3> QED
      BY <3>1, <3>3
  <2> QED
    BY <2>2, <2>3
<1>5. Listed' = [q \in Query |->
        IF q \in {<<t, subject>>, <<t, None>>}
          THEN Journal!Newest(Listed[q] \cup {<<noted'[t], subject>>}) ELSE Listed[q]]
  <2>1. Listed = [q \in Query |-> Selected(q[1], q[2], limit)]
    BY DEF Listed
  <2>2. Listed' = [q \in Query |-> Selected(q[1], q[2], limit)']
    BY DEF Listed
  <2>3. \A q \in Query : Listed[q] = Selected(q[1], q[2], limit)
    BY <2>1
  <2> HIDE DEF limit, noted
  <2>4. \A q \in Query : Selected(q[1], q[2], limit)' =
          IF q \in {<<t, subject>>, <<t, None>>}
            THEN Journal!Newest(Listed[q] \cup {<<noted'[t], subject>>}) ELSE Listed[q]
    BY <1>3, <1>4, <2>3
  <2> QED
    BY <2>2, <2>4
<1> QED
  BY <1>1, <1>2, <1>3, <1>5 DEF Journal!Note

KeptIsServed == up => Kept \subseteq Served

\* What readers find depends on these alone.
LEMMA QuietJournal ==
  ASSUME UNCHANGED <<store, up, memory, rows, events, tried>>, Kept' = Kept
  PROVE  UNCHANGED Journal!vars
<1>1. Served' = Served
  BY DEF Served, Stored
<1>2. Listed' = Listed
  BY DEF Listed, Selected, Matching
<1> QED
  BY <1>1, <1>2 DEF Journal!vars

LEMMA RecordJournal ==
  ASSUME Inv, up, NEW d \in Decision, UNCHANGED <<up, events>>, tried' = tried \cup {d},
         Served' \in {Served, Served \cup {d}}, Kept' \in {Kept, Kept \cup {d}}, Kept' \subseteq Served'
  PROVE  Journal!Next
<1>1. Listed' = Listed
  BY DEF Listed, Selected, Matching
<1>2. Journal!Record(d)
  BY <1>1 DEF Journal!Record
<1> QED
  BY <1>2 DEF Journal!Next

LEMMA AppendJournal ==
  ASSUME Inv, NEW h \in Handler, WriteHead(h) \/ WriteTail(h) \/ WriteNewline(h) \/ WriteFails(h)
  PROVE  [Journal!Next]_(Journal!vars)
<1>1. FileTyped /\ WriterTyped /\ Pending /\ TypeOK
  BY TypedParts DEF Inv
<1>2. Writing(h)
  BY <1>1, WriterFields DEF WriteHead, WriteTail, WriteNewline, WriteFails, Writing
<1>3. PICK d \in Decision : d = writer[h].decision
  BY <1>1, <1>2, WriterFields
<1>4. /\ up /\ store = "jsonl" /\ d \in tried \ acked /\ <<d, d>> \in memory
  BY <1>1, <1>2, <1>3 DEF Pending
<1>5. Kept = acked \cap clean /\ Served = {entry[1] : entry \in memory}
  BY <1>4 DEF Kept, Served, Stored
<1>6. acked \cap Spared(h) = acked \cap clean
  <2>1. ASSUME NEW g \in Handler, writer[g].next # "head", writer[g].decision \in Decision
        PROVE  writer[g].decision \notin acked
    <3>1. Writing(g)
      <4>1. ~Writing(g) => writer[g] = Idle
        BY <1>1, WriterFields
      <4>2. Idle.decision = None /\ None \notin Decision
        BY StoreAssumption DEF Idle
      <4> QED
        BY <2>1, <4>1, <4>2
    <3> QED
      BY <1>1, <3>1 DEF Pending
  <2>2. acked \subseteq Decision
    BY <1>1 DEF TypeOK
  <2> QED
    BY <2>1, <2>2 DEF Spared
<1>7. CASE WriteHead(h)
  <2>1. UNCHANGED <<store, up, memory, rows, events, tried, acked>> /\ clean' \in {Spared(h), Spared(h) \cup {d}}
    BY <1>3, <1>7 DEF WriteHead
  <2>2. acked \cap clean' = acked \cap clean
    BY <1>4, <1>6, <2>1
  <2>3. Kept' = Kept
    BY <1>4, <1>5, <2>1, <2>2 DEF Kept
  <2> QED
    BY <2>1, <2>3, QuietJournal
<1>8. CASE WriteTail(h)
  <2>1. UNCHANGED <<store, up, memory, rows, events, tried, acked>> /\ clean' = Spared(h)
    BY <1>8 DEF WriteTail
  <2>2. Kept' = Kept
    BY <1>4, <1>5, <1>6, <2>1 DEF Kept
  <2> QED
    BY <2>1, <2>2, QuietJournal
<1>9. CASE WriteNewline(h)
  <2>1. UNCHANGED <<store, up, memory, rows, events, tried>> /\ acked' = acked \cup {d} /\ clean' = Spared(h)
    BY <1>3, <1>9 DEF WriteNewline
  <2>2. Kept' = acked' \cap clean'
    BY <1>4, <2>1 DEF Kept
  <2>3. Kept' \in {Kept, Kept \cup {d}}
    BY <1>5, <1>6, <2>1, <2>2
  <2>4. Served' = Served /\ d \in Served
    <3>1. d = <<d, d>>[1]
      OBVIOUS
    <3>2. Served' = Served
      BY <2>1 DEF Served, Stored
    <3> QED
      BY <1>4, <1>5, <3>1, <3>2
  <2>5. Kept \subseteq Served
    BY <1>4, KeptServed
  <2>6. Kept' \subseteq Served'
    BY <2>3, <2>4, <2>5
  <2>7. tried' = tried \cup {d} /\ UNCHANGED <<up, events>>
    BY <1>4, <2>1
  <2> QED
    BY <1>4, <2>3, <2>4, <2>6, <2>7, RecordJournal
<1>10. CASE WriteFails(h)
  <2>1. UNCHANGED <<store, up, memory, rows, events, tried, acked>> /\ clean' \in {clean, Spared(h)}
    BY <1>10 DEF WriteFails
  <2>2. acked \cap clean' = acked \cap clean
    BY <1>6, <2>1
  <2>3. Kept' = Kept
    BY <1>4, <1>5, <2>1, <2>2 DEF Kept
  <2> QED
    BY <2>1, <2>3, QuietJournal
<1> QED
  BY <1>7, <1>8, <1>9, <1>10

LEMMA RecordingJournal ==
  ASSUME Inv, KeptIsServed', NEW h \in Handler, NEW d \in Decision,
         RecordInMemory(h, d) \/ RecordRow(h, d) \/ RecordRowFails(h, d) \/ StartAppend(h, d)
  PROVE  Journal!Next
<1>1. /\ up /\ d \notin tried /\ tried' = tried \cup {d}
      /\ UNCHANGED <<store, up, events, clean>>
  BY DEF RecordInMemory, RecordRow, RecordRowFails, StartAppend, Begins
<1>2. Kept' \subseteq Served'
  BY <1>1 DEF KeptIsServed
<1>3. acked \subseteq tried
  BY DEF Inv, TypeOK
<1>4. d = <<d, d>>[1]
  OBVIOUS
<1>5. Served' \in {Served, Served \cup {d}} /\ Kept' \in {Kept, Kept \cup {d}}
  <2>1. CASE RecordInMemory(h, d)
    BY <1>1, <1>4, <2>1 DEF RecordInMemory, Served, Stored, Kept
  <2>2. CASE RecordRow(h, d)
    BY <1>1, <2>2 DEF RecordRow, Served, Stored, Kept
  <2>3. CASE RecordRowFails(h, d)
    BY <1>1, <2>3 DEF RecordRowFails, Served, Stored, Kept
  <2>4. CASE StartAppend(h, d)
    BY <1>1, <1>4, <2>4 DEF StartAppend, Served, Stored, Kept
  <2> QED
    BY <2>1, <2>2, <2>3, <2>4
<1> QED
  BY <1>1, <1>2, <1>5, RecordJournal

LEMMA CrashJournal == ASSUME Inv, Crash PROVE Journal!Next
<1>1. up /\ ~up' /\ up' = FALSE /\ UNCHANGED <<store, rows, events, tried, acked, clean>>
  BY DEF Crash
<1>2. Served' = {} /\ Kept' = Kept
  BY <1>1 DEF Served, Kept
<1>3. Listed' = Listed
  BY <1>1 DEF Listed, Selected, Matching
<1> QED
  BY <1>1, <1>2, <1>3 DEF Journal!Next, Journal!Crash

LEMMA RestartJournal == ASSUME Inv, Sourced, KeptIsServed', Restart PROVE Journal!Next
<1>1. ~up /\ up' = TRUE /\ UNCHANGED <<store, rows, events, tried, acked, clean>>
  BY DEF Restart
<1>2. Kept' = Kept /\ Listed' = Listed
  <2>1. Kept' = Kept
    BY <1>1 DEF Kept
  <2>2. Listed' = Listed
    BY <1>1 DEF Listed, Selected, Matching
  <2> QED
    BY <2>1, <2>2
<1>3. Kept' \subseteq Served'
  BY <1>1 DEF KeptIsServed
<1>4. Served' \in SUBSET tried
  <2>1. CASE store = "sqlite"
    BY <1>1, <2>1 DEF Served, Stored, Sourced
  <2>2. CASE store = "jsonl"
    <3>1. memory' = Rehydrated
      BY <2>2 DEF Restart
    <3> QED
      BY <1>1, <2>2, <3>1, RehydratedSourced DEF Served, Stored
  <2>3. CASE store = "memory"
    <3>1. memory' = {}
      BY <2>3 DEF Restart
    <3> QED
      BY <1>1, <2>3, <3>1 DEF Served, Stored
  <2> QED
    BY <2>1, <2>2, <2>3 DEF Inv, TypeOK
<1>5. Kept \subseteq Served'
  BY <1>2, <1>3
<1> QED
  BY <1>1, <1>2, <1>4, <1>5 DEF Journal!Next, Journal!Restart

\* Whichever store is behind it, the decision log is to its readers a DecisionJournal: what
\* it serves it serves until the process dies, a restart brings back all that was kept and
\* nothing nobody tried to record, and each query of the events lists the newest ones
\* (DecisionLogStore and its three implementations).
THEOREM StoreRefinesJournal == Spec => ImplementsJournal
<1>1. Init => Journal!Init
  <2> SUFFICES ASSUME Init PROVE Journal!Init
    OBVIOUS
  <2>1. Served = {} /\ Kept = {}
    BY DEF Init, Served, Stored, Kept
  <2>2. \A t \in Table : events[t] = <<>> /\ Len(events[t]) = 0
    BY DEF Init
  <2>3. Listed = [q \in Query |-> {}]
    <3>1. \A q \in Query : Matching(q[1], q[2]) = {}
      BY <2>2 DEF Query, Matching
    <3> QED
      BY <3>1 DEF Listed, Selected, Latest
  <2> QED
    BY <2>1, <2>2, <2>3 DEF Init, Journal!Init
<1>2. Init => Sourced
  BY DEF Init, Sourced
<1>3. Inv /\ Sourced /\ [Next]_vars => Sourced'
  BY SourcedKept
<1>4. Inv /\ Sourced /\ KeptIsServed' /\ [Next]_vars => [Journal!Next]_(Journal!vars)
  <2> SUFFICES ASSUME Inv, Sourced, KeptIsServed', [Next]_vars
               PROVE  [Journal!Next]_(Journal!vars)
    OBVIOUS
  <2>1. ASSUME NEW h \in Handler, NEW d \in Decision,
               RecordInMemory(h, d) \/ RecordRow(h, d) \/ RecordRowFails(h, d) \/ StartAppend(h, d)
        PROVE  Journal!Next
    BY <2>1, RecordingJournal
  <2>2. ASSUME NEW h \in Handler, WriteHead(h) \/ WriteTail(h) \/ WriteNewline(h) \/ WriteFails(h)
        PROVE  [Journal!Next]_(Journal!vars)
    BY <2>2, AppendJournal
  <2>3. ASSUME NEW t \in Table, NEW subject \in Subject, Inserts(t, subject)
        PROVE  Journal!Next
    BY <2>3, InsertNotes DEF Journal!Next, Inv
  <2>4. ASSUME NEW subject \in Subject,
               \/ RecordRuntimeSnapshot(subject)
               \/ RecordResidentEvent(subject)
               \/ RecordStagingEvent(subject)
               \/ RecordActionPlanEvent(subject)
        PROVE  Journal!Next
    BY <2>3, <2>4
       DEF Table, RecordRuntimeSnapshot, RecordResidentEvent, RecordStagingEvent, RecordActionPlanEvent
  <2>5. CASE Crash
    BY <2>5, CrashJournal
  <2>6. CASE Restart
    BY <2>6, RestartJournal
  <2>7. CASE UNCHANGED vars
    <3>1. UNCHANGED <<store, up, memory, rows, events, tried, acked, clean>>
      BY <2>7 DEF vars
    <3>2. Kept' = Kept
      BY <3>1 DEF Kept
    <3> QED
      BY <3>1, <3>2, QuietJournal
  <2> QED
    BY <2>1, <2>2, <2>4, <2>5, <2>6, <2>7 DEF Next
<1>5. Inv => KeptIsServed
  BY KeptServed DEF KeptIsServed
<1> QED
  BY <1>1, <1>2, <1>3, <1>4, <1>5, SpecInv, PTL DEF Spec, ImplementsJournal, Journal!Spec

\* Nobody is ever served a decision that nobody tried to record, whichever records were torn
\* or interleaved in the file a restart reads back (JsonlDecisionLog::new).
THEOREM NothingInvented == Spec => [](Served \subseteq tried)
<1>1. Journal!Init => Served \subseteq tried
  BY DEF Journal!Init
<1>2. Served \subseteq tried /\ [Journal!Next]_(Journal!vars) => (Served \subseteq tried)'
  <2> SUFFICES ASSUME Served \subseteq tried, [Journal!Next]_(Journal!vars)
               PROVE  (Served \subseteq tried)'
    OBVIOUS
  <2>1. CASE \E d \in Decision : Journal!Record(d)
    BY <2>1 DEF Journal!Record
  <2>2. CASE \E t \in Table, subject \in Subject : Journal!Note(t, subject)
    BY <2>2 DEF Journal!Note
  <2>3. CASE Journal!Crash
    BY <2>3 DEF Journal!Crash
  <2>4. CASE Journal!Restart
    BY <2>4 DEF Journal!Restart
  <2>5. CASE UNCHANGED Journal!vars
    BY <2>5 DEF Journal!vars
  <2> QED
    BY <2>1, <2>2, <2>3, <2>4, <2>5 DEF Journal!Next
<1>3. Journal!Spec => [](Served \subseteq tried)
  BY <1>1, <1>2, PTL DEF Journal!Spec
<1> QED
  BY <1>3, StoreRefinesJournal DEF ImplementsJournal

\* The answer to a query of the events: at most as many rows as asked for, and never more than
\* RowCap; and rows are left out only by as many newer ones as were asked for.
ListsNewest(t, about) ==
  LET limit == ClampLimit(TelemetryLimit(ReadLimit))
      rowIds == Latest(Matching(t, about), limit)
  IN  /\ Cardinality(rowIds) <= limit /\ limit <= RowCap
      /\ \A id \in Matching(t, about) \ rowIds :
           Cardinality(rowIds) = limit /\ \A row \in rowIds : row > id

\* No event is missing from a listing that still had room for it, or in favour of an older one,
\* whatever limit the reader asked for (telemetry_limit, normalize_limit, ORDER BY id DESC LIMIT).
THEOREM ListingsComplete == Spec => [](\A q \in Query : ListsNewest(q[1], q[2]))
<1>1. Inv => \A q \in Query : ListsNewest(q[1], q[2])
  <2> SUFFICES ASSUME Inv, NEW q \in Query PROVE ListsNewest(q[1], q[2])
    OBVIOUS
  <2> DEFINE limit == ClampLimit(TelemetryLimit(ReadLimit))
             S == Matching(q[1], q[2])
  <2>1. q[1] \in Table
    BY DEF Query
  <2>2. limit \in Nat /\ limit <= RowCap
    <3>1. RowCap \in Nat \ {0} /\ DefaultLimit \in Nat /\ ReadLimit \in Nat \cup {None}
      BY StoreAssumption
    <3>2. ASSUME NEW n \in Nat PROVE ClampLimit(n) \in Nat /\ ClampLimit(n) <= RowCap
      BY <3>1 DEF ClampLimit
    <3>3. TelemetryLimit(ReadLimit) \in Nat
      BY <3>1, <3>2 DEF TelemetryLimit
    <3> QED
      BY <3>2, <3>3
  <2>3. events[q[1]] \in Seq(Subject)
    BY <2>1 DEF Inv, TypeOK
  <2>4. S \in SUBSET (1 .. Len(events[q[1]])) /\ Len(events[q[1]]) \in Nat
    BY <2>3 DEF Matching
  <2>5. S \in SUBSET Nat /\ IsFiniteSet(S)
    <3>1. IsFiniteSet(1 .. Len(events[q[1]])) /\ 1 .. Len(events[q[1]]) \in SUBSET Nat
      BY <2>4, FS_Interval
    <3> HIDE DEF S
    <3>2. S \in SUBSET Nat
      BY <2>4, <3>1
    <3> QED
      BY <2>4, <3>1, <3>2, FS_Subset
  <2> HIDE DEF limit, S
  <2>6. /\ Cardinality(Latest(S, limit)) <= limit
        /\ \A id \in S \ Latest(S, limit) :
             /\ Cardinality(Latest(S, limit)) = limit
             /\ \A row \in Latest(S, limit) : row > id
    BY <2>2, <2>5, LatestLists
  <2> QED
    BY <2>2, <2>6 DEF ListsNewest, limit, S
<1> QED
  BY <1>1, SpecInv, PTL

=============================================================================
