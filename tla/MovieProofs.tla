---------------------------- MODULE MovieProofs ----------------------------
(* Proofs about MovieRoundTrip: a take decodes and is replayed as it was     *)
(* recorded, for every pair of control tables, every session and every       *)
(* moment at which the recording stopped.                                    *)
(*                                                                           *)
(* Three facts carry it.  The tape means what the machine was told: record   *)
(* by record, under the frame in progress (TapeInv).  The file declares a    *)
(* span that holds every record (FileInv).  And the player's cursor stands   *)
(* between the frames before the one in progress and those after it, with    *)
(* everything before it delivered (PlayInv).                                 *)
EXTENDS MovieRoundTrip, ArithmeticLemmas, SequenceTheorems

(* What a record tells a machine that has the controls of the tape.          *)
Means(r) ==
  [frame |-> r.frame, op |-> r.op,
   control |-> IF r.op \in ControlOps THEN RecordTable[r.ctl].name ELSE "",
   bank |-> IF r.op \in ControlOps THEN 0 ELSE r.ctl, value |-> r.value]
OnAControl(r) == r.op \in ControlOps => r.ctl \in DOMAIN RecordTable

Tapes == [table : {RecordTable}, dip : {<<>>}, records : Seq(MovieRecords),
          frame : 0..MaxMovieFrames, unmapped : {0}]
Ordered(records) ==
  \A i, j \in 1..Len(records) : i < j => records[i].frame <= records[j].frame
MeaningOf(records) == [i \in 1..Len(records) |-> Means(records[i])]

TapeInv ==
  /\ tape \in Tapes
  /\ \A i \in 1..Len(tape.records) :
       tape.records[i].frame <= tape.frame /\ OnAControl(tape.records[i])
  /\ Ordered(tape.records)
  /\ heard = MeaningOf(tape.records)

FileInv ==
  /\ stage \in {"record", "file", "replay", "ended"}
  /\ file = IF stage = "record" THEN BlankMovie ELSE Finish(tape)
  /\ stage \in {"record", "file"} =>
       /\ replay = [player |-> BindPlayer(BlankMovie, ReplayTable), frame |-> 0]
       /\ replayed = <<>>

(* The cursor is past every record of an earlier frame, and past none of a   *)
(* later one.                                                                *)
CursorAt(records, cursor, now) ==
  \A i \in 1..Len(records) : /\ records[i].frame < now => i <= cursor
                             /\ i <= cursor => records[i].frame <= now
Players == [movie : {file}, cursor : 0..Len(file.records),
            ids : {BindPlayer(file, ReplayTable).ids}]

PlayInv ==
  /\ stage \in {"replay", "ended"} =>
       /\ replay \in [player : Players, frame : 0..file.frames]
       /\ CursorAt(file.records, replay.player.cursor, replay.frame)
       /\ replayed = [i \in 1..replay.player.cursor |-> heard[i]]
  /\ stage = "ended" => replay.frame >= file.frames

MovieInv == TapeInv /\ FileInv /\ PlayInv

-----------------------------------------------------------------------------
(* A set of naturals that has a member has its minimum.                      *)
LEMMA MinOf ==
  ASSUME NEW T \in SUBSET Nat, T # {}
  PROVE  Min(T) \in T /\ \A x \in T : Min(T) <= x
<1>1. \E x \in T : \A y \in T : x <= y
  BY LeastNatural
<1> QED BY <1>1 DEF Min

(* The span a recorder declares: the frames that ended, and one more if an   *)
(* input was filed under the frame that did not.                             *)
LEMMA SpanOf ==
  ASSUME NEW n \in Nat, NEW T \in SUBSET (1..n + 1)
  PROVE  Max({n} \cup T) \in n..n + 1 /\ \A x \in T : x <= Max({n} \cup T)
<1> DEFINE U == {n} \cup T
<1>1. \E x \in U : \A y \in U : x >= y
  <2>1. CASE n + 1 \in T
    <3>1. n + 1 \in U /\ \A y \in U : n + 1 >= y
      BY <2>1
    <3> QED BY <3>1
  <2>2. CASE n + 1 \notin T
    <3>1. n \in U /\ \A y \in U : n >= y
      <4>1. \A y \in T : y \in 1..n + 1 /\ y # n + 1
        BY <2>2
      <4> QED BY <4>1
    <3> QED BY <3>1
  <2> QED BY <2>1, <2>2
<1>2. Max(U) \in U /\ \A y \in U : Max(U) >= y
  <2> HIDE DEF U
  <2> QED BY <1>1 DEF Max
<1> DEFINE m == Max(U)
<1>3. m \in U /\ \A y \in U : m >= y
  BY <1>2
<1> HIDE DEF m
<1>4. m \in n..n + 1 /\ \A x \in T : x <= m
  BY <1>3
<1> QED BY <1>4 DEF m

(* The tables are sequences, and an index of a control is a position.        *)
LEMMA Tables ==
  /\ DOMAIN RecordTable = 1..Len(RecordTable) /\ Len(RecordTable) \in Nat
  /\ DOMAIN ReplayTable = 1..Len(ReplayTable) /\ Len(ReplayTable) \in Nat
  /\ \A i \in DOMAIN RecordTable : RecordTable[i] \in [name : STRING, id : Nat]
  /\ \A i \in DOMAIN ReplayTable : ReplayTable[i] \in [name : STRING, id : Nat]
<1> DEFINE Entries == [name : STRING, id : Nat]
<1>1. RecordTable \in Seq(Entries) /\ ReplayTable \in Seq(Entries)
  BY MovieAssumption
<1> HIDE DEF Entries
<1>2. \A s \in Seq(Entries) : /\ DOMAIN s = 1..Len(s) /\ Len(s) \in Nat
                             /\ \A i \in DOMAIN s : s[i] \in Entries
  OBVIOUS
<1> QED BY <1>1, <1>2 DEF Entries

(* A call is taped as the record that means what it told the machine, under  *)
(* the frame in progress, unless it told it nothing.                         *)
LEMMA TeeTells ==
  ASSUME NEW rec \in Tapes, NEW call \in MovieCalls
  PROVE  /\ Silent(call) => Tee(rec, call) = rec
         /\ ~ Silent(call) =>
              \E r \in MovieRecords :
                /\ Tee(rec, call) = [rec EXCEPT !.records = Append(@, r)]
                /\ r.frame = rec.frame /\ OnAControl(r)
                /\ Means(r) = Told(RecordTable, rec.frame, call)
<1>1. /\ call \in [op : ControlOps \cup {"releaseAll", "dip"}, id : Nat, value : Int]
      /\ call.op \in ControlOps => IndicesOf(RecordTable, call.id) # {}
      /\ call.op = "releaseAll" => call = ReleaseAllCall
  BY MovieAssumption
<1>2. rec.table = RecordTable /\ rec.frame \in Nat
  BY MovieAssumption DEF Tapes
<1> DEFINE At(ctl) == [frame |-> rec.frame, op |-> call.op, ctl |-> ctl, value |-> call.value]
<1>3. CASE call.op \in ControlOps
  <2> DEFINE T == IndicesOf(RecordTable, call.id)
             ctl == Min(T)
  <2>1. T # {} /\ T \subseteq DOMAIN RecordTable /\ T \subseteq Nat
    BY <1>1, <1>3, Tables DEF IndicesOf
  <2>2. ctl \in DOMAIN RecordTable /\ ctl \in Nat
    <3> HIDE DEF T
    <3> QED BY <2>1, MinOf
  <2>3. call.op # "releaseAll" /\ call.op # "dip"
    BY <1>3 DEF ControlOps
  <2>4. Tee(rec, call) = PushEvent(rec, call)
    BY <2>3 DEF Tee
  <2>5. CASE Silent(call)
    BY <2>4, <2>5 DEF Silent, PushEvent
  <2>6. CASE ~ Silent(call)
    <3>1. PushEvent(rec, call) = PushRecord(rec, call.op, ctl, call.value)
      BY <1>2, <2>1, <2>6 DEF Silent, PushEvent
    <3>2. PushRecord(rec, call.op, ctl, call.value) = [rec EXCEPT !.records = Append(@, At(ctl))]
      BY DEF PushRecord
    <3>3. At(ctl) \in MovieRecords /\ OnAControl(At(ctl))
      BY <1>1, <1>2, <2>2 DEF MovieRecords, OnAControl
    <3>4. Means(At(ctl)) = Told(RecordTable, rec.frame, call)
      BY <1>3 DEF Means, Told, NameOf
    <3> QED BY <2>4, <2>6, <3>1, <3>2, <3>3, <3>4
  <2> QED BY <2>5, <2>6
<1>4. CASE call.op \in {"releaseAll", "dip"}
  <2>1. call.op \notin ControlOps /\ ~ Silent(call)
    BY <1>4 DEF ControlOps, Silent
  <2>2. Tee(rec, call) = PushRecord(rec, call.op, call.id, call.value)
    <3>1. CASE call.op = "releaseAll"
      BY <1>1, <3>1 DEF Tee, PushReleaseAll, ReleaseAllCall, Call
    <3>2. CASE call.op = "dip"
      BY <3>2 DEF Tee, PushDip
    <3> QED BY <1>4, <3>1, <3>2
  <2>3. PushRecord(rec, call.op, call.id, call.value)
          = [rec EXCEPT !.records = Append(@, At(call.id))]
    BY DEF PushRecord
  <2>4. At(call.id) \in MovieRecords /\ OnAControl(At(call.id))
    BY <1>1, <1>2, <2>1 DEF MovieRecords, OnAControl
  <2>5. Means(At(call.id)) = Told(RecordTable, rec.frame, call)
    BY <2>1 DEF Means, Told, NameOf
  <2> QED BY <2>1, <2>2, <2>3, <2>4, <2>5
<1> QED BY <1>1, <1>3, <1>4

-----------------------------------------------------------------------------
(* take_frame: the first index outside a run of T, or the end.               *)
LEMMA FirstOutside ==
  ASSUME NEW n \in Nat, NEW from \in 0..n, NEW T \in SUBSET (from + 1..n)
  PROVE  LET last == Min(T \cup {n + 1}) - 1 IN
         /\ last \in from..n
         /\ \A i \in T : last < i
         /\ last < n => last + 1 \in T
<1> DEFINE U == T \cup {n + 1}
           x == Min(U)
<1>1. x \in U /\ \A y \in U : x <= y
  <2>1. U \in SUBSET Nat /\ U # {}
    OBVIOUS
  <2> HIDE DEF U
  <2> QED BY <2>1, MinOf
<1> HIDE DEF x
<1>2. /\ x - 1 \in from..n
      /\ \A i \in T : x - 1 < i
      /\ x - 1 < n => (x - 1) + 1 \in T
  BY <1>1
<1> QED BY <1>2 DEF x

(* A player whose cursor stands at a frame skips nothing, takes the frame's  *)
(* records and stands past them.                                             *)
LEMMA TakesTheFrame ==
  ASSUME NEW p, NEW records \in Seq(MovieRecords), p.movie.records = records,
         p.cursor \in 0..Len(records), NEW now \in Nat,
         Ordered(records), CursorAt(records, p.cursor, now)
  PROVE  /\ SkipTo(p, now) = p.cursor
         /\ TakeTo(p, now) \in p.cursor..Len(records)
         /\ \A i \in 1..Len(records) : /\ i <= TakeTo(p, now) => records[i].frame <= now
                                       /\ records[i].frame <= now => i <= TakeTo(p, now)
         /\ \A i \in p.cursor + 1..TakeTo(p, now) : records[i].frame = now
<1> DEFINE n == Len(records)
           from == p.cursor
           F(i) == records[i].frame
<1>1. n \in Nat /\ from \in 0..n /\ \A i \in 1..n : F(i) \in Nat
  <2>1. n \in Nat /\ \A i \in 1..n : records[i] \in MovieRecords
    OBVIOUS
  <2> QED BY <2>1 DEF MovieRecords
<1>2. \A i \in 1..n : (F(i) < now => i <= from) /\ (i <= from => F(i) <= now)
  BY DEF CursorAt
<1>3. \A i, j \in 1..n : i < j => F(i) <= F(j)
  BY DEF Ordered
<1> DEFINE S == {i \in from + 1..n : ~ (records[i].frame < now)}
           skip == Min(S \cup {n + 1}) - 1
<1>4. SkipTo(p, now) = skip
  BY DEF SkipTo, FirstNot
<1>5. skip \in from..n /\ \A i \in S : skip < i
  <2>1. S \in SUBSET (from + 1..n)
    OBVIOUS
  <2> HIDE DEF S, n, from
  <2> QED BY <1>1, <2>1, FirstOutside
<1> HIDE DEF skip
<1>6. skip = from
  <2> SUFFICES ASSUME from < n PROVE from + 1 \in S
    BY <1>1, <1>5
  <2>1. from + 1 \in 1..n /\ from + 1 \in from + 1..n /\ ~ (from + 1 <= from)
    BY <1>1
  <2>2. ~ (F(from + 1) < now)
    BY <1>2, <2>1
  <2> QED BY <2>1, <2>2
<1> DEFINE T == {i \in from + 1..n : ~ (records[i].frame = now)}
           end == Min(T \cup {n + 1}) - 1
<1>7. TakeTo(p, now) = end
  BY <1>4, <1>6 DEF TakeTo, FirstNot
<1>8. /\ end \in from..n
      /\ \A i \in T : end < i
      /\ end < n => end + 1 \in T
  <2>1. T \in SUBSET (from + 1..n)
    OBVIOUS
  <2> HIDE DEF T, n, from
  <2> QED BY <1>1, <2>1, FirstOutside
<1> HIDE DEF end
<1>9. \A i \in from + 1..end : F(i) = now
  <2> TAKE i \in from + 1..end
  <2>1. i \in from + 1..n /\ ~ (end < i)
    BY <1>1, <1>8
  <2> QED BY <1>8, <2>1
<1>10. end < n => end + 1 \in 1..n /\ now < F(end + 1)
  <2> SUFFICES ASSUME end < n PROVE end + 1 \in 1..n /\ now < F(end + 1)
    OBVIOUS
  <2>1. end + 1 \in 1..n /\ ~ (end + 1 <= from) /\ F(end + 1) # now
    BY <1>1, <1>8
  <2>2. ~ (F(end + 1) < now) /\ F(end + 1) \in Nat
    BY <1>1, <1>2, <2>1
  <2> HIDE DEF F, n
  <2> QED BY <2>1, <2>2
<1> HIDE DEF F, n, from, T, S
<1>11. ASSUME NEW i \in 1..n PROVE (i <= end => F(i) <= now) /\ (F(i) <= now => i <= end)
  <2>1. CASE i <= from
    BY <1>1, <1>2, <1>8, <2>1
  <2>2. CASE from < i /\ i <= end
    <3>1. i \in from + 1..end
      BY <1>1, <1>8, <2>2
    <3> QED BY <1>1, <1>9, <2>2, <3>1
  <2>3. CASE end < i
    <3>1. end + 1 \in 1..n /\ now < F(end + 1)
      BY <1>1, <1>8, <1>10, <2>3
    <3>2. F(end + 1) <= F(i)
      <4>1. CASE i = end + 1
        BY <1>1, <4>1
      <4>2. CASE i # end + 1
        BY <1>1, <1>3, <1>8, <2>3, <3>1, <4>2
      <4> QED BY <4>1, <4>2
    <3> QED BY <1>1, <1>8, <2>3, <3>1, <3>2
  <2> QED BY <1>1, <1>8, <2>1, <2>2, <2>3
<1> QED BY <1>4, <1>6, <1>7, <1>8, <1>9, <1>11 DEF F, n, from

-----------------------------------------------------------------------------
(* What a tape means grows by what its new record means.                     *)
LEMMA MeaningGrows ==
  ASSUME NEW records \in Seq(MovieRecords), NEW r \in MovieRecords
  PROVE  MeaningOf(Append(records, r)) = Append(MeaningOf(records), Means(r))
<1> DEFINE n == Len(records)
           longer == Append(records, r)
           S == {Means(x) : x \in MovieRecords}
<1>1. /\ n \in Nat /\ longer \in Seq(MovieRecords) /\ Len(longer) = n + 1
      /\ longer[n + 1] = r
      /\ \A i \in 1..n : longer[i] = records[i] /\ records[i] \in MovieRecords
  OBVIOUS
<1> HIDE DEF n, longer
<1> DEFINE a == [i \in 1..n |-> Means(records[i])]
           b == [i \in 1..n + 1 |-> Means(longer[i])]
<1>2. a \in Seq(S) /\ Len(a) = n
  BY <1>1
<1>3. b = Append(a, Means(r))
  <2>1. DOMAIN Append(a, Means(r)) = 1..n + 1
        /\ \A i \in 1..n : Append(a, Means(r))[i] = a[i]
        /\ Append(a, Means(r))[n + 1] = Means(r)
    <3> HIDE DEF a, S
    <3>1. Means(r) \in S
      BY DEF S
    <3> QED BY <1>1, <1>2, <3>1
  <2>2. Append(a, Means(r)) = [i \in 1..n + 1 |-> Append(a, Means(r))[i]]
    <3> DEFINE c == Append(a, Means(r))
    <3>1. c \in Seq(S) /\ Len(c) = n + 1
      <4> HIDE DEF a, S
      <4>1. Means(r) \in S
        BY DEF S
      <4> QED BY <1>1, <1>2, <4>1
    <3> HIDE DEF c, S
    <3>2. c = [i \in 1..n + 1 |-> c[i]]
      BY <3>1
    <3> QED BY <3>2 DEF c
  <2>3. \A i \in 1..n + 1 : b[i] = Append(a, Means(r))[i]
    <3> TAKE i \in 1..n + 1
    <3>1. CASE i = n + 1
      BY <1>1, <2>1, <3>1
    <3>2. CASE i # n + 1
      <4>1. i \in 1..n
        BY <1>1, <3>2
      <4> QED BY <1>1, <2>1, <4>1
    <3> QED BY <3>1, <3>2
  <2> HIDE DEF a
  <2> QED BY <2>2, <2>3
<1> QED BY <1>1, <1>3 DEF MeaningOf, n, longer

(* A finished movie has the tape's records, on its controls, and a span that *)
(* holds them: it decodes, and binds on every build that kept the controls.  *)
LEMMA FinishedMovie ==
  ASSUME TapeInv
  PROVE  /\ Finish(tape) \in [controls : {Names(RecordTable)}, dip : {<<>>},
                             frames : tape.frame..tape.frame + 1, records : {tape.records}]
         /\ \A i \in 1..Len(tape.records) : tape.records[i].frame < Finish(tape).frames
         /\ Valid(Finish(tape)) /\ Binds(Finish(tape), ReplayTable)
<1> DEFINE records == tape.records
           n == tape.frame
           T == {r.frame + 1 : r \in ToSet(records)}
           span == Max({n} \cup T)
<1>1. /\ records \in Seq(MovieRecords) /\ Len(records) \in Nat /\ n \in Nat
      /\ tape.table = RecordTable /\ tape.dip = <<>>
      /\ DOMAIN records = 1..Len(records)
  BY MovieAssumption DEF TapeInv, Tapes
<1>2. \A i \in 1..Len(records) : records[i] \in MovieRecords /\ records[i].frame \in 0..n
  <2>1. \A i \in 1..Len(records) : records[i] \in MovieRecords
    BY <1>1
  <2> QED BY <1>1, <2>1 DEF MovieRecords, TapeInv
<1>3. T \in SUBSET (1..n + 1)
  BY <1>1, <1>2 DEF ToSet
<1>4. span \in n..n + 1 /\ \A x \in T : x <= span
  <2> HIDE DEF T, n
  <2> QED BY <1>1, <1>3, SpanOf
<1>5. Finish(tape) = [controls |-> Names(RecordTable), dip |-> <<>>, frames |-> span,
                      records |-> records]
  BY <1>1 DEF Finish
<1> HIDE DEF span
<1>6. \A i \in 1..Len(records) : records[i].frame < span
  <2> TAKE i \in 1..Len(records)
  <2>1. records[i].frame + 1 \in T
    BY <1>1 DEF ToSet
  <2>2. records[i].frame \in Nat
    BY <1>1, <1>2
  <2> HIDE DEF T, records, n
  <2> QED BY <1>1, <1>4, <2>1, <2>2
<1>7. Valid(Finish(tape))
  <2>1. FramesMonotonic(Finish(tape))
    <3>1. Finish(tape).records = records /\ Ordered(records)
      BY <1>5 DEF TapeInv
    <3> QED BY <1>1, <3>1 DEF FramesMonotonic, Ordered
  <2>2. FramesInRange(Finish(tape))
    BY <1>1, <1>5, <1>6 DEF FramesInRange, ToSet
  <2>3. ControlsInRange(Finish(tape))
    <3>1. \A i \in 1..Len(records) : OnAControl(records[i])
      BY DEF TapeInv
    <3> QED BY <1>1, <1>5, <3>1 DEF ControlsInRange, ToSet, OnAControl, Names
  <2> QED BY <2>1, <2>2, <2>3 DEF Valid
<1>8. Binds(Finish(tape), ReplayTable)
  BY <1>5, MovieAssumption DEF Binds, Names
<1> QED BY <1>4, <1>5, <1>6, <1>7, <1>8

(* A record handed to the other build tells it what it means: the movie's    *)
(* control is found by its name, and no other control has its id there.      *)
LEMMA ToldAgain ==
  ASSUME NEW movie, movie.controls = Names(RecordTable),
         NEW p, p.ids = BindPlayer(movie, ReplayTable).ids,
         NEW r \in MovieRecords, OnAControl(r)
  PROVE  Told(ReplayTable, r.frame, ToCall(p, r)) = Means(r)
<1>1. CASE r.op \notin ControlOps
  BY <1>1 DEF Told, ToCall, Call, Means, NameOf
<1>2. CASE r.op \in ControlOps
  <2> DEFINE name == RecordTable[r.ctl].name
             T == {j \in DOMAIN ReplayTable : ReplayTable[j].name = name}
             k == Min(T)
             id == ReplayTable[k].id
             U == IndicesOf(ReplayTable, id)
  <2>1. r.ctl \in DOMAIN RecordTable
    BY <1>2 DEF OnAControl
  <2>2. T # {} /\ T \in SUBSET Nat
    <3>1. \E j \in DOMAIN ReplayTable : ReplayTable[j].name = name
      BY <2>1, MovieAssumption
    <3> QED BY <3>1, Tables
  <2>3. k \in DOMAIN ReplayTable /\ ReplayTable[k].name = name
    <3>1. k \in T
      <4> HIDE DEF T
      <4> QED BY <2>2, MinOf
    <3> HIDE DEF k
    <3> QED BY <3>1
  <2>4. p.ids[r.ctl] = id
    <3> DEFINE names == movie.controls
               IdOf(i) == ReplayTable[Min({j \in DOMAIN ReplayTable :
                                             ReplayTable[j].name = names[i]})].id
    <3>1. names = [i \in DOMAIN RecordTable |-> RecordTable[i].name]
      BY DEF Names
    <3>2. p.ids = [i \in DOMAIN names |-> IdOf(i)]
      BY DEF BindPlayer
    <3>3. r.ctl \in DOMAIN names /\ names[r.ctl] = name
      BY <2>1, <3>1
    <3> HIDE DEF names
    <3>4. p.ids[r.ctl] = IdOf(r.ctl)
      BY <3>2, <3>3
    <3> QED BY <3>3, <3>4
  <2> HIDE DEF k
  <2>5. Min(U) \in DOMAIN ReplayTable /\ ReplayTable[Min(U)].id = id
    <3>1. k \in U /\ U \in SUBSET Nat
      BY <2>3, Tables DEF IndicesOf
    <3>2. Min(U) \in U
      <4> HIDE DEF U
      <4> QED BY <3>1, MinOf
    <3> DEFINE m == Min(U)
    <3> HIDE DEF m
    <3>3. m \in IndicesOf(ReplayTable, id)
      BY <3>2 DEF m
    <3> QED BY <3>3 DEF IndicesOf, m
  <2>6. ReplayTable[Min(U)].name = name
    BY <2>3, <2>5, MovieAssumption
  <2>7. ToCall(p, r) = [op |-> r.op, id |-> id, value |-> r.value]
    BY <1>2, <2>4 DEF ToCall, Call
  <2> HIDE DEF id
  <2>8. NameOf(ReplayTable, ToCall(p, r)) = name
    <3> DEFINE call == ToCall(p, r)
    <3>1. call.op \in ControlOps /\ call.id = id
      BY <1>2, <2>7
    <3> HIDE DEF call
    <3>2. NameOf(ReplayTable, call) = name
      BY <2>6, <3>1 DEF NameOf
    <3> QED BY <3>2 DEF call
  <2> QED BY <1>2, <2>7, <2>8 DEF Told, Means
<1> QED BY <1>1, <1>2

-----------------------------------------------------------------------------
(* The invariant holds from the start, and through every step.               *)

(* A session begins with an empty tape.                                      *)
LEMMA InitKeeps == MovieInit => MovieInv
<1> SUFFICES ASSUME MovieInit PROVE MovieInv
  OBVIOUS
<1>1. tape = [table |-> RecordTable, dip |-> <<>>, records |-> <<>>, frame |-> 0, unmapped |-> 0]
  BY DEF MovieInit, NewRecorder
<1>2. tape \in Tapes
  BY <1>1, MovieAssumption DEF Tapes
<1>3. Len(tape.records) = 0 /\ MeaningOf(tape.records) = <<>>
  <2>1. \A records : records = <<>> => [i \in 1..Len(records) |-> Means(records[i])] = <<>>
    OBVIOUS
  <2> QED BY <1>1, <2>1 DEF MeaningOf
<1>4. TapeInv
  BY <1>2, <1>3 DEF TapeInv, MovieInit, Ordered
<1> QED BY <1>4 DEF MovieInv, FileInv, PlayInv, MovieInit

(* A call is heard and taped under the frame in progress, after all others.  *)
LEMMA InputKeeps ==
  ASSUME MovieInv, NEW call \in MovieCalls, InputCall(call)
  PROVE  MovieInv'
<1>0. stage = "record" /\ UNCHANGED <<stage, file, replay, replayed>>
  BY DEF InputCall
<1>1. FileInv'
  BY <1>0 DEF MovieInv, FileInv
<1>2. PlayInv'
  BY <1>0 DEF PlayInv
<1>3. tape \in Tapes /\ tape.records \in Seq(MovieRecords) /\ Len(tape.records) \in Nat
  BY DEF MovieInv, TapeInv, Tapes
<1>4. CASE Silent(call)
  <2>1. tape' = tape /\ heard' = heard
    BY <1>3, <1>4, TeeTells DEF InputCall
  <2> QED BY <1>1, <1>2, <2>1 DEF MovieInv, TapeInv
<1>5. CASE ~ Silent(call)
  <2>1. PICK r \in MovieRecords :
          /\ tape' = [tape EXCEPT !.records = Append(@, r)]
          /\ r.frame = tape.frame /\ OnAControl(r)
          /\ heard' = Append(heard, Means(r))
    BY <1>3, <1>5, TeeTells DEF InputCall
  <2> DEFINE records == tape.records
             longer == Append(records, r)
             n == Len(records)
  <2>2. /\ longer \in Seq(MovieRecords) /\ Len(longer) = n + 1 /\ longer[n + 1] = r
        /\ \A i \in 1..n : longer[i] = records[i] /\ records[i] \in MovieRecords
    BY <1>3
  <2>3. tape' \in Tapes /\ tape'.records = longer /\ tape'.frame = tape.frame
    BY <1>3, <2>1, <2>2 DEF Tapes
  <2>4. heard' = MeaningOf(longer)
    BY <1>3, <2>1, MeaningGrows DEF MovieInv, TapeInv
  <2>5. \A i \in 1..n : records[i].frame <= tape.frame /\ OnAControl(records[i])
    BY DEF MovieInv, TapeInv
  <2>6. \A i, j \in 1..n : i < j => records[i].frame <= records[j].frame
    BY DEF MovieInv, TapeInv, Ordered
  <2>7. tape.frame \in Nat
    BY <1>3, MovieAssumption DEF Tapes
  <2>11. n \in Nat
    BY <1>3
  <2> HIDE DEF longer, records, n
  <2>8. ASSUME NEW i \in 1..n + 1
        PROVE  longer[i].frame <= tape.frame /\ OnAControl(longer[i])
    <3>1. CASE i = n + 1
      BY <2>1, <2>2, <2>7, <3>1
    <3>2. CASE i # n + 1
      <4>1. i \in 1..n
        BY <2>11, <3>2
      <4> QED BY <2>2, <2>5, <4>1
    <3> QED BY <3>1, <3>2
  <2>9. ASSUME NEW i \in 1..n + 1, NEW j \in 1..n + 1, i < j
        PROVE  longer[i].frame <= longer[j].frame
    <3>1. i \in 1..n
      BY <2>11, <2>9
    <3>2. CASE j = n + 1
      BY <2>1, <2>2, <2>5, <3>1, <3>2
    <3>3. CASE j # n + 1
      <4>1. j \in 1..n
        BY <2>11, <3>3
      <4> QED BY <2>2, <2>6, <2>9, <3>1, <4>1
    <3> QED BY <3>2, <3>3
  <2>10. TapeInv'
    <3>1. \A i \in 1..Len(tape'.records) :
            tape'.records[i].frame <= tape'.frame /\ OnAControl(tape'.records[i])
      BY <2>2, <2>3, <2>8
    <3>2. Ordered(tape'.records)
      BY <2>2, <2>3, <2>9 DEF Ordered
    <3>3. heard' = MeaningOf(tape'.records)
      BY <2>3, <2>4
    <3> QED BY <2>3, <3>1, <3>2, <3>3 DEF TapeInv
  <2> QED BY <1>1, <1>2, <2>10 DEF MovieInv
<1> QED BY <1>4, <1>5

(* A frame that runs leaves every record in a frame not after the next.      *)
LEMMA RunKeeps == ASSUME MovieInv, RunRecordedFrame PROVE MovieInv'
<1>0. /\ stage = "record" /\ UNCHANGED <<stage, file, replay, heard, replayed>>
      /\ tape \in Tapes /\ tape.frame \in Nat /\ tape.frame < MaxMovieFrames
      /\ tape.records \in Seq(MovieRecords)
  BY MovieAssumption DEF RunRecordedFrame, MovieInv, TapeInv, Tapes
<1>1. FileInv' /\ PlayInv'
  <2>1. FileInv'
    BY <1>0 DEF MovieInv, FileInv
  <2>2. PlayInv'
    BY <1>0 DEF PlayInv
  <2> QED BY <2>1, <2>2
<1>2. tape' = [tape EXCEPT !.frame = @ + 1]
  BY DEF RunRecordedFrame, AdvanceFrame
<1>3. tape' \in Tapes /\ tape'.records = tape.records /\ tape'.frame = tape.frame + 1
  <2>1. tape.frame + 1 \in 0..MaxMovieFrames
    BY <1>0, MovieAssumption
  <2> QED BY <1>0, <1>2, <2>1 DEF Tapes
<1>4. \A i \in 1..Len(tape.records) :
        tape.records[i].frame <= tape.frame + 1 /\ OnAControl(tape.records[i])
  <2>1. \A i \in 1..Len(tape.records) : tape.records[i] \in MovieRecords
    BY <1>0
  <2>2. \A i \in 1..Len(tape.records) :
          tape.records[i].frame \in Nat /\ tape.records[i].frame <= tape.frame
          /\ OnAControl(tape.records[i])
    BY <2>1 DEF MovieRecords, MovieInv, TapeInv
  <2> QED BY <1>0, <2>2
<1>5. TapeInv'
  BY <1>0, <1>3, <1>4 DEF MovieInv, TapeInv
<1> QED BY <1>1, <1>5 DEF MovieInv

(* Stopping writes the movie of the tape, and the tape stays.                *)
LEMMA StopKeeps == ASSUME MovieInv, StopRecorder PROVE MovieInv'
<1>1. UNCHANGED <<tape, heard, replay, replayed>> /\ stage = "record" /\ stage' = "file"
      /\ file' = Finish(tape)
  BY DEF StopRecorder
<1>2. TapeInv'
  BY <1>1 DEF MovieInv, TapeInv
<1>3. FileInv'
  <2>1. FileInv
    BY DEF MovieInv
  <2>2. (file = IF stage = "record" THEN BlankMovie ELSE Finish(tape))'
    <3>1. Finish(tape)' = Finish(tape)
      BY <1>1
    <3> QED BY <1>1, <3>1
  <2> QED BY <1>1, <2>1, <2>2 DEF FileInv
<1>4. PlayInv'
  BY <1>1 DEF PlayInv
<1> QED BY <1>2, <1>3, <1>4 DEF MovieInv

(* Binding the movie puts the cursor before the first record, in frame 0.    *)
LEMMA BindKeeps == ASSUME MovieInv, BindFile PROVE MovieInv'
<1>1. /\ UNCHANGED <<tape, file, heard, replayed>> /\ stage = "file" /\ stage' = "replay"
      /\ replay' = [player |-> BindPlayer(file, ReplayTable), frame |-> 0]
  BY DEF BindFile
<1>2. TapeInv'
  BY <1>1 DEF MovieInv, TapeInv
<1>3. file = Finish(tape) /\ replayed = <<>>
  BY <1>1 DEF MovieInv, FileInv
<1>4. FileInv'
  <2>1. Finish(tape)' = Finish(tape)
    BY <1>1
  <2> QED BY <1>1, <1>3, <2>1 DEF FileInv
<1>5. /\ file.records = tape.records /\ tape.records \in Seq(MovieRecords)
      /\ file.frames \in Nat
      /\ \A i \in 1..Len(file.records) : file.records[i].frame \in Nat
  <2>1. tape.records \in Seq(MovieRecords) /\ tape.frame \in Nat
    BY MovieAssumption DEF MovieInv, TapeInv, Tapes
  <2>2. file.records = tape.records /\ file.frames \in Nat
    BY <1>3, <2>1, FinishedMovie DEF MovieInv
  <2>3. \A i \in 1..Len(tape.records) : tape.records[i] \in MovieRecords
    BY <2>1
  <2> QED BY <2>1, <2>2, <2>3 DEF MovieRecords
<1>6. BindPlayer(file, ReplayTable) \in Players /\ BindPlayer(file, ReplayTable).cursor = 0
  <2>1. Len(file.records) \in Nat
    BY <1>5
  <2> QED BY <2>1 DEF BindPlayer, Players
<1>7. CursorAt(file.records, 0, 0)
  BY <1>5 DEF CursorAt
<1>8. replayed = [i \in 1..0 |-> heard[i]]
  <2>1. [i \in 1..0 |-> heard[i]] = <<>>
    OBVIOUS
  <2> QED BY <1>3, <2>1
<1> DEFINE bound == [player |-> BindPlayer(file, ReplayTable), frame |-> 0]
<1>9. /\ bound \in [player : Players, frame : 0..file.frames]
      /\ bound.player.cursor = 0 /\ bound.frame = 0
  BY <1>5, <1>6
<1> HIDE DEF bound
<1>10. replay' = bound
  BY <1>1 DEF bound
<1>11. PlayInv'
  <2>1. Players' = Players
    BY <1>1 DEF Players
  <2>2. CursorAt(file.records, bound.player.cursor, bound.frame)
        /\ replayed = [i \in 1..bound.player.cursor |-> heard[i]]
    BY <1>7, <1>8, <1>9
  <2> QED BY <1>1, <1>9, <1>10, <2>1, <2>2 DEF PlayInv
<1> QED BY <1>2, <1>4, <1>11 DEF MovieInv

(* What a take delivers is the meaning of the records it takes: the next of  *)
(* what was heard.                                                           *)
LEMMA DeliveredMeans ==
  ASSUME MovieInv, stage = "replay",
         NEW p, p = replay.player, NEW now, now = replay.frame,
         NEW end, end = TakeTo(p, now), NEW calls, calls = Delivered(p, now)
  PROVE  /\ end \in p.cursor..Len(file.records)
         /\ \A i \in 1..Len(file.records) : /\ i <= end => file.records[i].frame <= now
                                            /\ file.records[i].frame <= now => i <= end
         /\ [i \in DOMAIN calls |-> Told(ReplayTable, now, calls[i])]
              = [i \in 1..end - p.cursor |-> heard[p.cursor + i]]
<1> DEFINE records == file.records
           n == Len(records)
           from == p.cursor
<1>1. /\ file = Finish(tape) /\ records = tape.records /\ records \in Seq(MovieRecords)
      /\ file.controls = Names(RecordTable) /\ file.frames \in Nat
  <2>1. tape.records \in Seq(MovieRecords) /\ tape.frame \in Nat
    BY MovieAssumption DEF MovieInv, TapeInv, Tapes
  <2>2. file = Finish(tape)
    BY DEF MovieInv, FileInv
  <2> QED BY <2>1, <2>2, FinishedMovie DEF MovieInv
<1>2. /\ p \in Players /\ now \in Nat /\ CursorAt(records, from, now)
      /\ p.movie = file /\ p.movie.records = records /\ from \in 0..n
      /\ p.ids = BindPlayer(file, ReplayTable).ids
  BY <1>1 DEF MovieInv, PlayInv, Players
<1>3. Ordered(records)
  BY <1>1 DEF MovieInv, TapeInv
<1>4. /\ SkipTo(p, now) = from
      /\ end \in from..n
      /\ \A i \in 1..n : /\ i <= end => records[i].frame <= now
                         /\ records[i].frame <= now => i <= end
      /\ \A i \in from + 1..end : records[i].frame = now
  <2>1. /\ records \in Seq(MovieRecords) /\ p.movie.records = records
        /\ p.cursor \in 0..Len(records) /\ now \in Nat
        /\ Ordered(records) /\ CursorAt(records, p.cursor, now)
    BY <1>1, <1>2, <1>3
  <2> HIDE DEF records
  <2>2. /\ SkipTo(p, now) = p.cursor
        /\ TakeTo(p, now) \in p.cursor..Len(records)
        /\ \A i \in 1..Len(records) : /\ i <= TakeTo(p, now) => records[i].frame <= now
                                      /\ records[i].frame <= now => i <= TakeTo(p, now)
        /\ \A i \in p.cursor + 1..TakeTo(p, now) : records[i].frame = now
    BY <2>1, TakesTheFrame
  <2> QED BY <2>2
<1> DEFINE taken == SubSeq(records, from + 1, end)
<1>5. calls = [i \in DOMAIN taken |-> ToCall(p, taken[i])]
  BY <1>2, <1>4 DEF Delivered
<1>6. /\ n \in Nat /\ DOMAIN taken = 1..end - from
      /\ \A i \in 1..end - from : taken[i] = records[from + i]
  <2> HIDE DEF records, from
  <2> QED BY <1>1, <1>2, <1>4
<1> HIDE DEF taken
<1>7. heard = MeaningOf(records)
  BY <1>1 DEF MovieInv, TapeInv
<1>8. ASSUME NEW i \in 1..end - from
      PROVE  Told(ReplayTable, now, calls[i]) = heard[from + i]
  <2>1. from + i \in from + 1..end /\ from + i \in 1..n
    BY <1>2, <1>4, <1>6
  <2> DEFINE r == records[from + i]
  <2>2. r \in MovieRecords /\ r.frame = now
    BY <1>1, <1>4, <2>1
  <2>3. OnAControl(r)
    BY <1>1, <2>1 DEF MovieInv, TapeInv
  <2>4. calls[i] = ToCall(p, r)
    BY <1>5, <1>6
  <2> HIDE DEF r
  <2>5. Told(ReplayTable, now, ToCall(p, r)) = Means(r)
    BY <1>1, <1>2, <2>2, <2>3, ToldAgain
  <2>6. heard[from + i] = Means(r)
    BY <1>7, <2>1 DEF MeaningOf, r
  <2> QED BY <2>4, <2>5, <2>6
<1>9. [i \in DOMAIN calls |-> Told(ReplayTable, now, calls[i])]
        = [i \in 1..end - from |-> heard[from + i]]
  <2>1. DOMAIN calls = 1..end - from
    BY <1>5, <1>6
  <2> HIDE DEF from
  <2> QED BY <1>8, <2>1
<1> QED BY <1>4, <1>9

(* Prefixes of a sequence put together.                                      *)
LEMMA LongerPrefix ==
  ASSUME NEW f, NEW m \in Nat, NEW n \in Nat, m <= n
  PROVE  [i \in 1..m |-> f[i]] \o [i \in 1..n - m |-> f[m + i]] = [i \in 1..n |-> f[i]]
<1> DEFINE S == {f[i] : i \in 1..n}
           a == [i \in 1..m |-> f[i]]
           b == [i \in 1..n - m |-> f[m + i]]
           c == [i \in 1..n |-> f[i]]
<1>1. a \in Seq(S) /\ Len(a) = m /\ b \in Seq(S) /\ Len(b) = n - m
      /\ c \in Seq(S) /\ Len(c) = n
  OBVIOUS
<1>2. /\ \A i \in 1..m : a[i] = c[i]
      /\ \A i \in m + 1..n : b[i - m] = c[i]
  OBVIOUS
<1> HIDE DEF a, b, c, S
<1>3. a \o b \in Seq(S) /\ Len(a \o b) = n
  BY <1>1
<1>4. ASSUME NEW i \in 1..n PROVE (a \o b)[i] = c[i]
  <2>1. CASE i <= m
    BY <1>1, <1>2, <2>1
  <2>2. CASE ~ (i <= m)
    BY <1>1, <1>2, <2>2
  <2> QED BY <2>1, <2>2
<1>5. a \o b = c
  <2> DEFINE d == a \o b
  <2>1. d \in Seq(S) /\ Len(d) = n /\ \A i \in 1..n : d[i] = c[i]
    BY <1>3, <1>4
  <2> HIDE DEF d
  <2>2. d = [i \in 1..n |-> d[i]] /\ c = [i \in 1..n |-> c[i]]
    BY <1>1, <2>1
  <2>3. d = c
    BY <2>1, <2>2
  <2> QED BY <2>3 DEF d
<1> QED BY <1>5 DEF a, b, c

(* Delivering a frame: the next of what was heard follows, whether or not    *)
(* the frame then runs.                                                      *)
LEMMA DeliverKeeps ==
  ASSUME MovieInv, NEW runs \in BOOLEAN, DeliverFrame(runs)
  PROVE  MovieInv'
<1> DEFINE p == replay.player
           now == replay.frame
           end == TakeTo(p, now)
           calls == Delivered(p, now)
           told == [i \in DOMAIN calls |-> Told(ReplayTable, now, calls[i])]
           next == IF runs THEN now + 1 ELSE now
<1>1. /\ UNCHANGED <<stage, tape, file, heard>> /\ stage = "replay"
      /\ now < file.frames
      /\ replayed' = replayed \o told
      /\ replay' = [player |-> TakeFrame(p, now), frame |-> next]
  BY DEF DeliverFrame
<1>2. TapeInv'
  BY <1>1 DEF MovieInv, TapeInv
<1>3. FileInv'
  <2>1. Finish(tape)' = Finish(tape)
    BY <1>1
  <2> QED BY <1>1, <2>1 DEF MovieInv, FileInv
<1>4. /\ p \in Players /\ now \in 0..file.frames /\ replay.frame = now
      /\ replayed = [i \in 1..p.cursor |-> heard[i]]
      /\ file.frames \in Nat /\ Len(file.records) \in Nat
      /\ \A i \in 1..Len(file.records) : file.records[i].frame \in Nat
  <2>1. tape.records \in Seq(MovieRecords) /\ tape.frame \in Nat
    BY MovieAssumption DEF MovieInv, TapeInv, Tapes
  <2>2. file = Finish(tape)
    BY <1>1 DEF MovieInv, FileInv
  <2>3. file.frames \in Nat /\ file.records = tape.records
    BY <2>1, <2>2, FinishedMovie DEF MovieInv
  <2>4. \A i \in 1..Len(tape.records) : tape.records[i] \in MovieRecords
    BY <2>1
  <2>5. \A i \in 1..Len(tape.records) : tape.records[i].frame \in Nat
    BY <2>4 DEF MovieRecords
  <2> QED BY <1>1, <2>1, <2>3, <2>5 DEF MovieInv, PlayInv
<1>5. /\ end \in p.cursor..Len(file.records)
      /\ \A i \in 1..Len(file.records) : /\ i <= end => file.records[i].frame <= now
                                         /\ file.records[i].frame <= now => i <= end
      /\ told = [i \in 1..end - p.cursor |-> heard[p.cursor + i]]
  BY <1>1, DeliveredMeans
<1>6. p.cursor \in Nat /\ end \in Nat /\ p.cursor <= end
  <2>1. p.cursor \in 0..Len(file.records)
    BY <1>4 DEF Players
  <2> HIDE DEF p, end
  <2> QED BY <1>4, <1>5, <2>1
<1>7. TakeFrame(p, now) \in Players /\ TakeFrame(p, now).cursor = end
  <2> DEFINE q == [p EXCEPT !.cursor = end]
  <2>1. TakeFrame(p, now) = q
    BY DEF TakeFrame
  <2>2. end \in 0..Len(file.records)
    BY <1>4, <1>5, <1>6
  <2> HIDE DEF p, end
  <2>3. q \in Players /\ q.cursor = end
    BY <1>4, <2>2 DEF Players
  <2> QED BY <2>1, <2>3
<1> HIDE DEF p, now, end, calls, told
<1>8. replayed' = [i \in 1..end |-> heard[i]]
  <2> DEFINE from == p.cursor
             first == [i \in 1..from |-> heard[i]]
             rest == [i \in 1..end - from |-> heard[from + i]]
  <2>1. replayed' = first \o rest
    BY <1>1, <1>4, <1>5
  <2>2. from \in Nat /\ end \in Nat /\ from <= end
    BY <1>6
  <2> HIDE DEF from
  <2>3. first \o rest = [i \in 1..end |-> heard[i]]
    BY <2>2, LongerPrefix
  <2> QED BY <2>1, <2>3
<1>9. next \in 0..file.frames /\ CursorAt(file.records, end, next)
  <2>1. next \in 0..file.frames
    BY <1>1, <1>4
  <2>2. ASSUME NEW i \in 1..Len(file.records)
        PROVE  /\ file.records[i].frame < next => i <= end
               /\ i <= end => file.records[i].frame <= next
    <3> DEFINE f == file.records[i].frame
    <3>1. f \in Nat /\ now \in Nat /\ (i <= end => f <= now) /\ (f <= now => i <= end)
      BY <1>4, <1>5
    <3> HIDE DEF f
    <3>2. (f < next => i <= end) /\ (i <= end => f <= next)
      BY <3>1
    <3> QED BY <3>2 DEF f
  <2> QED BY <2>1, <2>2 DEF CursorAt
<1> HIDE DEF next
<1> DEFINE after == [player |-> TakeFrame(p, now), frame |-> next]
<1>10. /\ after \in [player : Players, frame : 0..file.frames]
       /\ after.player.cursor = end /\ after.frame = next
  BY <1>7, <1>9
<1> HIDE DEF after
<1>11. replay' = after
  BY <1>1 DEF after
<1>12. PlayInv'
  <2>1. Players' = Players
    BY <1>1 DEF Players
  <2>2. CursorAt(file.records, after.player.cursor, after.frame)
        /\ replayed' = [i \in 1..after.player.cursor |-> heard[i]]
    BY <1>8, <1>9, <1>10
  <2> QED BY <1>1, <1>10, <1>11, <2>1, <2>2 DEF PlayInv
<1> QED BY <1>2, <1>3, <1>12 DEF MovieInv

(* Unbinding changes neither the movie nor the player.                       *)
LEMMA UnbindKeeps == ASSUME MovieInv, Unbind PROVE MovieInv'
<1>1. /\ UNCHANGED <<tape, file, replay, heard, replayed>> /\ stage = "replay"
      /\ stage' = "ended" /\ replay.frame >= file.frames
  BY DEF Unbind
<1>2. TapeInv'
  BY <1>1 DEF MovieInv, TapeInv
<1>3. FileInv'
  <2>1. Finish(tape)' = Finish(tape)
    BY <1>1
  <2> QED BY <1>1, <2>1 DEF MovieInv, FileInv
<1>4. PlayInv'
  <2>1. Players' = Players
    BY <1>1 DEF Players
  <2> QED BY <1>1, <2>1 DEF MovieInv, PlayInv
<1> QED BY <1>2, <1>3, <1>4 DEF MovieInv

(* Every step keeps the invariant.                                           *)
LEMMA StepKeeps == MovieInv /\ [MovieNext]_movieVars => MovieInv'
<1> SUFFICES ASSUME MovieInv, [MovieNext]_movieVars PROVE MovieInv'
  OBVIOUS
<1>1. CASE \E call \in MovieCalls : InputCall(call)
  BY <1>1, InputKeeps
<1>2. CASE RunRecordedFrame
  BY <1>2, RunKeeps
<1>3. CASE StopRecorder
  BY <1>3, StopKeeps
<1>4. CASE BindFile
  BY <1>4, BindKeeps
<1>5. CASE \E runs \in BOOLEAN : DeliverFrame(runs)
  BY <1>5, DeliverKeeps
<1>6. CASE Unbind
  BY <1>6, UnbindKeeps
<1>7. CASE UNCHANGED movieVars
  <2>1. Finish(tape)' = Finish(tape) /\ Players' = Players
    BY <1>7 DEF movieVars, Players
  <2>2. TapeInv'
    BY <1>7 DEF movieVars, MovieInv, TapeInv
  <2>3. FileInv'
    BY <1>7, <2>1 DEF movieVars, MovieInv, FileInv
  <2>4. PlayInv'
    BY <1>7, <2>1 DEF movieVars, MovieInv, PlayInv
  <2> QED BY <2>2, <2>3, <2>4 DEF MovieInv
<1> QED BY <1>1, <1>2, <1>3, <1>4, <1>5, <1>6, <1>7 DEF MovieNext

-----------------------------------------------------------------------------
(* What the invariant gives.                                                 *)

(* The tape, the file and the cursor stay what the operators take them to be *)
(* (harness/src/movie.rs, MovieRecorder and MoviePlayer).                    *)
THEOREM MovieInvariant == MovieSpec => []MovieInv
BY InitKeeps, StepKeeps, PTL DEF MovieSpec

(* The recorder files every call, the movie is blank or that of the tape and *)
(* the cursor stays on its records (harness/src/movie.rs).                   *)
THEOREM MovieTyped == MovieSpec => []MovieTypeOK
<1>1. MovieInv => MovieTypeOK
  <2> SUFFICES ASSUME MovieInv PROVE MovieTypeOK
    OBVIOUS
  <2>1. tape \in Tapes /\ MaxMovieFrames \in Nat
    BY MovieAssumption DEF MovieInv, TapeInv
  <2>2. stage \in {"record", "file", "replay", "ended"} /\ file \in {BlankMovie, Finish(tape)}
    BY DEF MovieInv, FileInv
  <2>3. replay \in [player : [movie : {BlankMovie, file}, cursor : 0..Len(file.records),
                             ids : {BindPlayer(replay.player.movie, ReplayTable).ids}],
                   frame : 0..MaxMovieFrames + 1]
    <3>1. file = BlankMovie \/ file = Finish(tape)
      BY <2>2
    <3>2. tape.records \in Seq(MovieRecords)
      BY <2>1 DEF Tapes
    <3>3. Len(file.records) \in Nat
      <4>1. Len(BlankMovie.records) = 0
        BY DEF BlankMovie
      <4>2. Finish(tape).records = tape.records
        BY DEF Finish
      <4> QED BY <3>1, <3>2, <4>1, <4>2
    <3>4. CASE stage \in {"record", "file"}
      <4>1. replay = [player |-> BindPlayer(BlankMovie, ReplayTable), frame |-> 0]
        BY <3>4 DEF MovieInv, FileInv
      <4>2. BindPlayer(BlankMovie, ReplayTable) =
              [movie |-> BlankMovie, cursor |-> 0, ids |-> BindPlayer(BlankMovie, ReplayTable).ids]
        BY DEF BindPlayer
      <4> QED BY <2>1, <3>3, <4>1, <4>2
    <3>5. CASE stage \in {"replay", "ended"}
      <4>1. replay \in [player : Players, frame : 0..file.frames]
        BY <3>5 DEF MovieInv, PlayInv
      <4>2. file.frames \in 0..MaxMovieFrames + 1
        <5>1. tape.frame \in 0..MaxMovieFrames
          BY <2>1 DEF Tapes
        <5>2. file.frames \in tape.frame..tape.frame + 1
          <6>1. file = Finish(tape)
            BY <3>5 DEF MovieInv, FileInv
          <6> QED BY <6>1, FinishedMovie DEF MovieInv
        <5> QED BY <2>1, <5>1, <5>2
      <4>3. replay.frame \in 0..MaxMovieFrames + 1
        BY <2>1, <4>1, <4>2
      <4> QED BY <4>1, <4>3 DEF Players
    <3> QED BY <2>2, <3>4, <3>5
  <2> QED BY <2>1, <2>2, <2>3 DEF MovieTypeOK, Tapes
<1> QED BY <1>1, MovieInvariant, PTL

(* Any take decodes and binds on a build that kept its controls, and gives   *)
(* the machine that replays it, frame by frame and control by control, what  *)
(* the first one received (harness/src/movie.rs, frontend/src/movie.rs).     *)
THEOREM TakesReplay == MovieSpec => []ReplayFaithful
<1>1. MovieInv => ReplayFaithful
  <2> SUFFICES ASSUME MovieInv PROVE ReplayFaithful
    OBVIOUS
  <2>1. FinishedMovieDecodes
    BY FinishedMovie DEF MovieInv, FileInv, FinishedMovieDecodes
  <2>2. ASSUME stage \in {"replay", "ended"}
        PROVE  /\ IsPrefix(replayed, heard) /\ Len(replayed) = replay.player.cursor
               /\ Len(heard) = Len(file.records) /\ Len(heard) \in Nat
               /\ replay.player.cursor \in 0..Len(heard)
               /\ \A i \in 1..Len(heard) : heard[i].frame = file.records[i].frame
               /\ DOMAIN heard = 1..Len(heard)
               /\ replayed = [i \in 1..replay.player.cursor |-> heard[i]]
               /\ heard = [i \in 1..Len(heard) |-> heard[i]]
    <3> DEFINE records == tape.records
               n == Len(records)
               c == replay.player.cursor
               S == {heard[i] : i \in 1..n}
    <3>1. records \in Seq(MovieRecords) /\ n \in Nat
      BY DEF MovieInv, TapeInv, Tapes
    <3>2. file.records = records
      BY <2>2, FinishedMovie DEF MovieInv, FileInv
    <3>3. heard = [i \in 1..n |-> Means(records[i])]
      BY DEF MovieInv, TapeInv, MeaningOf
    <3>4. c \in 0..n /\ replayed = [i \in 1..c |-> heard[i]]
      BY <2>2, <3>2 DEF MovieInv, PlayInv, Players
    <3> HIDE DEF c, n
    <3>5. heard \in Seq(S) /\ Len(heard) = n /\ DOMAIN heard = 1..n
          /\ heard = [i \in 1..n |-> heard[i]]
      BY <3>1, <3>3
    <3>6. replayed \in Seq(S) /\ Len(replayed) = c
      BY <3>1, <3>4
    <3>7. IsPrefix(replayed, heard)
      <4>1. Len(replayed) <= Len(heard)
        BY <3>1, <3>4, <3>5, <3>6
      <4>2. SubSeq(replayed, 1, c) = [i \in 1..c |-> heard[i]]
            /\ SubSeq(heard, 1, c) = [i \in 1..c |-> heard[i]]
        <5>1. SubSeq(replayed, 1, c) = [i \in 1..c |-> replayed[i]]
              /\ SubSeq(heard, 1, c) = [i \in 1..c |-> heard[i]]
          BY <3>1, <3>4, <3>5, <3>6
        <5> QED BY <3>4, <5>1
      <4> QED BY <3>6, <4>1, <4>2 DEF IsPrefix
    <3>8. \A i \in 1..n : heard[i].frame = records[i].frame
      BY <3>3 DEF Means
    <3> QED BY <3>1, <3>2, <3>4, <3>5, <3>6, <3>7, <3>8 DEF c, n
  <2>3. SameCalls
    <3> SUFFICES ASSUME stage \in {"replay", "ended"},
                        NEW i \in DOMAIN heard, heard[i].frame < replay.frame
                 PROVE  i <= Len(replayed)
      BY <2>2 DEF SameCalls
    <3>1. i \in 1..Len(file.records) /\ file.records[i].frame < replay.frame
      BY <2>2
    <3>2. CursorAt(file.records, replay.player.cursor, replay.frame)
      BY DEF MovieInv, PlayInv
    <3> QED BY <2>2, <3>1, <3>2 DEF CursorAt
  <2>4. NothingUndelivered
    <3> SUFFICES ASSUME stage = "ended"
                 PROVE  replayed = heard /\ replay.player.cursor = Len(file.records)
      BY DEF NothingUndelivered
    <3> DEFINE n == Len(file.records)
               c == replay.player.cursor
    <3>1. n \in Nat /\ c \in 0..n /\ Len(heard) = n
      BY <2>2
    <3>2. \A i \in 1..n : file.records[i].frame < file.frames
      BY FinishedMovie DEF MovieInv, FileInv
    <3>3. replay.frame = file.frames
      <4>1. replay.frame \in 0..file.frames /\ replay.frame >= file.frames
        BY DEF MovieInv, PlayInv
      <4>2. file.frames \in Nat
        <5>1. file = Finish(tape) /\ tape.frame \in Nat
          BY MovieAssumption DEF MovieInv, FileInv, TapeInv, Tapes
        <5> QED BY <5>1, FinishedMovie DEF MovieInv
      <4> QED BY <4>1, <4>2
    <3>4. \A i \in 1..n : i <= c
      <4>1. CursorAt(file.records, c, replay.frame)
        BY DEF MovieInv, PlayInv
      <4> QED BY <3>2, <3>3, <4>1 DEF CursorAt
    <3> HIDE DEF n, c
    <3>5. c = n
      BY <3>1, <3>4
    <3> QED BY <2>2, <3>1, <3>5 DEF n, c
  <2> QED BY <2>1, <2>3, <2>4 DEF ReplayFaithful
<1> QED BY <1>1, MovieInvariant, PTL
=============================================================================
