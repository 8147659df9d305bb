----------------------------- MODULE InputMovie -----------------------------
(* harness/src/movie.rs: the recorder that files every input call a machine  *)
(* receives under the frame in progress, the checks a file passes when it is *)
(* decoded, and the player that hands the records back frame by frame.       *)
(* Operators only; MovieRoundTrip and FrontendLoop are built from them.      *)
(*                                                                           *)
(* An input call is a record [op, id, value] with op "button", "absolute",   *)
(* "relative" (on the input id), "releaseAll" or "dip" (id and value are the *)
(* bank and its byte).  A movie record carries the control's position in the *)
(* movie's own table instead of the machine's id.  Markers change no machine *)
(* state and are left out.  Labels, digests, the deflate container and the   *)
(* byte encoding are abstracted: a decoded file is the movie encoded, if     *)
(* `Valid` accepts it.                                                       *)
EXTENDS Integers, Sequences, FiniteSetsExt, SequencesExt

ControlOps == {"button", "absolute", "relative"}

Call(op, id, value) == [op |-> op, id |-> id, value |-> value]
ReleaseAllCall == Call("releaseAll", 0, 0)

(* A control table is a sequence of [name, id].                              *)
Names(table) == [i \in DOMAIN table |-> table[i].name]
IndicesAsIds(table, id) == {i \in DOMAIN table : i = id}
IndicesOf(table, id) == {i \in DOMAIN table : table[i].id = id}

-----------------------------------------------------------------------------
(* MovieRecorder                                                             *)

NewRecorder(table, dip) ==
  [table |-> table, dip |-> dip, records |-> <<>>, frame |-> 0, unmapped |-> 0]

PushRecord(rec, op, ctl, value) ==
  [rec EXCEPT !.records =
     Append(@, [frame |-> rec.frame, op |-> op, ctl |-> ctl, value |-> value])]

(* A relative motion of zero is a no-op on every machine and is not kept; an *)
(* id outside the table is only counted.                                     *)
PushEventZeroAxis(rec, call) ==
  IF call.value = 0 /\ call.op # "button" THEN rec
  ELSE PushRecord(rec, call.op, Min(IndicesOf(rec.table, call.id)), call.value)
PushEvent(rec, call) ==
  IF call.op = "relative" /\ call.value = 0 THEN rec
  ELSE IF IndicesOf(rec.table, call.id) = {}
       THEN [rec EXCEPT !.unmapped = @ + 1]
       ELSE PushRecord(rec, call.op, Min(IndicesOf(rec.table, call.id)), call.value)

PushReleaseAll(rec) == PushRecord(rec, "releaseAll", 0, 0)
PushDip(rec, bank, value) == PushRecord(rec, "dip", bank, value)
AdvanceFrame(rec) == [rec EXCEPT !.frame = @ + 1]

(* Recording::handle_input and release_all_inputs, MovieCapture::push_dip:   *)
(* what a call made while recording leaves in the recorder.                  *)
Tee(rec, call) ==
  CASE call.op = "releaseAll" -> PushReleaseAll(rec)
    [] call.op = "dip" -> PushDip(rec, call.id, call.value)
    [] OTHER -> PushEvent(rec, call)

(* The declared span covers a record filed under the frame that never ended. *)
FinishShort(rec) ==
  [controls |-> Names(rec.table), dip |-> rec.dip,
   frames |-> rec.frame, records |-> rec.records]
Finish(rec) ==
  [controls |-> Names(rec.table), dip |-> rec.dip,
   frames |-> Max({rec.frame} \cup {r.frame + 1 : r \in ToSet(rec.records)}),
   records |-> rec.records]

-----------------------------------------------------------------------------
(* Movie::validate, run by decode.                                           *)

FramesMonotonic(movie) ==
  \A i, j \in DOMAIN movie.records :
    i < j => movie.records[i].frame <= movie.records[j].frame

FramesInRange(movie) ==
  \A r \in ToSet(movie.records) : movie.frames # 0 => r.frame < movie.frames

ControlsInRange(movie) ==
  \A r \in ToSet(movie.records) :
    r.op \in ControlOps => r.ctl \in DOMAIN movie.controls

Valid(movie) ==
  FramesMonotonic(movie) /\ FramesInRange(movie) /\ ControlsInRange(movie)

-----------------------------------------------------------------------------
(* MoviePlayer: a forward cursor over the records.                           *)

(* Every control the movie names must exist on this machine.                 *)
Binds(movie, table) ==
  \A i \in DOMAIN movie.controls : \E j \in DOMAIN table :
    table[j].name = movie.controls[i]

BindPlayerByPosition(movie, table) ==
  [movie |-> movie, cursor |-> 0,
   ids |-> [i \in DOMAIN movie.controls |-> table[i].id]]
BindPlayer(movie, table) ==
  [movie |-> movie, cursor |-> 0,
   ids |-> [i \in DOMAIN movie.controls |->
              table[Min({j \in DOMAIN table :
                           table[j].name = movie.controls[i]})].id]]

(* take_frame: discard the records of earlier frames, take those of `frame`. *)
(* `while` loops over the cursor stop at the first record that does not      *)
(* belong.                                                                   *)
FirstNot(records, from, Belongs(_)) ==
  Min({i \in from + 1..Len(records) : ~ Belongs(records[i])}
      \cup {Len(records) + 1}) - 1
SkipTo(player, frame) ==
  LET Earlier(r) == r.frame < frame
  IN  FirstNot(player.movie.records, player.cursor, Earlier)
TakeToFirst(player, frame) ==
  LET from == SkipTo(player, frame)
  IN  IF from < Len(player.movie.records) /\ player.movie.records[from + 1].frame = frame
      THEN from + 1 ELSE from
TakeTo(player, frame) ==
  LET Same(r) == r.frame = frame
  IN  FirstNot(player.movie.records, SkipTo(player, frame), Same)

TakeFrame(player, frame) == [player EXCEPT !.cursor = TakeTo(player, frame)]

(* deliver: the calls the machine receives for `frame`.                      *)
ToCall(player, r) ==
  Call(r.op, IF r.op \in ControlOps THEN player.ids[r.ctl] ELSE r.ctl, r.value)
Delivered(player, frame) ==
  LET taken == SubSeq(player.movie.records, SkipTo(player, frame) + 1,
                      TakeTo(player, frame))
  IN  [i \in DOMAIN taken |-> ToCall(player, taken[i])]
=============================================================================
