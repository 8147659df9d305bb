--------------------------- MODULE MovieRoundTrip ---------------------------
(* A session recorded on one build of a machine and replayed on another,     *)
(* whose control table lists the same controls in another order under other  *)
(* ids.  The recorder sits behind the tee of frontend/src/movie.rs; the      *)
(* replay is driven as the frontend does, delivering the frame in progress   *)
(* on every iteration of its loop, whether or not that iteration runs it.    *)
EXTENDS InputMovie

CONSTANTS RecordTable, ReplayTable,       \* control tables of the two builds
          MovieCalls,                     \* input calls the session may make
          MaxMovieCalls, MaxMovieFrames   \* bounds on the recorded session

(* Calls are made on the recording machine's controls; the replaying build   *)
(* kept every one of them, and an id is one control's alone (InputControl).  *)
ASSUME MovieAssumption ==
  /\ RecordTable \in Seq([name : STRING, id : Nat])
  /\ ReplayTable \in Seq([name : STRING, id : Nat])
  /\ \A i \in DOMAIN RecordTable : \E j \in DOMAIN ReplayTable :
       ReplayTable[j].name = RecordTable[i].name
  /\ \A i, j \in DOMAIN ReplayTable :
       ReplayTable[i].id = ReplayTable[j].id => ReplayTable[i].name = ReplayTable[j].name
  /\ MovieCalls \subseteq [op : ControlOps \cup {"releaseAll", "dip"}, id : Nat, value : Int]
  /\ \A call \in MovieCalls :
       /\ call.op \in ControlOps => IndicesOf(RecordTable, call.id) # {}
       /\ call.op = "releaseAll" => call = ReleaseAllCall
  /\ MaxMovieCalls \in Nat /\ MaxMovieFrames \in Nat

VARIABLES stage,      \* "record", "file", "replay" or "ended"
          tape,       \* MovieRecorder
          file,       \* the movie written
          replay,     \* MoviePlayback: [player, frame]
          heard,      \* history: what the session told the machine it played on
          replayed    \* history: what the movie told the machine that replays

movieVars == <<stage, tape, file, replay, heard, replayed>>

BlankMovie == [controls |-> <<>>, dip |-> <<>>, frames |-> 0, records |-> <<>>]

MovieInit == /\ stage = "record"
             /\ tape = NewRecorder(RecordTable, <<>>)
             /\ file = BlankMovie
             /\ replay = [player |-> BindPlayer(BlankMovie, ReplayTable), frame |-> 0]
             /\ heard = <<>> /\ replayed = <<>>

(* What a call tells a machine in a frame.  Ids are the machine's own, so    *)
(* the control goes by its name; a relative motion of zero does nothing.     *)
NameOf(table, call) ==
  IF call.op \in ControlOps THEN table[Min(IndicesOf(table, call.id))].name ELSE ""
Told(table, now, call) ==
  [frame |-> now, op |-> call.op, control |-> NameOf(table, call),
   bank |-> IF call.op \in ControlOps THEN 0 ELSE call.id, value |-> call.value]
Silent(call) == call.op = "relative" /\ call.value = 0

InputCall(call) ==
  /\ stage = "record"
  /\ Len(heard) < MaxMovieCalls
  /\ tape' = Tee(tape, call)
  /\ heard' = IF Silent(call) THEN heard ELSE Append(heard, Told(RecordTable, tape.frame, call))
  /\ UNCHANGED <<stage, file, replay, replayed>>

RunRecordedFrame ==
  /\ stage = "record"
  /\ tape.frame < MaxMovieFrames
  /\ tape' = AdvanceFrame(tape)
  /\ UNCHANGED <<stage, file, replay, heard, replayed>>

(* MovieCapture::stop.                                                       *)
StopRecorder ==
  /\ stage = "record"
  /\ file' = Finish(tape)
  /\ stage' = "file"
  /\ UNCHANGED <<tape, replay, heard, replayed>>

(* Movie::decode and MoviePlayback::bind.                                    *)
BindFile ==
  /\ stage = "file"
  /\ Valid(file) /\ Binds(file, ReplayTable)
  /\ replay' = [player |-> BindPlayer(file, ReplayTable), frame |-> 0]
  /\ stage' = "replay"
  /\ UNCHANGED <<tape, file, heard, replayed>>

(* MoviePlayback::deliver; the loop repeats it while the emulator is paused. *)
(* An iteration that runs its frame then ends it (advance_frame).            *)
DeliverFrame(runs) ==
  /\ stage = "replay"
  /\ replay.frame < file.frames
  /\ LET calls == Delivered(replay.player, replay.frame)
     IN  replayed' = replayed \o [i \in DOMAIN calls |->
                                    Told(ReplayTable, replay.frame, calls[i])]
  /\ replay' = [player |-> TakeFrame(replay.player, replay.frame),
                frame |-> IF runs THEN replay.frame + 1 ELSE replay.frame]
  /\ UNCHANGED <<stage, tape, file, heard>>

(* MoviePlayback::finished: the playback is unbound.                         *)
Unbind ==
  /\ stage = "replay"
  /\ replay.frame >= file.frames
  /\ stage' = "ended"
  /\ UNCHANGED <<tape, file, replay, heard, replayed>>

MovieNext == \/ \E call \in MovieCalls : InputCall(call)
             \/ RunRecordedFrame
             \/ StopRecorder
             \/ BindFile
             \/ \E runs \in BOOLEAN : DeliverFrame(runs)
             \/ Unbind

MovieSpec == MovieInit /\ [][MovieNext]_movieVars

-----------------------------------------------------------------------------
MovieRecords == [frame : Nat, op : ControlOps \cup {"releaseAll", "dip"},
                 ctl : Nat, value : Int]

MovieTypeOK ==
  /\ stage \in {"record", "file", "replay", "ended"}
  /\ tape \in [table : {RecordTable}, dip : {<<>>}, records : Seq(MovieRecords),
               frame : 0..MaxMovieFrames, unmapped : {0}]
  /\ file \in {BlankMovie, Finish(tape)}
  /\ replay \in [player : [movie : {BlankMovie, file}, cursor : 0..Len(file.records),
                           ids : {BindPlayer(replay.player.movie, ReplayTable).ids}],
                 frame : 0..MaxMovieFrames + 1]

(* A movie the recorder finished is never refused when it is read back, even *)
(* if recording stopped between an input and the end of its frame.           *)
FinishedMovieDecodes ==
  stage = "file" => Valid(file) /\ Binds(file, ReplayTable)

(* The replaying machine is told what the first one was, in order, in the    *)
(* same frames and on the same controls; and no frame has run there that is  *)
(* short of a call.                                                          *)
SameCalls ==
  stage \in {"replay", "ended"} =>
    /\ IsPrefix(replayed, heard)
    /\ \A i \in DOMAIN heard : heard[i].frame < replay.frame => i <= Len(replayed)

(* When the playback ends all of it has been delivered, and no record is     *)
(* left for a frame that will not run.                                       *)
NothingUndelivered ==
  stage = "ended" => replayed = heard /\ replay.player.cursor = Len(file.records)

(* A take is replayed as it was recorded, wherever it was stopped.           *)
ReplayFaithful == FinishedMovieDecodes /\ SameCalls /\ NothingUndelivered
=============================================================================
