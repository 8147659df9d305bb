---------------------------- MODULE Watchpoints ----------------------------
(* core/src/core/watchpoint.rs: a set of watchpoints and its bounded queue   *)
(* of hits, driven by the accesses of a running machine and by a debugger    *)
(* that sets, clears and drains when it likes.  Hits are numbered as they    *)
(* fire; cpu, phase and the other labels of a hit are left out.              *)
EXTENDS Integers, Sequences

CONSTANTS Addresses, Kinds, Values,
          Conditions,        \* [test, value]: "always", "changed", "equals" a value
          MaxPendingHits,    \* MAX_PENDING_HITS
          SaturateAt,        \* the largest dropped_after, u32::MAX in the code
          MaxWatched,        \* bound: watchpoints set at once
          MaxFired           \* bound: hits fired in all

(* Always and Changed carry no value; Bits, a test of the value alone like   *)
(* Equals, is not a case of its own.                                         *)
ASSUME WatchAssumption ==
  /\ Conditions \subseteq [test : {"always", "changed"}, value : {0}]
                         \cup [test : {"equals"}, value : Values]
  /\ Values \subseteq Nat
  /\ MaxPendingHits \in Nat /\ MaxPendingHits > 0 /\ SaturateAt \in Nat
  /\ MaxWatched \in Nat /\ MaxFired \in Nat

VARIABLES watched,       \* the watchpoints, in the order they were set
          pending,       \* pending_hits: the queue, oldest first
          fired,         \* hits fired so far
          last           \* last value accessed at each <<addr, kind>> since its
                         \* "changed" watchpoint was set, or NoValue

watchVars == <<watched, pending, fired, last>>

NoValue == -1

Identity(w) == <<w.addr, w.kind, w.condition>>
Watched == {watched[i] : i \in DOMAIN watched}

(* evaluate, and the history of a Changed watchpoint after it.               *)
Satisfied(w, value) ==
  CASE w.condition.test = "always"  -> TRUE
    [] w.condition.test = "changed" -> w.last # value
    [] OTHER                   -> w.condition.value = value
Observe(w, value) == IF w.condition.test = "changed" THEN [w EXCEPT !.last = value] ELSE w

Matches(w, addr, kind) == w.addr = addr /\ w.kind = kind
fires(addr, kind, value) ==
  \E w \in Watched : Matches(w, addr, kind) /\ Satisfied(w, value)
EvaluatedToFirst(addr, kind, value) ==
  LET Fires(i) == Matches(watched[i], addr, kind) /\ Satisfied(watched[i], value)
  IN [i \in DOMAIN watched |->
        IF Matches(watched[i], addr, kind) /\ \A j \in 1..(i - 1) : ~Fires(j)
          THEN Observe(watched[i], value) ELSE watched[i]]
Evaluated(addr, kind, value) ==
  [i \in DOMAIN watched |-> IF Matches(watched[i], addr, kind)
                              THEN Observe(watched[i], value) ELSE watched[i]]

(* push_hit: a hit that does not fit is counted on the last one that did.    *)
push_hit_on_first(queue, hit) ==
  IF Len(queue) < MaxPendingHits THEN Append(queue, hit)
  ELSE [queue EXCEPT ![1].dropped_after = IF @ < SaturateAt THEN @ + 1 ELSE @]
push_hit_unbounded(queue, hit) == Append(queue, hit)
push_hit(queue, hit) ==
  IF Len(queue) < MaxPendingHits THEN Append(queue, hit)
  ELSE [queue EXCEPT ![Len(queue)].dropped_after = IF @ < SaturateAt THEN @ + 1 ELSE @]

set_cond(addr, kind, condition) ==
  LET new == \A w \in Watched : Identity(w) # <<addr, kind, condition>>
  IN /\ Len(watched) < MaxWatched
     /\ watched' = IF ~new THEN watched
                   ELSE Append(watched, [addr |-> addr, kind |-> kind,
                                         condition |-> condition, last |-> NoValue])
     /\ last' = IF new /\ condition.test = "changed" THEN [last EXCEPT ![<<addr, kind>>] = NoValue]
                                                ELSE last
     /\ UNCHANGED <<pending, fired>>

(* What `retain` keeps of the watchpoints, in order.                         *)
Without(list, addr, kind) ==
  LET kept[i \in 0..Len(list)] ==
        IF i = 0 THEN <<>>
        ELSE IF Matches(list[i], addr, kind) THEN kept[i - 1]
        ELSE Append(kept[i - 1], list[i])
  IN  kept[Len(list)]

clear(addr, kind) ==
  /\ watched' = Without(watched, addr, kind)
  /\ UNCHANGED <<pending, fired, last>>

clear_all == watched' = <<>> /\ pending' = <<>> /\ UNCHANGED <<fired, last>>

(* check_read and check_write: every matching watchpoint sees the value.     *)
check(addr, kind, value) ==
  /\ fired < MaxFired
  /\ watched' = Evaluated(addr, kind, value)
  /\ IF fires(addr, kind, value)
       THEN /\ fired' = fired + 1
            /\ pending' = push_hit(pending, [seq |-> fired + 1, dropped_after |-> 0])
       ELSE UNCHANGED <<fired, pending>>
  /\ last' = [last EXCEPT ![<<addr, kind>>] = value]

take_hit == pending # <<>> /\ pending' = Tail(pending) /\ UNCHANGED <<watched, fired, last>>

WatchInit == /\ watched = <<>> /\ pending = <<>> /\ fired = 0
             /\ last = [access \in Addresses \X Kinds |-> NoValue]

WatchNext == \/ \E addr \in Addresses, kind \in Kinds :
                  \/ \E condition \in Conditions : set_cond(addr, kind, condition)
                  \/ clear(addr, kind)
                  \/ \E value \in Values : check(addr, kind, value)
             \/ clear_all
             \/ take_hit

WatchSpec == WatchInit /\ [][WatchNext]_watchVars
-----------------------------------------------------------------------------
(* Every variable stays in its type, and no two watchpoints are the same.    *)
WatchTypeOK ==
  /\ watched \in Seq([addr : Addresses, kind : Kinds, condition : Conditions,
                      last : Values \cup {NoValue}])
  /\ \A i, j \in DOMAIN watched : Identity(watched[i]) = Identity(watched[j]) => i = j
  /\ pending \in Seq([seq : 1..MaxFired, dropped_after : 0..SaturateAt])
  /\ Len(pending) <= MaxPendingHits
  /\ fired \in 0..MaxFired
  /\ last \in [Addresses \X Kinds -> Values \cup {NoValue}]

(* What a hit says of the hits lost behind it: dropped_after, exactly until  *)
(* it saturates.                                                             *)
Follows(hit, seq) ==
  IF hit.dropped_after < SaturateAt THEN seq = hit.seq + hit.dropped_after + 1
                                    ELSE seq > hit.seq + hit.dropped_after

(* The queue says how much it is missing, wherever the loss is: hits are in  *)
(* the order they fired and every gap between two, or behind the last, is    *)
(* the first one's dropped_after, through overflows, partial drains and more *)
(* overflows (push_hit, take_hit).                                           *)
LossesAccounted ==
  /\ \A i \in 1..(Len(pending) - 1) : Follows(pending[i], pending[i + 1].seq)
  /\ pending # <<>> => Follows(pending[Len(pending)], fired + 1)

(* An access fires exactly when some watchpoint's own condition holds; a     *)
(* "changed" one compares with the last access since it was set, whether or  *)
(* not another watchpoint at the address fired for it (fires does not stop   *)
(* at the first that does), or a set was repeated in between.                *)
Holds(condition, addr, kind, value) ==
  \/ condition.test = "always"
  \/ condition.test = "changed" /\ last[addr, kind] # value
  \/ condition.test = "equals" /\ condition.value = value

FiresOnItsCondition ==
  [][\A addr \in Addresses, kind \in Kinds, value \in Values :
       check(addr, kind, value) =>
         (fired' # fired <=> \E condition \in Conditions :
            /\ \E w \in Watched : Identity(w) = <<addr, kind, condition>>
            /\ Holds(condition, addr, kind, value))]_watchVars
=============================================================================
