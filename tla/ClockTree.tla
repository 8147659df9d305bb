----------------------------- MODULE ClockTree -----------------------------
(* core/src/core/clock_tree.rs: the clocks of a board, each a ratio to a     *)
(* crystal and, derived from it, to the clock the board's loop steps in.  A  *)
(* board declares its tree, retunes a clock from its program, and saves and  *)
(* loads; the speech chip on the retuned clock keeps the rate of its own     *)
(* (machines/src/gottlieb.rs, atari_system1_sound.rs).  A tree is a function *)
(* from the domains declared so far, numbered in order.  Names, the raster   *)
(* and the u128 arithmetic of rates, exact here, are left out.               *)
EXTENDS Integers

CONSTANTS Crystals,     \* crystal -> Hz
          Declared,     \* 1..n -> [root, num, den]: what add_domain is given
          StepDomains,  \* domains nominated as the stepping domain
          Ticked,       \* domains the board steps with tick, not advance
          Speech,       \* the domain of the speech chip
          Rates,        \* Hz the board's program tunes Speech to
          MaxU32,       \* u32::MAX
          MaxTicks      \* bound: cycles counted since a clock was last set

Domains == DOMAIN Declared

ASSUME CrystalsAssumption == \A c \in DOMAIN Crystals : Crystals[c] \in Nat \ {0}
ASSUME DeclaredAssumption ==
  /\ Domains \subseteq Nat \ {0}
  /\ \A i \in Domains : /\ Declared[i].root \in DOMAIN Crystals
                        /\ Declared[i].num \in Nat \ {0} /\ Declared[i].den \in Nat \ {0}
ASSUME RatesAssumption == Rates \subseteq Nat \ {0}
ASSUME BoundsAssumption == MaxU32 \in Nat /\ MaxTicks \in Nat

VARIABLES domains,   \* domain -> its ratios and phase, over those declared
          step,      \* the stepping domain, or None
          device,    \* Hz the speech chip runs its own dividers at
          saved,     \* a save state of the board, or NothingSaved
          loaded,    \* a state has been loaded into this tree
          counted,   \* domain -> cycles and firings since its ratio was set
          target     \* domain -> the rate it was last given, <<num, den>> Hz

clockVars == <<domains, step, device, saved, loaded, counted, target>>

None == 0
Empty == [i \in {} |-> 0]
NothingSaved == [step |-> None, domains |-> Empty, target |-> Empty]
Known == DOMAIN domains

-----------------------------------------------------------------------------
(* Rates and ratios, as <<numerator, denominator>>.                          *)

gcds(a, b) ==
  {g \in 1..b : /\ a % g = 0 /\ b % g = 0
                /\ \A h \in (g + 1)..b : a % h # 0 \/ b % h # 0}

(* reduce_to_u32: the one reduced ratio, or none where the code panics.      *)
reduce_to_u32(num, den) ==
  {r \in {<<num \div g, den \div g>> : g \in gcds(num, den)} : r[1] + r[2] <= MaxU32}

root_hz_ratio(d) == <<Crystals[d.root] * d.root_num, d.root_den>>

(* The ratio of a rate to that of the stepping domain.                       *)
AgainstStep(rate, stepRate) == reduce_to_u32(rate[1] * stepRate[2], rate[2] * stepRate[1])

hz_ratio(ds, s, i) ==
  LET stepRate == root_hz_ratio(ds[s])
  IN IF s = i THEN stepRate
     ELSE <<stepRate[1] * ds[i].step_num, stepRate[2] * ds[i].step_den>>
hz(ds, s, i) ==
  LET rate == hz_ratio(ds, s, i) IN (rate[1] + (rate[2] \div 2)) \div rate[2]

-----------------------------------------------------------------------------
(* A new step ratio, the phase folded into its period.                       *)
WithRatioUnfolded(d, ratio) ==
  [d EXCEPT !.step_num = ratio[1], !.step_den = ratio[2]]
WithRatio(d, ratio) ==
  [d EXCEPT !.step_num = ratio[1], !.step_den = ratio[2],
            !.phase = IF @ >= ratio[2] THEN @ % ratio[2] ELSE @]

StepRatios(ds, s, i) ==
  IF i = s THEN {<<1, 1>>} ELSE AgainstStep(root_hz_ratio(ds[i]), root_hz_ratio(ds[s]))

(* recompute_step_ratios: every domain against the stepping one.             *)
recompute_step_ratios(ds, s) ==
  [i \in DOMAIN ds |-> WithRatio(ds[i], CHOOSE r \in StepRatios(ds, s, i) : TRUE)]
Representable(ds, s) == \A i \in DOMAIN ds : StepRatios(ds, s, i) # {}

(* tick fires once at most: for a domain no faster than the stepping one.    *)
advance(d) ==
  [after |-> [d EXCEPT !.phase = (@ + d.step_num) % d.step_den],
   fired |-> (d.phase + d.step_num) \div d.step_den]
tickFromZero(d) ==
  IF d.phase + d.step_num >= d.step_den
    THEN [after |-> [d EXCEPT !.phase = 0], fired |-> 1]
    ELSE [after |-> [d EXCEPT !.phase = @ + d.step_num], fired |-> 0]
tick(d) ==
  IF d.phase + d.step_num >= d.step_den
    THEN [after |-> [d EXCEPT !.phase = @ + d.step_num - d.step_den], fired |-> 1]
    ELSE [after |-> [d EXCEPT !.phase = @ + d.step_num], fired |-> 0]
Advanced(i) == IF i \in Ticked THEN tick(domains[i]) ELSE advance(domains[i])
Outruns(d) == d.step_num > d.step_den

Since(d) == [ticks |-> 0, fired |-> 0, from |-> d.phase]
NewDomain(decl) ==
  [root |-> decl.root, root_num |-> decl.num, root_den |-> decl.den,
   step_num |-> 0, step_den |-> 1, phase |-> 0]

(* The chip is built for the rate the finished tree gives its domain.        *)
Chip(ds, s) ==
  IF device = None /\ s # None /\ Speech \in DOMAIN ds THEN hz(ds, s, Speech) ELSE device

-----------------------------------------------------------------------------
(* Building a board: add_domain, before or after the stepping domain is      *)
(* nominated, and set_step_domain, which may be called again, on a domain as *)
(* declared (no board nominates a clock it tunes).                           *)

add_domain(i) ==
  LET grown == [k \in Known \cup {i} |->
                  IF k = i THEN NewDomain(Declared[i]) ELSE domains[k]]
  IN /\ ~loaded
     /\ i \notin Known /\ \A k \in Domains : k < i => k \in Known
     /\ step # None => Representable(grown, step)
     /\ domains' = IF step = None THEN grown ELSE recompute_step_ratios(grown, step)
     /\ counted' = [k \in DOMAIN grown |-> Since(domains'[k])]
     /\ target' = [k \in DOMAIN grown |->
                     IF k = i THEN root_hz_ratio(grown[i]) ELSE target[k]]
     /\ device' = Chip(domains', step)
     /\ UNCHANGED <<step, saved, loaded>>

set_step_domain(s) ==
  /\ ~loaded
  /\ s \in Known /\ Representable(domains, s)
  /\ target[s] = root_hz_ratio(NewDomain(Declared[s]))
  /\ step' = s
  /\ domains' = recompute_step_ratios(domains, s)
  /\ counted' = [k \in Known |-> Since(domains'[k])]
  /\ device' = Chip(domains', s)
  /\ UNCHANGED <<saved, loaded, target>>

(* set_domain_hz on the speech clock, with the chip's own set_clock.         *)
set_domain_hz(rate) ==
  /\ step # None /\ Speech \in Known /\ step # Speech
  /\ \E root \in reduce_to_u32(rate, Crystals[domains[Speech].root]) :
     \E ratio \in AgainstStep(<<rate, 1>>, root_hz_ratio(domains[step])) :
       domains' = [domains EXCEPT
         ![Speech] = [WithRatio(@, ratio) EXCEPT !.root_num = root[1], !.root_den = root[2]]]
  /\ device' = rate
  /\ counted' = [counted EXCEPT ![Speech] = Since(domains'[Speech])]
  /\ target' = [target EXCEPT ![Speech] = <<rate, 1>>]
  /\ UNCHANGED <<step, saved, loaded>>

(* One cycle of the board's loop; tick asserts its domain does not outrun it.*)
ClockCycle ==
  /\ step # None
  /\ \A i \in Known \cap Ticked : ~Outruns(domains[i])
  /\ \A i \in Known : counted[i].ticks < MaxTicks
  /\ domains' = [i \in Known |-> Advanced(i).after]
  /\ counted' = [i \in Known |-> [counted[i] EXCEPT !.ticks = @ + 1,
                                                    !.fired = @ + Advanced(i).fired]]
  /\ UNCHANGED <<step, device, saved, loaded, target>>

(* ClockTree::reset: the phases; the rates stay as they were tuned.          *)
reset ==
  /\ domains' = [i \in Known |-> [domains[i] EXCEPT !.phase = 0]]
  /\ counted' = [i \in Known |-> Since(domains'[i])]
  /\ UNCHANGED <<step, device, saved, loaded, target>>

(* A save holds the step ratios and phases, not the ratios to the crystals;  *)
(* it is loaded into a board of the same build, which feeds the chip again.  *)
Save ==
  /\ step # None
  /\ saved' = [step |-> step, domains |-> domains, target |-> target]
  /\ UNCHANGED <<domains, step, device, loaded, counted, target>>

RestoredPhase(d, from) == [d EXCEPT !.phase = from.phase]
Restored(d, from) ==
  [d EXCEPT !.step_num = from.step_num, !.step_den = from.step_den, !.phase = from.phase]

(* Gottlieb's reapply_speech_clock.                                          *)
no_reapply(ds) == device
reapply_speech_clock(ds) == IF Speech \in Known THEN hz(ds, step, Speech) ELSE device

Load ==
  /\ saved.step # None /\ saved.step = step /\ DOMAIN saved.domains = Known
  /\ domains' = [i \in Known |-> Restored(domains[i], saved.domains[i])]
  /\ device' = reapply_speech_clock(domains')
  /\ loaded' = TRUE
  /\ counted' = [i \in Known |-> Since(domains'[i])]
  /\ target' = saved.target
  /\ UNCHANGED <<step, saved>>

(* The frontend builds the machine anew; the save stays on disk.             *)
Rebuild ==
  /\ domains' = Empty /\ step' = None /\ loaded' = FALSE
  /\ device' = None
  /\ counted' = Empty /\ target' = Empty
  /\ UNCHANGED saved

ClockInit ==
  /\ domains = Empty /\ step = None /\ device = None
  /\ saved = NothingSaved /\ loaded = FALSE
  /\ counted = Empty /\ target = Empty

ClockNext == \/ \E i \in Domains : add_domain(i)
             \/ \E s \in StepDomains : set_step_domain(s)
             \/ \E rate \in Rates : set_domain_hz(rate)
             \/ ClockCycle \/ reset \/ Save \/ Load \/ Rebuild

ClockSpec == ClockInit /\ [][ClockNext]_clockVars
-----------------------------------------------------------------------------
DomainType ==
  [root : DOMAIN Crystals, root_num : Nat, root_den : Nat \ {0},
   step_num : Nat, step_den : Nat \ {0}, phase : Nat]

(* Every variable stays in its type, and every phase below its period: the   *)
(* u32 accumulator of advance and tick never overflows, nor does a phase     *)
(* left from a longer period hold a domain up (WithRatio's fold, Load).      *)
ClockTypeOK ==
  /\ Known \subseteq Domains
  /\ domains \in [Known -> DomainType]
  /\ \A i \in Known : domains[i].phase < domains[i].step_den
  /\ step \in Known \cup {None}
  /\ device \in Nat
  /\ DOMAIN saved.domains \subseteq Domains
  /\ saved.domains \in [DOMAIN saved.domains -> DomainType]
  /\ \A i \in DOMAIN saved.domains : saved.domains[i].phase < saved.domains[i].step_den
  /\ counted \in [Known -> [ticks : Nat, fired : Nat, from : Nat]]

(* A clock neither gains nor loses a firing, however long it runs: those     *)
(* since it was last set are its ratio times the cycles, to the phase, at    *)
(* whatever phase the retune, the renomination or the load left it.          *)
FiresExact ==
  \A i \in Known :
    counted[i].fired * domains[i].step_den + domains[i].phase
      = counted[i].from + counted[i].ticks * domains[i].step_num

(* Every domain runs at exactly the rate it was last given, be it declared,  *)
(* tuned or loaded, with domains declared and the stepping domain chosen in  *)
(* any order around it, and although a save drops the ratio to the crystal.  *)
RatesExact ==
  step # None =>
    \A i \in Known :
      LET rate == hz_ratio(domains, step, i)
      IN rate[1] * target[i][2] = rate[2] * target[i][1]

(* The speech chip and its clock domain agree on the rate, through retunes   *)
(* before and after a save, a reset, a load and a rebuild: "a rate that      *)
(* reaches one but not the other is how the speech clock got out of step in  *)
(* the first place" (set_votrax_clock, reapply_speech_clock).                *)
ChipInStep == step # None /\ Speech \in Known => device = hz(domains, step, Speech)
=============================================================================
