--------------------------- MODULE CountingProofs ---------------------------
(* What counts must count exactly.  The clock tree neither gains nor loses a *)
(* firing, runs every clock at the rate it was last given and keeps the      *)
(* speech chip on it, for every tree of domains, crystals, rates and width   *)
(* of the ratios.  A game that samples its trackball in time is never        *)
(* misled, for every width, step and motion.                                 *)
EXTENDS ClockTree, RelativeCounter, ArithmeticLemmas

-----------------------------------------------------------------------------
(* Products, which the provers take one step at a time.                      *)

(* A common factor may be taken away.                                        *)
LEMMA Cancel ==
  ASSUME NEW k \in Nat \ {0}, NEW x \in Int, NEW y \in Int
  PROVE /\ k * x = k * y => x = y
        /\ k * x <= k * y <=> x <= y
  <1>1. ASSUME x < y PROVE k * x < k * y
    <2>1. y - x \in Nat \ {0} BY <1>1
    <2>2. k * (y - x) > 0 BY <2>1
    <2>3. k * (y - x) = k * y - k * x OBVIOUS
    <2> QED BY <2>2, <2>3
  <1>2. ASSUME y < x PROVE k * y < k * x
    <2>1. x - y \in Nat \ {0} BY <1>2
    <2>2. k * (x - y) > 0 BY <2>1
    <2>3. k * (x - y) = k * x - k * y OBVIOUS
    <2> QED BY <2>2, <2>3
  <1>3. k * x \in Int /\ k * y \in Int OBVIOUS
  <1> QED BY <1>1, <1>2, <1>3

(* A natural number times a natural number is one; a factor distributes.     *)
LEMMA Products ==
  ASSUME NEW a \in Nat, NEW b \in Nat, NEW n \in Nat
  PROVE /\ a * n \in Nat /\ (a + b) * n = a * n + b * n /\ n * (a + b) = n * a + n * b
        /\ (a + 1) * n = a * n + n
  OBVIOUS

(* The product of two positive numbers is positive.                          *)
LEMMA Positive ==
  ASSUME NEW a \in Nat \ {0}, NEW b \in Nat \ {0}
  PROVE a * b \in Nat \ {0}
  OBVIOUS

(* Rates, pairs of a natural number and a positive one; two that are equal.  *)
Rate == Nat \X (Nat \ {0})
Same(p, q) == p[1] * q[2] = p[2] * q[1]

(* A ratio r between a rate and that of the step, over a base the step has,  *)
(* times the base is any rate equal to the first.                            *)
LEMMA Chained ==
  ASSUME NEW r1 \in Nat, NEW r2 \in Nat \ {0}, NEW rn \in Nat, NEW rd \in Nat \ {0},
         NEW sn \in Nat, NEW sd \in Nat \ {0}, NEW tn \in Nat, NEW td \in Nat \ {0},
         NEW bn \in Nat, NEW bd \in Nat \ {0},
         r1 * (rd * sn) = r2 * (rn * sd), rn * td = rd * tn, sn * bd = sd * bn
  PROVE (bn * r1) * td = (bd * r2) * tn
  <1>1. (sd * rd) * ((bn * r1) * td) = (sd * bn) * (rd * (r1 * td)) OBVIOUS
  <1>2. (sn * bd) * (rd * (r1 * td)) = (bd * td) * (r1 * (rd * sn)) OBVIOUS
  <1>3. (bd * td) * (r2 * (rn * sd)) = (bd * (r2 * sd)) * (rn * td) OBVIOUS
  <1>4. (bd * (r2 * sd)) * (rd * tn) = (sd * rd) * ((bd * r2) * tn) OBVIOUS
  <1>5. (sd * rd) * ((bn * r1) * td) = (sd * rd) * ((bd * r2) * tn)
    BY <1>1, <1>2, <1>3, <1>4
  <1>6. sd * rd \in Nat \ {0} BY Positive
  <1>7. (bn * r1) * td \in Int /\ (bd * r2) * tn \in Int OBVIOUS
  <1> QED BY <1>5, <1>6, <1>7, Cancel

(* The same, for rates as pairs.                                             *)
LEMMA ChainedRates ==
  ASSUME NEW r \in Rate, NEW p \in Rate, NEW q \in Rate, NEW t \in Rate, NEW b \in Rate,
         r[1] * (p[2] * q[1]) = r[2] * (p[1] * q[2]), Same(p, t), Same(q, b)
  PROVE (b[1] * r[1]) * t[2] = (b[2] * r[2]) * t[1]
  <1> DEFINE r1 == r[1]  r2 == r[2]  rn == p[1]  rd == p[2]  sn == q[1]  sd == q[2]
             tn == t[1]  td == t[2]  bn == b[1]  bd == b[2]
  <1>1. /\ r1 \in Nat /\ r2 \in Nat \ {0} /\ rn \in Nat /\ rd \in Nat \ {0}
        /\ sn \in Nat /\ sd \in Nat \ {0} /\ tn \in Nat /\ td \in Nat \ {0}
        /\ bn \in Nat /\ bd \in Nat \ {0}
    BY DEF Rate
  <1>2. r1 * (rd * sn) = r2 * (rn * sd) /\ rn * td = rd * tn /\ sn * bd = sd * bn
    BY DEF Same
  <1> HIDE DEF r1, r2, rn, rd, sn, sd, tn, td, bn, bd
  <1>3. (bn * r1) * td = (bd * r2) * tn BY <1>1, <1>2, Chained
  <1> QED BY <1>3 DEF r1, r2, tn, td, bn, bd

(* What is exact against the base is exact against an equal step rate.       *)
LEMMA Rebased ==
  ASSUME NEW x \in Nat, NEW y \in Nat \ {0}, NEW sn \in Nat, NEW sd \in Nat \ {0},
         NEW tn \in Nat, NEW td \in Nat \ {0}, NEW bn \in Nat, NEW bd \in Nat \ {0},
         sn * bd = sd * bn, (bn * x) * td = (bd * y) * tn
  PROVE (sn * x) * td = (sd * y) * tn
  <1>1. bd * ((sn * x) * td) = (sn * bd) * (x * td) OBVIOUS
  <1>2. (sd * bn) * (x * td) = sd * ((bn * x) * td) OBVIOUS
  <1>3. sd * ((bd * y) * tn) = bd * ((sd * y) * tn) OBVIOUS
  <1>4. bd * ((sn * x) * td) = bd * ((sd * y) * tn) BY <1>1, <1>2, <1>3
  <1>5. (sn * x) * td \in Int /\ (sd * y) * tn \in Int OBVIOUS
  <1> QED BY <1>4, <1>5, Cancel

(* Rounding to whole Hz, half up: the one q with 2bq <= 2a + b < 2b(q + 1).  *)
Rounded(p) == (p[1] + (p[2] \div 2)) \div p[2]

(* The rounding is that q.                                                   *)
LEMMA RoundedIs ==
  ASSUME NEW p \in Rate
  PROVE /\ Rounded(p) \in Nat
        /\ p[2] * (2 * Rounded(p)) <= 2 * p[1] + p[2]
        /\ 2 * p[1] + p[2] < p[2] * (2 * (Rounded(p) + 1))
  <1> DEFINE a == p[1]
             b == p[2]
             h == b \div 2
             q == (a + h) \div b
             r == (a + h) % b
  <1>1. a \in Nat /\ b \in Nat \ {0} BY DEF Rate
  <1> HIDE DEF a, b
  <1>2. h \in Nat /\ (b = 2 * h \/ b = 2 * h + 1) BY <1>1
  <1> HIDE DEF h
  <1>3. a + h \in Nat BY <1>1, <1>2
  <1>4. q \in Int /\ r \in 0..b - 1 /\ a + h = b * q + r
    <2>1. b \in Nat /\ b > 0 /\ a + h \in Int BY <1>1, <1>3
    <2> QED BY <2>1, DivMod
  <1>5. q \in Nat BY <1>1, <1>3
  <1> HIDE DEF q, r
  <1>6. /\ b * (2 * q) = 2 * (b * q) /\ b * (2 * (q + 1)) = 2 * (b * q) + 2 * b
        /\ b * q \in Nat
    BY <1>1, <1>5
  <1>7. b * (2 * q) <= 2 * a + b /\ 2 * a + b < b * (2 * (q + 1))
    BY <1>1, <1>2, <1>4, <1>6
  <1>8. Rounded(p) = q BY DEF Rounded, q, h, a, b
  <1> QED BY <1>5, <1>7, <1>8 DEF a, b

(* Equal rates round to the same Hz.                                         *)
LEMMA RoundedSame ==
  ASSUME NEW p \in Rate, NEW t \in Rate, Same(p, t)
  PROVE Rounded(p) = Rounded(t)
  <1> DEFINE q == Rounded(p)
             u == Rounded(t)
  <1>1. /\ p[1] \in Nat /\ p[2] \in Nat \ {0} /\ t[1] \in Nat /\ t[2] \in Nat \ {0}
        /\ p[1] * t[2] = p[2] * t[1]
    BY DEF Rate, Same
  <1>2. /\ q \in Nat /\ u \in Nat
        /\ p[2] * (2 * q) <= 2 * p[1] + p[2] /\ 2 * p[1] + p[2] < p[2] * (2 * (q + 1))
        /\ t[2] * (2 * u) <= 2 * t[1] + t[2] /\ 2 * t[1] + t[2] < t[2] * (2 * (u + 1))
    BY RoundedIs
  <1> HIDE DEF q, u
  <1>3. \A n \in Nat : p[2] * (2 * n) <= 2 * p[1] + p[2] <=> t[2] * (2 * n) <= 2 * t[1] + t[2]
    <2> SUFFICES ASSUME NEW n \in Nat
                 PROVE p[2] * (2 * n) <= 2 * p[1] + p[2] <=> t[2] * (2 * n) <= 2 * t[1] + t[2]
      OBVIOUS
    <2>1. /\ p[2] * (2 * n) \in Int /\ 2 * p[1] + p[2] \in Int
          /\ t[2] * (2 * n) \in Int /\ 2 * t[1] + t[2] \in Int
      BY <1>1
    <2>2. t[2] * (p[2] * (2 * n)) = p[2] * (t[2] * (2 * n)) BY <1>1
    <2>3. t[2] * (2 * p[1] + p[2]) = 2 * (p[1] * t[2]) + p[2] * t[2] BY <1>1
    <2>4. p[2] * (2 * t[1] + t[2]) = 2 * (p[2] * t[1]) + p[2] * t[2] BY <1>1
    <2>5. t[2] * (p[2] * (2 * n)) <= t[2] * (2 * p[1] + p[2])
            <=> p[2] * (2 * n) <= 2 * p[1] + p[2]
      BY <1>1, <2>1, Cancel
    <2>6. p[2] * (t[2] * (2 * n)) <= p[2] * (2 * t[1] + t[2])
            <=> t[2] * (2 * n) <= 2 * t[1] + t[2]
      BY <1>1, <2>1, Cancel
    <2>7. t[2] * (2 * p[1] + p[2]) = p[2] * (2 * t[1] + t[2]) BY <1>1, <2>3, <2>4
    <2> QED BY <2>2, <2>5, <2>6, <2>7
  <1>4. ~ (q < u)
    <2> SUFFICES ASSUME q < u PROVE FALSE OBVIOUS
    <2>1. p[2] * (2 * u) <= 2 * p[1] + p[2] BY <1>2, <1>3
    <2>2. p[2] * (2 * (q + 1)) <= p[2] * (2 * u)
      <3>1. 2 * (q + 1) <= 2 * u /\ 2 * (q + 1) \in Int /\ 2 * u \in Int BY <1>2
      <3> QED BY <1>1, <3>1, Cancel
    <2>3. p[2] * (2 * (q + 1)) \in Int /\ p[2] * (2 * u) \in Int BY <1>1, <1>2
    <2> QED BY <1>1, <1>2, <2>1, <2>2, <2>3
  <1>5. ~ (u < q)
    <2> SUFFICES ASSUME u < q PROVE FALSE OBVIOUS
    <2>1. t[2] * (2 * q) <= 2 * t[1] + t[2] BY <1>2, <1>3
    <2>2. t[2] * (2 * (u + 1)) <= t[2] * (2 * q)
      <3>1. 2 * (u + 1) <= 2 * q /\ 2 * (u + 1) \in Int /\ 2 * q \in Int BY <1>2
      <3> QED BY <1>1, <3>1, Cancel
    <2>3. t[2] * (2 * (u + 1)) \in Int /\ t[2] * (2 * q) \in Int BY <1>1, <1>2
    <2> QED BY <1>1, <1>2, <2>1, <2>2, <2>3
  <1> QED BY <1>2, <1>4, <1>5 DEF q, u

-----------------------------------------------------------------------------
(* The ratios and the domains they are of.                                   *)

(* A reduced ratio is the ratio it was reduced from.                         *)
LEMMA Reduced ==
  ASSUME NEW num \in Nat, NEW den \in Nat, NEW r \in reduce_to_u32(num, den)
  PROVE r \in Rate /\ r[1] * den = r[2] * num
  <1>1. PICK g \in gcds(num, den) : r = <<num \div g, den \div g>>
    BY DEF reduce_to_u32
  <1>2. g \in 1..den /\ num % g = 0 /\ den % g = 0
    BY <1>1 DEF gcds
  <1> DEFINE n == num \div g
             d == den \div g
  <1>3. n \in Nat /\ d \in Nat BY <1>2
  <1>4. num = g * n /\ den = g * d
    <2>1. g \in Nat /\ g > 0 BY <1>2
    <2>2. num = g * (num \div g) + (num % g) BY <2>1, DivMod
    <2>3. den = g * (den \div g) + (den % g) BY <2>1, DivMod
    <2>4. g * n \in Int /\ g * d \in Int BY <1>3, <2>1
    <2> QED BY <1>2, <2>2, <2>3, <2>4
  <1>5. r = <<n, d>> BY <1>1
  <1> HIDE DEF n, d
  <1>6. d # 0
    <2>1. den > 0 /\ g * 0 = 0 BY <1>2
    <2> QED BY <1>4, <2>1
  <1>7. n * (g * d) = d * (g * n) BY <1>2, <1>3
  <1> QED BY <1>3, <1>4, <1>5, <1>6, <1>7 DEF Rate

(* A domain's fields, one by one.                                            *)
LEMMA Fields ==
  ASSUME NEW d \in DomainType
  PROVE /\ d.root \in DOMAIN Crystals /\ d.root_num \in Nat /\ d.root_den \in Nat \ {0}
        /\ d.step_num \in Nat /\ d.step_den \in Nat \ {0} /\ d.phase \in Nat
  BY DEF DomainType

(* A domain's ratio to its crystal is a rate.                                *)
LEMMA RootRate ==
  ASSUME NEW d \in DomainType
  PROVE root_hz_ratio(d) \in Rate
  <1>1. Crystals[d.root] \in Nat BY Fields, CrystalsAssumption
  <1>2. Crystals[d.root] * d.root_num \in Nat BY <1>1, Fields
  <1> QED BY <1>2, Fields DEF root_hz_ratio, Rate

(* A ratio to the step is a rate and in proportion, be it the step's own.    *)
LEMMA Against ==
  ASSUME NEW p \in Rate, NEW q \in Rate, NEW r \in AgainstStep(p, q)
  PROVE r \in Rate /\ r[1] * (p[2] * q[1]) = r[2] * (p[1] * q[2])
  <1>1. p[1] * q[2] \in Nat /\ p[2] * q[1] \in Nat BY DEF Rate
  <1> QED BY <1>1, Reduced DEF AgainstStep

(* Whichever ratio recompute_step_ratios takes is a rate.                    *)
LEMMA StepRatioRate ==
  ASSUME NEW ds, ds \in [DOMAIN ds -> DomainType],
         NEW s \in DOMAIN ds, NEW i \in DOMAIN ds, NEW r \in StepRatios(ds, s, i)
  PROVE r \in Rate
  <1>1. root_hz_ratio(ds[i]) \in Rate /\ root_hz_ratio(ds[s]) \in Rate BY RootRate
  <1> QED BY <1>1, Against DEF StepRatios, Rate

(* A new ratio folds the phase into its period and leaves the crystal's.     *)
LEMMA Refolded ==
  ASSUME NEW d \in DomainType, NEW r \in Rate
  PROVE LET e == WithRatio(d, r)
        IN /\ e \in DomainType /\ e.phase < e.step_den
           /\ e.step_num = r[1] /\ e.step_den = r[2]
           /\ e.root = d.root /\ e.root_num = d.root_num /\ e.root_den = d.root_den
  <1> DEFINE f == IF d.phase >= r[2] THEN d.phase % r[2] ELSE d.phase
             e == [d EXCEPT !.step_num = r[1], !.step_den = r[2], !.phase = f]
  <1>1. r[1] \in Nat /\ r[2] \in Nat \ {0} BY DEF Rate
  <1>2. f \in Nat /\ f < r[2]
    BY <1>1, Fields
  <1>3. WithRatio(d, r) = e BY DEF WithRatio
  <1> HIDE DEF f
  <1>4. e \in DomainType BY <1>1, <1>2 DEF DomainType
  <1>5. /\ e.step_num = r[1] /\ e.step_den = r[2] /\ e.phase = f
        /\ e.root = d.root /\ e.root_num = d.root_num /\ e.root_den = d.root_den
    BY DEF DomainType
  <1> HIDE DEF e
  <1> QED BY <1>2, <1>3, <1>4, <1>5

(* A tree is in order when its domains are and no phase is past its period.  *)
InOrder(ds) == /\ ds \in [DOMAIN ds -> DomainType]
               /\ \A i \in DOMAIN ds : ds[i].phase < ds[i].step_den

(* A stepping domain's ratio, of those there are.                            *)
TheRatio(ds, s, i) == CHOOSE r \in StepRatios(ds, s, i) : TRUE

(* Recomputing the ratios leaves a tree in order, each domain at its ratio.  *)
LEMMA Recomputed ==
  ASSUME NEW ds, ds \in [DOMAIN ds -> DomainType], NEW s \in DOMAIN ds, Representable(ds, s)
  PROVE LET es == recompute_step_ratios(ds, s)
        IN /\ DOMAIN es = DOMAIN ds /\ InOrder(es)
           /\ \A i \in DOMAIN ds :
                /\ TheRatio(ds, s, i) \in StepRatios(ds, s, i)
                /\ <<es[i].step_num, es[i].step_den>> = TheRatio(ds, s, i)
                /\ root_hz_ratio(es[i]) = root_hz_ratio(ds[i])
  <1> DEFINE es == recompute_step_ratios(ds, s)
  <1>1. es = [i \in DOMAIN ds |-> WithRatio(ds[i], TheRatio(ds, s, i))]
    BY DEF recompute_step_ratios, TheRatio
  <1>2. ASSUME NEW i \in DOMAIN ds
        PROVE /\ TheRatio(ds, s, i) \in StepRatios(ds, s, i) /\ TheRatio(ds, s, i) \in Rate
              /\ es[i] = WithRatio(ds[i], TheRatio(ds, s, i)) /\ ds[i] \in DomainType
    <2>1. TheRatio(ds, s, i) \in StepRatios(ds, s, i) BY DEF Representable, TheRatio
    <2> QED BY <1>1, <2>1, StepRatioRate
  <1> HIDE DEF es
  <1>3. ASSUME NEW i \in DOMAIN ds
        PROVE /\ es[i] \in DomainType /\ es[i].phase < es[i].step_den
              /\ <<es[i].step_num, es[i].step_den>> = TheRatio(ds, s, i)
              /\ root_hz_ratio(es[i]) = root_hz_ratio(ds[i])
    <2>1. /\ TheRatio(ds, s, i) \in Rate
          /\ es[i] = WithRatio(ds[i], TheRatio(ds, s, i)) /\ ds[i] \in DomainType
      BY <1>2
    <2> DEFINE r == TheRatio(ds, s, i)
    <2>2. r \in Rate BY <2>1
    <2>3. r = <<r[1], r[2]>> BY <2>2 DEF Rate
    <2>4. es[i] = WithRatio(ds[i], r) BY <2>1
    <2> HIDE DEF r
    <2>5. /\ es[i] \in DomainType /\ es[i].phase < es[i].step_den
          /\ es[i].step_num = r[1] /\ es[i].step_den = r[2]
          /\ es[i].root = ds[i].root /\ es[i].root_num = ds[i].root_num
          /\ es[i].root_den = ds[i].root_den
      BY <2>1, <2>2, <2>4, Refolded
    <2>6. <<es[i].step_num, es[i].step_den>> = r BY <2>3, <2>5
    <2>7. root_hz_ratio(es[i]) = root_hz_ratio(ds[i]) BY <2>5 DEF root_hz_ratio
    <2> QED BY <2>5, <2>6, <2>7 DEF r
  <1>4. DOMAIN es = DOMAIN ds /\ es \in [DOMAIN es -> DomainType]
    <2>1. DOMAIN es = DOMAIN ds /\ es = [i \in DOMAIN ds |-> es[i]]
      BY <1>1
    <2> QED BY <1>3, <2>1
  <1>5. InOrder(es) BY <1>3, <1>4 DEF InOrder
  <1> QED BY <1>2, <1>3, <1>4, <1>5 DEF es

-----------------------------------------------------------------------------
(* The inductive invariant, over a tree ds that steps in s, the counts c of  *)
(* its firings, the rates t it was given, and the rate v of the chip.        *)

Counts == [ticks : Nat, fired : Nat, from : Nat]
CountedOf(ds, c) ==
  /\ c \in [DOMAIN ds -> Counts]
  /\ \A i \in DOMAIN ds :
       c[i].fired * ds[i].step_den + ds[i].phase = c[i].from + c[i].ticks * ds[i].step_num

(* The stepping domain is as it was declared, and the others are exact       *)
(* against it: not against its ratio to the crystal, which no save holds.    *)
Base(s) == root_hz_ratio(NewDomain(Declared[s]))
ExactOf(ds, s, t) ==
  /\ t[s] = Base(s)
  /\ \A i \in DOMAIN ds \ {s} :
       (Base(s)[1] * ds[i].step_num) * t[i][2] = (Base(s)[2] * ds[i].step_den) * t[i][1]

(* Until a state is loaded the ratios to the crystals are the rates too, and *)
(* every step ratio can be computed from them again.                         *)
RatesOf(ds, s, t, isLoaded) ==
  /\ t \in [DOMAIN ds -> Rate]
  /\ s # None => ExactOf(ds, s, t) /\ Same(root_hz_ratio(ds[s]), t[s])
  /\ ~isLoaded => \A i \in DOMAIN ds : Same(root_hz_ratio(ds[i]), t[i])
  /\ isLoaded => s # None

ChipOf(ds, s, t, v) ==
  v = IF s # None /\ Speech \in DOMAIN ds THEN Rounded(t[Speech]) ELSE None

SavedOf(save) ==
  /\ DOMAIN save.domains \subseteq Domains /\ InOrder(save.domains)
  /\ save.step # None => /\ save.step \in DOMAIN save.domains
                         /\ save.target \in [DOMAIN save.domains -> Rate]
                         /\ ExactOf(save.domains, save.step, save.target)

ClockInv ==
  /\ Known \subseteq Domains /\ InOrder(domains)
  /\ step \in Known \cup {None} /\ loaded \in BOOLEAN
  /\ CountedOf(domains, counted)
  /\ RatesOf(domains, step, target, loaded)
  /\ ChipOf(domains, step, target, device)
  /\ SavedOf(saved)

-----------------------------------------------------------------------------
(* What the parts of the invariant come from.                                *)

(* None is no domain.                                                        *)
LEMMA NoneIsNone == None \notin Domains
  BY DeclaredAssumption DEF None

(* A domain that was just declared, and the rate it is declared at.          *)
LEMMA NewDomainType ==
  ASSUME NEW i \in Domains
  PROVE /\ NewDomain(Declared[i]) \in DomainType
        /\ NewDomain(Declared[i]).phase < NewDomain(Declared[i]).step_den
        /\ Base(i) \in Rate
  <1>1. NewDomain(Declared[i]) \in DomainType
    BY DeclaredAssumption DEF NewDomain, DomainType
  <1>2. NewDomain(Declared[i]).phase < NewDomain(Declared[i]).step_den
    BY DEF NewDomain
  <1> QED BY <1>1, <1>2, RootRate DEF Base

(* Counting starts again at whatever phase a tree is in.                     *)
LEMMA Restarted ==
  ASSUME NEW ds, InOrder(ds)
  PROVE CountedOf(ds, [k \in DOMAIN ds |-> Since(ds[k])])
  <1> DEFINE c == [k \in DOMAIN ds |-> Since(ds[k])]
  <1>1. ASSUME NEW i \in DOMAIN ds
        PROVE /\ c[i] \in Counts
              /\ c[i].fired * ds[i].step_den + ds[i].phase
                   = c[i].from + c[i].ticks * ds[i].step_num
    <2>1. ds[i] \in DomainType BY DEF InOrder
    <2>2. ds[i].phase \in Nat /\ ds[i].step_num \in Nat /\ ds[i].step_den \in Nat
      BY <2>1, Fields
    <2>3. c[i] = Since(ds[i]) OBVIOUS
    <2>4. c[i].ticks = 0 /\ c[i].fired = 0 /\ c[i].from = ds[i].phase BY <2>3 DEF Since
    <2>5. c[i] \in Counts BY <2>2, <2>3 DEF Since, Counts
    <2>6. 0 * ds[i].step_den = 0 /\ 0 * ds[i].step_num = 0 BY <2>2
    <2> HIDE DEF c
    <2> QED BY <2>2, <2>4, <2>5, <2>6
  <1>2. c \in [DOMAIN ds -> Counts] BY <1>1
  <1> QED BY <1>1, <1>2 DEF CountedOf

(* A tree's rate of a domain is the rate that domain was given, exactly and  *)
(* in whole Hz.                                                              *)
LEMMA RatesGive ==
  ASSUME NEW ds, InOrder(ds), NEW s \in DOMAIN ds, s # None, NEW t, NEW isLoaded,
         RatesOf(ds, s, t, isLoaded), NEW i \in DOMAIN ds
  PROVE /\ hz_ratio(ds, s, i) \in Rate /\ Same(hz_ratio(ds, s, i), t[i])
        /\ hz(ds, s, i) = Rounded(t[i])
  <1> DEFINE sr == root_hz_ratio(ds[s])
             q == hz_ratio(ds, s, i)
  <1>1. sr \in Rate /\ t[i] \in Rate /\ t[s] \in Rate /\ Same(sr, t[s]) /\ t[s] = Base(s)
    BY RootRate DEF InOrder, RatesOf, ExactOf
  <1>2. q \in Rate /\ Same(q, t[i])
    <2>1. CASE s = i BY <1>1, <2>1 DEF hz_ratio
    <2>2. CASE s # i
      <3> DEFINE x == ds[i].step_num
                 y == ds[i].step_den
      <3>1. x \in Nat /\ y \in Nat \ {0} BY Fields DEF InOrder
      <3>2. q = <<sr[1] * x, sr[2] * y>> BY <2>2 DEF hz_ratio
      <3>3. (Base(s)[1] * x) * t[i][2] = (Base(s)[2] * y) * t[i][1]
        BY <2>2 DEF RatesOf, ExactOf
      <3> HIDE DEF q, x, y, sr
      <3>4. /\ sr[1] \in Nat /\ sr[2] \in Nat \ {0} /\ t[i][1] \in Nat /\ t[i][2] \in Nat \ {0}
            /\ Base(s)[1] \in Nat /\ Base(s)[2] \in Nat \ {0}
            /\ sr[1] * Base(s)[2] = sr[2] * Base(s)[1]
        BY <1>1 DEF Rate, Same
      <3>5. (sr[1] * x) * t[i][2] = (sr[2] * y) * t[i][1]
        <4> DEFINE sn == sr[1]
                   sd == sr[2]
                   tn == t[i][1]
                   td == t[i][2]
                   bn == Base(s)[1]
                   bd == Base(s)[2]
        <4>1. /\ sn \in Nat /\ sd \in Nat \ {0} /\ tn \in Nat /\ td \in Nat \ {0}
              /\ bn \in Nat /\ bd \in Nat \ {0}
              /\ sn * bd = sd * bn /\ (bn * x) * td = (bd * y) * tn
          BY <3>3, <3>4
        <4> HIDE DEF sn, sd, tn, td, bn, bd
        <4>2. (sn * x) * td = (sd * y) * tn BY <3>1, <4>1, Rebased
        <4> QED BY <4>2 DEF sn, sd, tn, td
      <3>6. sr[1] * x \in Nat /\ sr[2] * y \in Nat \ {0} BY <3>1, <3>4
      <3> QED BY <3>2, <3>5, <3>6 DEF Rate, Same
    <2> QED BY <2>1, <2>2
  <1>3. hz(ds, s, i) = Rounded(q) BY DEF hz, Rounded
  <1> HIDE DEF q
  <1>4. Rounded(q) = Rounded(t[i]) BY <1>1, <1>2, RoundedSame
  <1> QED BY <1>2, <1>3, <1>4 DEF q

(* Step ratios computed from the crystals' are the rates that were given.    *)
LEMMA RecomputedExact ==
  ASSUME NEW ds, ds \in [DOMAIN ds -> DomainType], NEW s \in DOMAIN ds, Representable(ds, s),
         NEW t \in [DOMAIN ds -> Rate], t[s] = Base(s),
         \A i \in DOMAIN ds : Same(root_hz_ratio(ds[i]), t[i])
  PROVE RatesOf(recompute_step_ratios(ds, s), s, t, FALSE)
  <1> DEFINE es == recompute_step_ratios(ds, s)
             sr == root_hz_ratio(ds[s])
  <1>1. /\ DOMAIN es = DOMAIN ds
        /\ \A i \in DOMAIN ds :
             /\ TheRatio(ds, s, i) \in StepRatios(ds, s, i)
             /\ <<es[i].step_num, es[i].step_den>> = TheRatio(ds, s, i)
             /\ root_hz_ratio(es[i]) = root_hz_ratio(ds[i])
    BY Recomputed
  <1> HIDE DEF es
  <1>2. sr \in Rate /\ t[s] \in Rate /\ Same(sr, t[s]) BY RootRate
  <1>3. ASSUME NEW i \in DOMAIN ds, i # s
        PROVE (Base(s)[1] * es[i].step_num) * t[i][2] = (Base(s)[2] * es[i].step_den) * t[i][1]
    <2> DEFINE r == TheRatio(ds, s, i)
               rr == root_hz_ratio(ds[i])
    <2>1. rr \in Rate /\ t[i] \in Rate /\ Same(rr, t[i]) BY RootRate
    <2>2. r \in AgainstStep(rr, sr) BY <1>1, <1>3 DEF StepRatios
    <2>3. es[i].step_num = r[1] /\ es[i].step_den = r[2] BY <1>1
    <2> HIDE DEF r, rr, sr
    <2>4. r \in Rate /\ r[1] * (rr[2] * sr[1]) = r[2] * (rr[1] * sr[2])
      BY <1>2, <2>1, <2>2, Against
    <2>5. (t[s][1] * r[1]) * t[i][2] = (t[s][2] * r[2]) * t[i][1]
      BY <1>2, <2>1, <2>4, ChainedRates
    <2> QED BY <2>3, <2>5
  <1>4. ExactOf(es, s, t) BY <1>1, <1>3 DEF ExactOf
  <1> QED BY <1>1, <1>4 DEF RatesOf, es

(* The chip is built for the rate of its domain, or was.                     *)
LEMMA ChipBuilt ==
  ASSUME NEW ds, InOrder(ds), NEW s \in DOMAIN ds \cup {None}, NEW t,
         RatesOf(ds, s, t, FALSE),
         device # None => s # None /\ Speech \in DOMAIN ds /\ device = Rounded(t[Speech])
  PROVE ChipOf(ds, s, t, Chip(ds, s))
  BY RatesGive DEF ChipOf, Chip

-----------------------------------------------------------------------------
(* One step of a domain's accumulator: what fired and the phase left over    *)
(* account for all that was added.                                           *)
Accounted(d, a) ==
  /\ a.after \in DomainType /\ a.fired \in Nat
  /\ a.after.phase < a.after.step_den
  /\ a.after.step_num = d.step_num /\ a.after.step_den = d.step_den
  /\ a.after.root = d.root /\ a.after.root_num = d.root_num /\ a.after.root_den = d.root_den
  /\ a.fired * d.step_den + a.after.phase = d.phase + d.step_num

(* Another phase for a domain, below its period.                             *)
LEMMA NewPhase ==
  ASSUME NEW d \in DomainType, NEW p \in Nat, p < d.step_den
  PROVE LET e == [d EXCEPT !.phase = p]
        IN /\ e \in DomainType /\ e.phase = p /\ e.phase < e.step_den
           /\ e.step_num = d.step_num /\ e.step_den = d.step_den
           /\ e.root = d.root /\ e.root_num = d.root_num /\ e.root_den = d.root_den
  BY DEF DomainType

(* An accumulator left at p after f firings, when the sum is f periods and p.*)
LEMMA LeftAt ==
  ASSUME NEW d \in DomainType, NEW p \in Nat, p < d.step_den, NEW f \in Nat,
         f * d.step_den + p = d.phase + d.step_num
  PROVE Accounted(d, [after |-> [d EXCEPT !.phase = p], fired |-> f])
  <1> DEFINE e == [d EXCEPT !.phase = p]
  <1>1. /\ e \in DomainType /\ e.phase = p /\ e.phase < e.step_den
        /\ e.step_num = d.step_num /\ e.step_den = d.step_den
        /\ e.root = d.root /\ e.root_num = d.root_num /\ e.root_den = d.root_den
    BY NewPhase
  <1> HIDE DEF e
  <1>2. Accounted(d, [after |-> e, fired |-> f]) BY <1>1 DEF Accounted
  <1> QED BY <1>2 DEF e

(* advance, which fires as often as a faster domain must.                    *)
LEMMA Advances ==
  ASSUME NEW d \in DomainType
  PROVE Accounted(d, advance(d))
  <1> DEFINE sum == d.phase + d.step_num
             n == d.step_den
             p == sum % n
             f == sum \div n
  <1>1. sum \in Nat /\ n \in Nat /\ n > 0 BY Fields
  <1>2. advance(d) = [after |-> [d EXCEPT !.phase = p], fired |-> f] BY DEF advance
  <1> HIDE DEF sum, n
  <1>3. p \in 0..n - 1 /\ f \in Nat /\ sum = n * f + p BY <1>1, DivMod
  <1> HIDE DEF p, f
  <1>4. f * n + p = sum BY <1>1, <1>3
  <1>5. p \in Nat /\ p < d.step_den BY <1>1, <1>3 DEF n
  <1>6. f * d.step_den + p = d.phase + d.step_num BY <1>4 DEF sum, n
  <1>7. Accounted(d, [after |-> [d EXCEPT !.phase = p], fired |-> f])
    BY <1>3, <1>5, <1>6, LeftAt
  <1> QED BY <1>2, <1>7

(* tick, which fires once at most: for a domain the step outruns.            *)
LEMMA Ticks ==
  ASSUME NEW d \in DomainType, d.phase < d.step_den, ~Outruns(d)
  PROVE Accounted(d, tick(d))
  <1> DEFINE sum == d.phase + d.step_num
             n == d.step_den
  <1>1. /\ d.phase \in Nat /\ d.step_num \in Nat /\ n \in Nat /\ n > 0 /\ sum \in Nat
        /\ d.step_num <= n
    BY Fields DEF Outruns
  <1>2. CASE sum >= n
    <2> DEFINE p == sum - n
    <2>1. p \in Nat /\ p < n /\ 1 * n + p = sum BY <1>1, <1>2
    <2>2. tick(d) = [after |-> [d EXCEPT !.phase = p], fired |-> 1] BY <1>1, <1>2 DEF tick
    <2>3. Accounted(d, [after |-> [d EXCEPT !.phase = p], fired |-> 1]) BY <2>1, LeftAt
    <2> QED BY <2>2, <2>3
  <1>3. CASE ~(sum >= n)
    <2>1. sum \in Nat /\ sum < n /\ 0 * n + sum = sum BY <1>1, <1>3
    <2>2. tick(d) = [after |-> [d EXCEPT !.phase = sum], fired |-> 0] BY <1>3 DEF tick
    <2>3. Accounted(d, [after |-> [d EXCEPT !.phase = sum], fired |-> 0]) BY <2>1, LeftAt
    <2> QED BY <2>2, <2>3
  <1> QED BY <1>2, <1>3

-----------------------------------------------------------------------------
(* Each step of the tree.                                                    *)

(* The invariant begins with nothing declared.                               *)
LEMMA ClockInitKeeps == ClockInit => ClockInv
  <1> SUFFICES ASSUME ClockInit PROVE ClockInv OBVIOUS
  <1>1. /\ domains = Empty /\ step = None /\ device = None /\ saved = NothingSaved
        /\ loaded = FALSE /\ counted = Empty /\ target = Empty
    BY DEF ClockInit
  <1>2. DOMAIN Empty = {} /\ \A S : Empty \in [{} -> S] BY DEF Empty
  <1>3. saved.step = None /\ saved.domains = Empty BY <1>1 DEF NothingSaved
  <1> QED BY <1>1, <1>2, <1>3 DEF ClockInv, Known, InOrder, CountedOf, RatesOf, ChipOf, SavedOf

(* A domain is declared, before or after the stepping domain is nominated.   *)
LEMMA DeclareKeeps ==
  ASSUME ClockInv, NEW i \in Domains, add_domain(i)
  PROVE ClockInv'
  <1> DEFINE grown == [k \in Known \cup {i} |->
                         IF k = i THEN NewDomain(Declared[i]) ELSE domains[k]]
             t == [k \in DOMAIN grown |->
                     IF k = i THEN root_hz_ratio(grown[i]) ELSE target[k]]
  <1>1. /\ ~loaded /\ i \notin Known /\ (step # None => Representable(grown, step))
        /\ domains' = IF step = None THEN grown ELSE recompute_step_ratios(grown, step)
        /\ counted' = [k \in DOMAIN grown |-> Since(domains'[k])]
        /\ target' = t /\ device' = Chip(domains', step)
        /\ step' = step /\ saved' = saved /\ loaded' = loaded
    BY DEF add_domain
  <1>2. /\ DOMAIN grown = Known \cup {i} /\ grown[i] = NewDomain(Declared[i])
        /\ \A k \in Known : grown[k] = domains[k]
    BY <1>1
  <1>3. InOrder(grown)
    <2>1. \A k \in Known : domains[k] \in DomainType /\ domains[k].phase < domains[k].step_den
      BY DEF ClockInv, InOrder, Known
    <2>2. \A k \in Known \cup {i} :
            grown[k] \in DomainType /\ grown[k].phase < grown[k].step_den
      BY <1>2, <2>1, NewDomainType
    <2> QED BY <1>2, <2>2 DEF InOrder
  <1>4. grown \in [DOMAIN grown -> DomainType] BY <1>3 DEF InOrder
  <1>5. /\ t \in [DOMAIN grown -> Rate] /\ (\A k \in Known : t[k] = target[k])
        /\ \A k \in DOMAIN grown : Same(root_hz_ratio(grown[k]), t[k])
    <2>1. \A k \in Known : target[k] \in Rate /\ Same(root_hz_ratio(domains[k]), target[k])
      BY <1>1 DEF ClockInv, RatesOf, Known
    <2>2. root_hz_ratio(grown[i]) \in Rate BY <1>2, <1>4, RootRate
    <2>3. Same(root_hz_ratio(grown[i]), root_hz_ratio(grown[i]))
      BY <2>2 DEF Rate, Same
    <2>4. t[i] = root_hz_ratio(grown[i]) /\ \A k \in Known : t[k] = target[k]
      BY <1>1, <1>2
    <2> HIDE DEF grown
    <2>5. \A k \in DOMAIN grown : t[k] \in Rate BY <1>2, <2>1, <2>2, <2>4
    <2>6. t \in [DOMAIN grown -> Rate] BY <2>5
    <2> HIDE DEF t
    <2> QED BY <1>2, <2>1, <2>3, <2>4, <2>6
  <1> HIDE DEF grown, t
  <1>6. device # None =>
          step # None /\ Speech \in DOMAIN grown /\ device = Rounded(t[Speech])
    BY <1>2, <1>5 DEF ClockInv, ChipOf, Known
  <1>7. /\ InOrder(domains') /\ DOMAIN domains' = DOMAIN grown
        /\ RatesOf(domains', step, t, FALSE)
    <2>1. CASE step = None
      BY <1>1, <1>3, <1>5, <2>1 DEF RatesOf
    <2>2. CASE step # None
      <3>1. step \in Known /\ step \in DOMAIN grown BY <1>2, <2>2 DEF ClockInv
      <3>2. t[step] = Base(step)
        BY <1>5, <2>2, <3>1 DEF ClockInv, RatesOf, ExactOf
      <3>3. RatesOf(recompute_step_ratios(grown, step), step, t, FALSE)
        BY <1>1, <1>4, <1>5, <2>2, <3>1, <3>2, RecomputedExact
      <3>4. /\ InOrder(recompute_step_ratios(grown, step))
            /\ DOMAIN recompute_step_ratios(grown, step) = DOMAIN grown
        BY <1>1, <1>4, <2>2, <3>1, Recomputed
      <3> QED BY <1>1, <2>2, <3>3, <3>4
    <2> QED BY <2>1, <2>2
  <1>8. Known' = Known \cup {i} BY <1>2, <1>7 DEF Known
  <1>9. Known' \subseteq Domains /\ step' \in Known' \cup {None} /\ loaded' \in BOOLEAN
    BY <1>1, <1>8 DEF ClockInv
  <1>10. CountedOf(domains', counted') BY <1>1, <1>7, Restarted
  <1>11. ChipOf(domains', step, t, Chip(domains', step))
    <2>1. step \in DOMAIN domains' \cup {None} BY <1>2, <1>7 DEF ClockInv
    <2> QED BY <1>6, <1>7, <2>1, ChipBuilt
  <1>12. RatesOf(domains', step', target', loaded') /\ ChipOf(domains', step', target', device')
    <2>1. loaded' = FALSE BY <1>1 DEF ClockInv
    <2> QED BY <1>1, <1>7, <1>11, <2>1
  <1>13. SavedOf(saved') BY <1>1 DEF ClockInv
  <1> QED BY <1>7, <1>9, <1>10, <1>12, <1>13 DEF ClockInv

(* A stepping domain is nominated, the first or another.                     *)
LEMMA NominateKeeps ==
  ASSUME ClockInv, NEW s, set_step_domain(s)
  PROVE ClockInv'
  <1>1. /\ ~loaded /\ s \in Known /\ Representable(domains, s)
        /\ target[s] = Base(s)
        /\ step' = s /\ domains' = recompute_step_ratios(domains, s)
        /\ counted' = [k \in Known |-> Since(domains'[k])]
        /\ device' = Chip(domains', s)
        /\ saved' = saved /\ loaded' = loaded /\ target' = target
    BY DEF set_step_domain, Base
  <1>2. /\ domains \in [DOMAIN domains -> DomainType] /\ target \in [DOMAIN domains -> Rate]
        /\ \A k \in DOMAIN domains : Same(root_hz_ratio(domains[k]), target[k])
    BY <1>1 DEF ClockInv, InOrder, RatesOf
  <1>3. DOMAIN domains' = DOMAIN domains /\ InOrder(domains')
    BY <1>1, <1>2, Recomputed DEF Known
  <1>4. RatesOf(domains', s, target, FALSE)
    BY <1>1, <1>2, RecomputedExact DEF Known
  <1>5. s # None BY <1>1, NoneIsNone DEF ClockInv
  <1>6. ChipOf(domains', s, target, Chip(domains', s))
    <2>1. s \in DOMAIN domains' \cup {None} BY <1>1, <1>3 DEF Known
    <2>2. device # None =>
            s # None /\ Speech \in DOMAIN domains' /\ device = Rounded(target[Speech])
      BY <1>3, <1>5 DEF ClockInv, ChipOf
    <2> QED BY <1>3, <1>4, <2>1, <2>2, ChipBuilt
  <1>7. CountedOf(domains', counted') BY <1>1, <1>3, Restarted DEF Known
  <1>8. /\ Known' \subseteq Domains /\ step' \in Known' \cup {None} /\ loaded' \in BOOLEAN
        /\ SavedOf(saved')
    BY <1>1, <1>3 DEF ClockInv, Known
  <1>9. loaded' = FALSE BY <1>1 DEF ClockInv
  <1> QED BY <1>1, <1>3, <1>4, <1>6, <1>7, <1>8, <1>9 DEF ClockInv

(* Another tree over the same domains, with the rates and roots of this one  *)
(* but for what a property of either cannot tell apart.                      *)
LEMMA SameRates ==
  ASSUME NEW ds, NEW es, DOMAIN es = DOMAIN ds, NEW s \in DOMAIN ds \cup {None},
         NEW t, NEW isLoaded, RatesOf(ds, s, t, isLoaded),
         \A i \in DOMAIN ds : /\ es[i].step_num = ds[i].step_num
                              /\ es[i].step_den = ds[i].step_den
                              /\ root_hz_ratio(es[i]) = root_hz_ratio(ds[i])
  PROVE RatesOf(es, s, t, isLoaded)
  BY DEF RatesOf, ExactOf

(* The speech clock is tuned.                                                *)
LEMMA TuneKeeps ==
  ASSUME ClockInv, NEW rate \in Rates, set_domain_hz(rate)
  PROVE ClockInv'
  <1> DEFINE old == domains[Speech]
             given == <<rate, 1>>
             stepRate == root_hz_ratio(domains[step])
             t == [target EXCEPT ![Speech] = given]
  <1>1. step # None /\ Speech \in Known /\ step # Speech BY DEF set_domain_hz
  <1>2. PICK root \in reduce_to_u32(rate, Crystals[old.root]),
             ratio \in AgainstStep(given, stepRate) :
          domains' = [domains EXCEPT
            ![Speech] = [WithRatio(@, ratio) EXCEPT !.root_num = root[1], !.root_den = root[2]]]
    BY DEF set_domain_hz
  <1>3. /\ device' = rate /\ counted' = [counted EXCEPT ![Speech] = Since(domains'[Speech])]
        /\ target' = t /\ step' = step /\ saved' = saved /\ loaded' = loaded
    BY DEF set_domain_hz
  <1>4. /\ rate \in Nat \ {0} /\ given \in Rate /\ old \in DomainType
        /\ stepRate \in Rate /\ step \in Known
    BY <1>1, RatesAssumption, RootRate DEF ClockInv, InOrder, Known, Rate
  <1>5. /\ ratio \in Rate /\ ratio[1] * (given[2] * stepRate[1]) = ratio[2] * (given[1] * stepRate[2])
    BY <1>4, Against
  <1>6. Crystals[old.root] \in Nat \ {0} BY <1>4, Fields, CrystalsAssumption
  <1>7. root \in Rate /\ root[1] * Crystals[old.root] = root[2] * rate
    BY <1>4, <1>6, Reduced
  <1> DEFINE w == WithRatio(old, ratio)
             new == [w EXCEPT !.root_num = root[1], !.root_den = root[2]]
  <1>8. /\ w \in DomainType /\ w.phase < w.step_den
        /\ w.step_num = ratio[1] /\ w.step_den = ratio[2] /\ w.root = old.root
    BY <1>4, <1>5, Refolded
  <1>9. domains' = [domains EXCEPT ![Speech] = new] BY <1>2
  <1> HIDE DEF w
  <1>10. /\ new \in DomainType /\ new.phase < new.step_den
         /\ new.step_num = ratio[1] /\ new.step_den = ratio[2]
         /\ new.root = old.root /\ new.root_num = root[1] /\ new.root_den = root[2]
    <2>1. root[1] \in Nat /\ root[2] \in Nat \ {0} BY <1>7 DEF Rate
    <2> QED BY <1>8, <2>1 DEF DomainType
  <1> HIDE DEF new, old
  <1>11. /\ DOMAIN domains' = Known /\ domains'[Speech] = new
         /\ \A i \in Known : i # Speech => domains'[i] = domains[i]
    BY <1>1, <1>9 DEF ClockInv, InOrder, Known
  <1>12. InOrder(domains')
    <2>1. \A i \in Known : domains'[i] \in DomainType /\ domains'[i].phase < domains'[i].step_den
      BY <1>10, <1>11 DEF ClockInv, InOrder, Known
    <2>2. domains' = [i \in Known |-> domains'[i]]
      BY <1>9 DEF ClockInv, InOrder, Known
    <2> QED BY <1>11, <2>1, <2>2 DEF InOrder
  <1>13. CountedOf(domains', counted')
    <2> DEFINE c == [i \in DOMAIN domains' |-> Since(domains'[i])]
    <2>1. CountedOf(domains', c) BY <1>12, Restarted
    <2>2. counted'[Speech] = c[Speech] BY <1>1, <1>3, <1>11 DEF ClockInv, CountedOf, Known
    <2>3. \A i \in Known : i # Speech => counted'[i] = counted[i]
      BY <1>3 DEF ClockInv, CountedOf, Known
    <2>4. \A i \in Known :
            /\ counted'[i] \in Counts
            /\ counted'[i].fired * domains'[i].step_den + domains'[i].phase
                 = counted'[i].from + counted'[i].ticks * domains'[i].step_num
      <3> HIDE DEF c
      <3> SUFFICES ASSUME NEW i \in Known
                   PROVE /\ counted'[i] \in Counts
                         /\ counted'[i].fired * domains'[i].step_den + domains'[i].phase
                              = counted'[i].from + counted'[i].ticks * domains'[i].step_num
        OBVIOUS
      <3>1. CASE i = Speech BY <1>11, <2>1, <2>2, <3>1 DEF CountedOf
      <3>2. CASE i # Speech BY <1>11, <2>3, <3>2 DEF ClockInv, CountedOf, Known
      <3> QED BY <3>1, <3>2
    <2>5. counted' = [i \in Known |-> counted'[i]] BY <1>3 DEF ClockInv, CountedOf, Known
    <2> QED BY <1>11, <2>4, <2>5 DEF CountedOf
  <1>14. /\ t \in [Known -> Rate] /\ t[Speech] = given
         /\ \A i \in Known : i # Speech => t[i] = target[i]
    BY <1>1, <1>4 DEF ClockInv, RatesOf, Known
  <1> HIDE DEF t
  <1>15. target[step] = Base(step) /\ Base(step) \in Rate /\ Same(stepRate, Base(step))
    BY <1>1, <1>4 DEF ClockInv, RatesOf, ExactOf, Known
  <1>16. (Base(step)[1] * ratio[1]) * given[2] = (Base(step)[2] * ratio[2]) * given[1]
    <2>1. Same(given, given) BY <1>4 DEF Same, Rate
    <2> HIDE DEF given, stepRate
    <2> QED BY <1>4, <1>5, <1>15, <2>1, ChainedRates
  <1>17. ExactOf(domains', step, t)
    <2>1. \A i \in Known \ {step, Speech} :
            (Base(step)[1] * domains[i].step_num) * target[i][2]
              = (Base(step)[2] * domains[i].step_den) * target[i][1]
      BY <1>1 DEF ClockInv, RatesOf, ExactOf, Known
    <2>2. (Base(step)[1] * domains'[Speech].step_num) * t[Speech][2]
            = (Base(step)[2] * domains'[Speech].step_den) * t[Speech][1]
      BY <1>10, <1>11, <1>14, <1>16
    <2> QED BY <1>1, <1>4, <1>11, <1>14, <1>15, <2>1, <2>2 DEF ExactOf
  <1>18. Same(root_hz_ratio(domains'[Speech]), t[Speech])
    <2>1. root_hz_ratio(new) = <<Crystals[old.root] * root[1], root[2]>>
      BY <1>10 DEF root_hz_ratio
    <2>2. root[1] \in Nat /\ root[2] \in Nat BY <1>7 DEF Rate
    <2>3. (Crystals[old.root] * root[1]) * 1 = root[2] * rate BY <1>6, <1>7, <2>2
    <2> QED BY <1>11, <1>14, <2>1, <2>3 DEF Same
  <1>19. RatesOf(domains', step, t, loaded)
    <2>1. Same(root_hz_ratio(domains'[step]), t[step])
      BY <1>1, <1>4, <1>11, <1>14 DEF ClockInv, RatesOf
    <2>2. ASSUME ~loaded, NEW i \in Known PROVE Same(root_hz_ratio(domains'[i]), t[i])
      BY <1>11, <1>14, <1>18, <2>2 DEF ClockInv, RatesOf, Known
    <2> QED BY <1>1, <1>11, <1>14, <1>17, <2>1, <2>2 DEF RatesOf
  <1>20. ChipOf(domains', step, t, rate)
    <2>1. Rounded(given) = rate
      <3>1. (rate + (1 \div 2)) \div 1 = rate BY <1>4
      <3> QED BY <3>1 DEF Rounded
    <2> QED BY <1>1, <1>11, <1>14, <2>1 DEF ChipOf
  <1>21. /\ Known' \subseteq Domains /\ step' \in Known' \cup {None} /\ loaded' \in BOOLEAN
         /\ SavedOf(saved')
    BY <1>3, <1>4, <1>11 DEF ClockInv, Known
  <1> QED BY <1>3, <1>12, <1>13, <1>19, <1>20, <1>21 DEF ClockInv

(* A cycle of the board: every domain accounts for its step.                 *)
LEMMA CycleKeeps ==
  ASSUME ClockInv, ClockCycle
  PROVE ClockInv'
  <1>1. /\ step # None /\ (\A i \in Known \cap Ticked : ~Outruns(domains[i]))
        /\ domains' = [i \in Known |-> Advanced(i).after]
        /\ counted' = [i \in Known |-> [counted[i] EXCEPT !.ticks = @ + 1,
                                                          !.fired = @ + Advanced(i).fired]]
        /\ step' = step /\ device' = device /\ saved' = saved /\ loaded' = loaded
        /\ target' = target
    BY DEF ClockCycle
  <1>2. ASSUME NEW i \in Known PROVE Accounted(domains[i], Advanced(i))
    <2>1. domains[i] \in DomainType /\ domains[i].phase < domains[i].step_den
      BY DEF ClockInv, InOrder, Known
    <2> QED BY <1>1, <2>1, Advances, Ticks DEF Advanced
  <1>3. DOMAIN domains' = Known /\ \A i \in Known : domains'[i] = Advanced(i).after
    BY <1>1
  <1>4. InOrder(domains')
    <2>1. \A i \in Known : domains'[i] \in DomainType /\ domains'[i].phase < domains'[i].step_den
      BY <1>2, <1>3 DEF Accounted
    <2>2. domains' = [i \in Known |-> domains'[i]] BY <1>1, <1>3
    <2> QED BY <1>3, <2>1, <2>2 DEF InOrder
  <1>5. ASSUME NEW i \in Known
        PROVE /\ counted'[i] \in Counts
              /\ counted'[i].fired * domains'[i].step_den + domains'[i].phase
                   = counted'[i].from + counted'[i].ticks * domains'[i].step_num
    <2> DEFINE f == Advanced(i).fired
               c == counted[i]
               n == domains[i].step_num
               m == domains[i].step_den
               p == domains[i].phase
               q == domains'[i].phase
               ticks == c.ticks
               fired == c.fired
               from == c.from
    <2>1. n \in Nat /\ m \in Nat /\ p \in Nat BY Fields DEF ClockInv, InOrder, Known
    <2>2. /\ f \in Nat /\ q \in Nat /\ f * m + q = p + n
          /\ domains'[i].step_num = n /\ domains'[i].step_den = m
      BY <1>2, <1>3, Fields DEF Accounted
    <2>3. c \in Counts /\ fired * m + p = from + ticks * n BY DEF ClockInv, CountedOf, Known
    <2>4. ticks \in Nat /\ fired \in Nat /\ from \in Nat BY <2>3 DEF Counts
    <2>5. counted'[i] = [c EXCEPT !.ticks = @ + 1, !.fired = @ + f] BY <1>1
    <2> HIDE DEF f, c
    <2>6. /\ counted'[i].ticks = ticks + 1 /\ counted'[i].fired = fired + f
          /\ counted'[i].from = from
      BY <2>3, <2>5 DEF Counts
    <2>7. counted'[i] \in Counts
      <3>1. c.ticks + 1 \in Nat /\ c.fired + f \in Nat BY <2>2, <2>4
      <3> HIDE DEF ticks, fired, from
      <3> QED BY <2>3, <2>5, <3>1 DEF Counts
    <2> HIDE DEF n, m, p, q, ticks, fired, from
    <2>8. (fired + f) * m = fired * m + f * m /\ (ticks + 1) * n = ticks * n + n
      BY <2>1, <2>2, <2>4, Products
    <2>9. fired * m \in Nat /\ f * m \in Nat /\ ticks * n \in Nat
      BY <2>1, <2>2, <2>4, Products
    <2>10. (fired + f) * m + q = from + (ticks + 1) * n
      BY <2>1, <2>2, <2>3, <2>4, <2>8, <2>9
    <2> QED BY <2>2, <2>6, <2>7, <2>10 DEF q
  <1>6. CountedOf(domains', counted')
    <2>1. counted' = [i \in Known |-> counted'[i]] BY <1>1
    <2>2. counted' \in [Known -> Counts] BY <1>5, <2>1
    <2> QED BY <1>3, <1>5, <2>2 DEF CountedOf
  <1>7. RatesOf(domains', step, target, loaded)
    <2>1. \A i \in Known : /\ domains'[i].step_num = domains[i].step_num
                           /\ domains'[i].step_den = domains[i].step_den
                           /\ root_hz_ratio(domains'[i]) = root_hz_ratio(domains[i])
      BY <1>2, <1>3 DEF Accounted, root_hz_ratio
    <2> QED BY <1>3, <2>1, SameRates DEF ClockInv, Known
  <1>8. ChipOf(domains', step, target, device) BY <1>3 DEF ClockInv, ChipOf, Known
  <1> QED BY <1>1, <1>3, <1>4, <1>6, <1>7, <1>8 DEF ClockInv, Known

(* A reset of the phases.                                                    *)
LEMMA ResetKeeps ==
  ASSUME ClockInv, reset
  PROVE ClockInv'
  <1>1. /\ domains' = [i \in Known |-> [domains[i] EXCEPT !.phase = 0]]
        /\ counted' = [i \in Known |-> Since(domains'[i])]
        /\ step' = step /\ device' = device /\ saved' = saved /\ loaded' = loaded
        /\ target' = target
    BY DEF reset
  <1>2. DOMAIN domains' = Known BY <1>1
  <1>3. ASSUME NEW i \in Known
        PROVE /\ domains'[i] \in DomainType /\ domains'[i].phase < domains'[i].step_den
              /\ domains'[i].step_num = domains[i].step_num
              /\ domains'[i].step_den = domains[i].step_den
              /\ root_hz_ratio(domains'[i]) = root_hz_ratio(domains[i])
    <2>1. domains[i] \in DomainType /\ domains'[i] = [domains[i] EXCEPT !.phase = 0]
      BY <1>1 DEF ClockInv, InOrder, Known
    <2>2. 0 < domains[i].step_den BY <2>1, Fields
    <2> QED BY <2>1, <2>2, NewPhase DEF root_hz_ratio
  <1>4. InOrder(domains')
    <2>1. domains' = [i \in Known |-> domains'[i]] BY <1>1
    <2> QED BY <1>2, <1>3, <2>1 DEF InOrder
  <1>5. CountedOf(domains', counted') BY <1>1, <1>2, <1>4, Restarted
  <1>6. RatesOf(domains', step, target, loaded)
    BY <1>2, <1>3, SameRates DEF ClockInv, Known
  <1>7. ChipOf(domains', step, target, device) BY <1>2 DEF ClockInv, ChipOf, Known
  <1> QED BY <1>1, <1>2, <1>4, <1>5, <1>6, <1>7 DEF ClockInv, Known

(* A state is saved.                                                         *)
LEMMA SaveKeeps ==
  ASSUME ClockInv, Save
  PROVE ClockInv'
  <1>1. /\ step # None /\ saved' = [step |-> step, domains |-> domains, target |-> target]
        /\ domains' = domains /\ step' = step /\ device' = device /\ loaded' = loaded
        /\ counted' = counted /\ target' = target
    BY DEF Save
  <1>2. saved'.step = step /\ saved'.domains = domains /\ saved'.target = target BY <1>1
  <1>3. SavedOf(saved') BY <1>1, <1>2 DEF ClockInv, RatesOf, SavedOf, Known
  <1> QED BY <1>1, <1>3 DEF ClockInv, Known

(* A saved state is loaded into a tree that steps in the same domain.        *)
LEMMA LoadKeeps ==
  ASSUME ClockInv, Load
  PROVE ClockInv'
  <1>1. /\ saved.step # None /\ saved.step = step /\ DOMAIN saved.domains = Known
        /\ domains' = [i \in Known |-> Restored(domains[i], saved.domains[i])]
        /\ device' = reapply_speech_clock(domains') /\ loaded' = TRUE
        /\ counted' = [i \in Known |-> Since(domains'[i])]
        /\ target' = saved.target /\ step' = step /\ saved' = saved
    BY DEF Load
  <1>2. DOMAIN domains' = Known BY <1>1
  <1>3. ASSUME NEW i \in Known
        PROVE /\ domains'[i] \in DomainType /\ domains'[i].phase < domains'[i].step_den
              /\ domains'[i].step_num = saved.domains[i].step_num
              /\ domains'[i].step_den = saved.domains[i].step_den
              /\ root_hz_ratio(domains'[i]) = root_hz_ratio(domains[i])
    <2> DEFINE d == domains[i]
               from == saved.domains[i]
    <2>1. d \in DomainType /\ from \in DomainType /\ from.phase < from.step_den
      BY <1>1 DEF ClockInv, InOrder, SavedOf, Known
    <2>2. domains'[i] = [d EXCEPT !.step_num = from.step_num, !.step_den = from.step_den,
                                  !.phase = from.phase]
      BY <1>1 DEF Restored
    <2> HIDE DEF d, from
    <2>3. domains'[i] \in DomainType
      BY <2>1, <2>2, Fields DEF DomainType
    <2>4. /\ domains'[i].step_num = from.step_num /\ domains'[i].step_den = from.step_den
          /\ domains'[i].phase = from.phase /\ domains'[i].root = d.root
          /\ domains'[i].root_num = d.root_num /\ domains'[i].root_den = d.root_den
      BY <2>1, <2>2 DEF DomainType
    <2>5. root_hz_ratio(domains'[i]) = root_hz_ratio(d) BY <2>4 DEF root_hz_ratio
    <2> QED BY <2>1, <2>3, <2>4, <2>5 DEF d, from
  <1>4. InOrder(domains')
    <2>1. domains' = [i \in Known |-> domains'[i]] BY <1>1
    <2> QED BY <1>2, <1>3, <2>1 DEF InOrder
  <1>5. CountedOf(domains', counted') BY <1>1, <1>2, <1>4, Restarted
  <1>6. step \in Known BY <1>1 DEF ClockInv
  <1>7. RatesOf(domains', step, saved.target, TRUE)
    <2>1. saved.target \in [Known -> Rate] /\ ExactOf(saved.domains, step, saved.target)
      BY <1>1 DEF ClockInv, SavedOf
    <2>2. ExactOf(domains', step, saved.target) BY <1>1, <1>2, <1>3, <2>1 DEF ExactOf
    <2>3. target[step] = Base(step) /\ saved.target[step] = Base(step)
          /\ Same(root_hz_ratio(domains[step]), target[step])
      BY <1>1, <2>1 DEF ClockInv, RatesOf, ExactOf
    <2>4. Same(root_hz_ratio(domains'[step]), saved.target[step]) BY <1>3, <1>6, <2>3
    <2> QED BY <1>1, <1>2, <2>1, <2>2, <2>4 DEF RatesOf
  <1>8. ChipOf(domains', step, saved.target, device')
    <2>1. CASE Speech \in Known
      <3>1. device' = hz(domains', step, Speech)
        BY <1>1, <2>1 DEF reapply_speech_clock
      <3>2. hz(domains', step, Speech) = Rounded(saved.target[Speech])
        <4>1. step \in DOMAIN domains' /\ step # None /\ Speech \in DOMAIN domains'
          BY <1>1, <1>2, <1>6, <2>1
        <4> QED BY <1>4, <1>7, <4>1, RatesGive, Zenon
      <3> QED BY <1>1, <1>2, <2>1, <3>1, <3>2 DEF ChipOf
    <2>2. CASE Speech \notin Known
      BY <1>1, <1>2, <2>2 DEF reapply_speech_clock, ClockInv, ChipOf, Known
    <2> QED BY <2>1, <2>2
  <1>9. /\ Known' \subseteq Domains /\ step' \in Known' \cup {None} /\ loaded' \in BOOLEAN
        /\ SavedOf(saved')
    BY <1>1, <1>2 DEF ClockInv, Known
  <1> QED BY <1>1, <1>4, <1>5, <1>7, <1>8, <1>9 DEF ClockInv

(* The machine is built anew; the save stays.                                *)
LEMMA RebuildKeeps ==
  ASSUME ClockInv, Rebuild
  PROVE ClockInv'
  <1>1. /\ domains' = Empty /\ step' = None /\ loaded' = FALSE /\ device' = None
        /\ counted' = Empty /\ target' = Empty /\ saved' = saved
    BY DEF Rebuild
  <1>2. DOMAIN Empty = {} /\ \A S : Empty \in [{} -> S] BY DEF Empty
  <1>3. SavedOf(saved') BY <1>1 DEF ClockInv
  <1> QED BY <1>1, <1>2, <1>3 DEF ClockInv, Known, InOrder, CountedOf, RatesOf, ChipOf

(* Every step keeps the invariant.                                           *)
LEMMA ClockStepKeeps == ClockInv /\ [ClockNext]_clockVars => ClockInv'
  <1> SUFFICES ASSUME ClockInv, [ClockNext]_clockVars PROVE ClockInv' OBVIOUS
  <1>1. ASSUME NEW i \in Domains, add_domain(i) PROVE ClockInv' BY <1>1, DeclareKeeps
  <1>2. ASSUME NEW s \in StepDomains, set_step_domain(s) PROVE ClockInv' BY <1>2, NominateKeeps
  <1>3. ASSUME NEW rate \in Rates, set_domain_hz(rate) PROVE ClockInv' BY <1>3, TuneKeeps
  <1>4. CASE ClockCycle BY <1>4, CycleKeeps
  <1>5. CASE reset BY <1>5, ResetKeeps
  <1>6. CASE Save BY <1>6, SaveKeeps
  <1>7. CASE Load BY <1>7, LoadKeeps
  <1>8. CASE Rebuild BY <1>8, RebuildKeeps
  <1>9. CASE UNCHANGED clockVars
    BY <1>9 DEF clockVars, ClockInv, Known
  <1> QED BY <1>1, <1>2, <1>3, <1>4, <1>5, <1>6, <1>7, <1>8, <1>9 DEF ClockNext

-----------------------------------------------------------------------------
(* The invariant holds throughout.                                           *)
THEOREM ClockInvariant == ClockSpec => []ClockInv
  <1> QED BY ClockInitKeeps, ClockStepKeeps, PTL DEF ClockSpec

(* Every phase stays below its period, in every tree: no accumulator of      *)
(* advance or tick grows without bound.                                      *)
THEOREM ClockTyped == ClockSpec => []ClockTypeOK
  <1>1. ClockInv => ClockTypeOK
    <2> SUFFICES ASSUME ClockInv PROVE ClockTypeOK OBVIOUS
    <2>1. device \in Nat
      <3>1. CASE step # None /\ Speech \in Known
        <4>1. target[Speech] \in Rate BY <3>1 DEF ClockInv, RatesOf, Known
        <4> QED BY <3>1, <4>1, RoundedIs DEF ClockInv, ChipOf, Known
      <3>2. CASE ~(step # None /\ Speech \in Known)
        BY <3>2 DEF ClockInv, ChipOf, Known, None
      <3> QED BY <3>1, <3>2
    <2> QED BY <2>1 DEF ClockInv, ClockTypeOK, InOrder, CountedOf, Counts, SavedOf, Known
  <1> QED BY <1>1, ClockInvariant, PTL

(* No clock gains or loses a firing, in any tree, however long it runs.      *)
THEOREM FiringsExact == ClockSpec => []FiresExact
  <1>1. ClockInv => FiresExact BY DEF ClockInv, CountedOf, FiresExact, Known
  <1> QED BY <1>1, ClockInvariant, PTL

(* Every clock runs at exactly the rate it was last given: through any order *)
(* of declarations, nominations, retunes, saves, loads and rebuilds.         *)
THEOREM RatesStayExact == ClockSpec => []RatesExact
  <1>1. ClockInv => RatesExact
    <2> SUFFICES ASSUME ClockInv, step # None, NEW i \in Known
                 PROVE hz_ratio(domains, step, i)[1] * target[i][2]
                         = hz_ratio(domains, step, i)[2] * target[i][1]
      BY DEF RatesExact
    <2>1. step \in Known BY DEF ClockInv
    <2> QED BY <2>1, RatesGive DEF ClockInv, Known, Same
  <1> QED BY <1>1, ClockInvariant, PTL

(* The speech chip never runs at another rate than its clock.                *)
THEOREM ChipStaysInStep == ClockSpec => []ChipInStep
  <1>1. ClockInv => ChipInStep
    <2> SUFFICES ASSUME ClockInv, step # None, Speech \in Known
                 PROVE device = hz(domains, step, Speech)
      BY DEF ChipInStep
    <2>1. step \in Known BY DEF ClockInv
    <2>2. device = Rounded(target[Speech]) BY DEF ClockInv, ChipOf, Known
    <2> QED BY <2>1, <2>2, RatesGive DEF ClockInv, Known
  <1> QED BY <1>1, ClockInvariant, PTL

-----------------------------------------------------------------------------
(* The trackball: a game that samples it in time is never misled, for every  *)
(* width, step, policy and rate of sampling that keeps what turns between    *)
(* two samples below half the width.                                         *)

BallType ==
  [counter : 0..Width - 1, pending : Int, negHeld : BOOLEAN, posHeld : BOOLEAN,
   velocity : Directions, policy : Policies, invert : BOOLEAN]

(* The counter and the sample are the positions modulo the width, and the    *)
(* position is ahead of the game by no more than the updates can turn it.    *)
Wrapped == ball.counter = turned % Width /\ sampled = seen % Width
Ahead == /\ turned - seen <= updates * Reach(ball.policy)
         /\ seen - turned <= updates * Reach(ball.policy)
Carried == ball.policy # "ClampDrop" => fed = ball.pending + Turn(ball, turned)

BallInv == BallTypeOK /\ Wrapped /\ Ahead /\ Carried

-----------------------------------------------------------------------------
(* The difference of two remainders is that of the numbers.                  *)
LEMMA ModDiff ==
  ASSUME NEW n \in Nat, n > 0, NEW a \in Int, NEW b \in Int
  PROVE ((a % n) - (b % n)) % n = (a - b) % n
  <1> DEFINE q == a \div n
             r == a % n
             p == b \div n
             s == b % n
             d == a - b
             e == d \div n
             f == d % n
  <1>1. q \in Int /\ r \in 0..n - 1 /\ a = n * q + r BY DivMod
  <1>2. p \in Int /\ s \in 0..n - 1 /\ b = n * p + s BY DivMod
  <1>3. d \in Int /\ e \in Int /\ f \in 0..n - 1 /\ d = n * e + f
    <2>1. d \in Int OBVIOUS
    <2> QED BY <2>1, DivMod
  <1> HIDE DEF q, r, p, s, e, f
  <1>4. n * (e - q + p) = n * e - n * q + n * p BY <1>1, <1>2, <1>3
  <1>5. r - s = n * (e - q + p) + f BY <1>1, <1>2, <1>3, <1>4
  <1>6. r - s \in Int /\ e - q + p \in Int BY <1>1, <1>2, <1>3
  <1>7. (r - s) % n = f BY <1>3, <1>5, <1>6, ModUnique
  <1> QED BY <1>7 DEF r, s, f

(* A difference of less than half the width is what the game reads.          *)
LEMMA Recovered ==
  ASSUME NEW a \in Int, NEW b \in Int, 2 * (a - b) < Width, 2 * (b - a) < Width
  PROVE Signed(((a % Width) - (b % Width)) % Width) = a - b
  <1>1. Width \in Nat /\ Width > 0 BY WidthAssumption
  <1> DEFINE d == a - b
  <1>2. d \in Int /\ 2 * d < Width /\ 2 * (-d) < Width OBVIOUS
  <1>3. ((a % Width) - (b % Width)) % Width = d % Width BY <1>1, ModDiff
  <1> HIDE DEF d
  <1>4. Signed(d % Width) = d
    <2>1. CASE d >= 0
      <3>1. d \in 0..Width - 1 BY <1>1, <1>2, <2>1
      <3>2. d % Width = d BY <1>1, <3>1, ModSmall
      <3> QED BY <1>1, <1>2, <3>2 DEF Signed
    <2>2. CASE d < 0
      <3>1. d + Width \in 0..Width - 1 BY <1>1, <1>2, <2>2
      <3>2. d = Width * (-1) + (d + Width) BY <1>1, <1>2
      <3>3. d % Width = d + Width BY <1>1, <1>2, <3>1, <3>2, ModUnique
      <3> QED BY <1>1, <1>2, <3>3 DEF Signed
    <2> QED BY <1>2, <2>1, <2>2
  <1> QED BY <1>3, <1>4 DEF d

(* What an update takes, and what it leaves.                                 *)
LEMMA UpdateMoves ==
  ASSUME NEW b \in BallType
  PROVE /\ Moved(b) \in Int /\ FromKeys(b) \in Int /\ LeftPending(b) \in Int
        /\ Reach(b.policy) \in Nat
        /\ Moved(b) <= Reach(b.policy) /\ -Moved(b) <= Reach(b.policy)
        /\ b.policy # "ClampDrop" => LeftPending(b) = b.pending + FromKeys(b) - Moved(b)
  <1> DEFINE h == Held(b)
             p == b.pending
  <1>1. h \in -2..2 /\ h \in Int
    <2>1. b.velocity \in -1..1 BY DEF BallType, Directions
    <2> DEFINE k == (IF b.posHeld THEN 1 ELSE 0) - (IF b.negHeld THEN 1 ELSE 0)
    <2>2. k \in -1..1 OBVIOUS
    <2>3. h = k + b.velocity BY DEF Held
    <2> HIDE DEF k, h
    <2> QED BY <2>1, <2>2, <2>3
  <1>2. p \in Int /\ b.policy \in Policies BY DEF BallType
  <1>3. KeyStep * h \in Int /\ KeyStep \in Nat /\ MaxStep \in Nat BY <1>1, StepAssumption
  <1> HIDE DEF h, p
  <1>4. FromKeys(b) = (IF b.policy = "Unit" THEN h ELSE KeyStep * h) BY DEF FromKeys, h
  <1>5. FromKeys(b) \in Int BY <1>1, <1>3, <1>4
  <1>6. Accumulated(b) = p + FromKeys(b) BY DEF Accumulated, p
  <1>7. Reach(b.policy) \in Nat BY <1>3 DEF Reach
  <1>10. /\ b.policy = "ClampDrop" => LeftPending(b) = 0
         /\ b.policy # "ClampDrop" => LeftPending(b) = (p + FromKeys(b)) - Moved(b)
    <2>1. LeftPending(b) = IF b.policy = "ClampDrop" THEN 0 ELSE Accumulated(b) - Moved(b)
      BY DEF LeftPending
    <2> QED BY <1>6, <2>1
  <1>8. CASE b.policy = "Unit"
    <2>1. Moved(b) = h + Signum(p) BY <1>8 DEF Moved, h, p
    <2>2. Signum(p) \in -1..1 BY <1>2 DEF Signum
    <2>3. Moved(b) \in -3..3 BY <1>1, <2>1, <2>2
    <2>4. LeftPending(b) = (p + FromKeys(b)) - Moved(b) BY <1>8, <1>10
    <2> QED BY <1>2, <1>5, <1>7, <1>8, <2>3, <2>4 DEF Reach, p
  <1>9. CASE b.policy # "Unit"
    <2> DEFINE a == Accumulated(b)
    <2>1. a \in Int BY <1>2, <1>5, <1>6
    <2>2. Moved(b) = Clamp(a) BY <1>9 DEF Moved
    <2> HIDE DEF a
    <2>3. Clamp(a) \in Int /\ Clamp(a) <= MaxStep /\ -Clamp(a) <= MaxStep
      BY <1>3, <2>1 DEF Clamp
    <2>4. LeftPending(b) \in Int BY <1>2, <1>5, <1>10, <2>2, <2>3
    <2> QED BY <1>2, <1>5, <1>7, <1>9, <1>10, <2>2, <2>3, <2>4 DEF Reach, p
  <1> QED BY <1>8, <1>9

-----------------------------------------------------------------------------
(* The ball begins at rest.                                                  *)
LEMMA BallInitKeeps == BallInit => BallInv
  <1> SUFFICES ASSUME BallInit PROVE BallInv OBVIOUS
  <1>1. Width \in Nat /\ Width > 0 BY WidthAssumption
  <1>2. ball \in BallType /\ ball.counter = 0 /\ ball.pending = 0
    <2>1. PICK p \in Policies, inverted \in BOOLEAN :
            ball = [counter |-> 0, pending |-> 0, negHeld |-> FALSE, posHeld |-> FALSE,
                    velocity |-> 0, policy |-> p, invert |-> inverted]
      BY DEF BallInit
    <2>2. 0 \in 0..Width - 1 /\ 0 \in Directions BY <1>1 DEF Directions
    <2>3. ball.counter = 0 /\ ball.pending = 0 BY <2>1
    <2>4. ball \in BallType BY <2>1, <2>2 DEF BallType
    <2> QED BY <2>3, <2>4
  <1>7. sampled = 0 /\ seen = 0 /\ turned = 0 /\ fed = 0 /\ updates = 0
    BY DEF BallInit
  <1>3. BallTypeOK BY <1>1, <1>2, <1>7, SamplingAssumption DEF BallTypeOK, BallType
  <1>4. Wrapped
    <2>1. 0 % Width = 0 BY <1>1, ModSmall
    <2> QED BY <1>2, <1>7, <2>1 DEF Wrapped
  <1>5. Ahead
    <2>1. Reach(ball.policy) \in Nat BY <1>2, UpdateMoves
    <2>2. 0 * Reach(ball.policy) = 0 BY <2>1
    <2> QED BY <1>7, <2>2 DEF Ahead
  <1>6. Carried
    <2>1. Turn(ball, 0) = 0 BY DEF Turn
    <2> QED BY <1>2, <1>7, <2>1 DEF Carried
  <1> QED BY <1>3, <1>4, <1>5, <1>6 DEF BallInv

(* A step that turns nothing: keys, stick, motion that arrives or is let go. *)
LEMMA StillKeeps ==
  ASSUME BallInv, ball' \in BallType, ball'.counter = ball.counter,
         ball'.policy = ball.policy, ball'.invert = ball.invert,
         fed' \in Int, fed' - fed = ball'.pending - ball.pending,
         UNCHANGED <<sampled, seen, turned, updates>>
  PROVE BallInv'
  <1>1. BallTypeOK' BY DEF BallInv, BallTypeOK, BallType
  <1>2. Wrapped' BY DEF BallInv, Wrapped
  <1>3. Ahead' BY DEF BallInv, Ahead
  <1>4. Carried'
    <2>1. Turn(ball, turned) \in Int BY DEF BallInv, BallTypeOK, Turn
    <2>2. Turn(ball', turned') = Turn(ball, turned) BY DEF Turn
    <2>3. fed \in Int /\ ball.pending \in Int /\ ball'.pending \in Int
      BY DEF BallInv, BallTypeOK, BallType
    <2> HIDE DEF Turn
    <2> QED BY <2>1, <2>2, <2>3 DEF BallInv, Carried
  <1> QED BY <1>1, <1>2, <1>3, <1>4 DEF BallInv

(* The ball turns: the counter wraps, the position does not.                 *)
LEMMA UpdateKeeps ==
  ASSUME BallInv, Update
  PROVE BallInv'
  <1> DEFINE m == Moved(ball)
             t == Turn(ball, m)
             reach == Reach(ball.policy)
  <1>1. /\ updates < UpdatesPerRead /\ ball' = update(ball) /\ turned' = turned + t
        /\ fed' = IF ball.policy = "ClampDrop" THEN 0 ELSE fed + FromKeys(ball)
        /\ updates' = updates + 1 /\ sampled' = sampled /\ seen' = seen
    BY DEF Update
  <1>2. /\ ball \in BallType /\ seen \in Int /\ turned \in Int /\ fed \in Int
        /\ updates \in 0..UpdatesPerRead /\ sampled \in 0..Width - 1
        /\ ball.pending \in Int /\ ball.counter = turned % Width
    BY DEF BallInv, BallTypeOK, BallType, Wrapped
  <1>3. /\ m \in Int /\ FromKeys(ball) \in Int /\ LeftPending(ball) \in Int /\ reach \in Nat
        /\ m <= reach /\ -m <= reach
        /\ ball.policy # "ClampDrop" => LeftPending(ball) = ball.pending + FromKeys(ball) - m
    BY <1>2, UpdateMoves
  <1>4. t \in Int /\ t <= reach /\ -t <= reach BY <1>3 DEF Turn
  <1>5. Width \in Nat /\ Width > 0 /\ UpdatesPerRead \in Nat
    BY WidthAssumption, SamplingAssumption
  <1> DEFINE c == (ball.counter + t) % Width
  <1>6. ball' = [ball EXCEPT !.counter = c, !.pending = LeftPending(ball)]
    BY <1>1 DEF update
  <1> HIDE DEF m, t, reach, c
  <1>7. c = (turned + t) % Width /\ c \in 0..Width - 1
    <2>1. ball.counter + t \in Int BY <1>2, <1>4, <1>5 DEF BallType
    <2>2. c \in 0..Width - 1 BY <1>5, <2>1, DivMod DEF c
    <2>3. ((turned % Width) + t) % Width = (turned + t) % Width BY <1>2, <1>4, <1>5, ModAdd
    <2> QED BY <1>2, <2>2, <2>3 DEF c
  <1>8. /\ ball' \in BallType /\ ball'.counter = c /\ ball'.pending = LeftPending(ball)
        /\ ball'.policy = ball.policy /\ ball'.invert = ball.invert
    BY <1>2, <1>3, <1>6, <1>7 DEF BallType
  <1>9. BallTypeOK'
    <2>1. fed' \in Int /\ turned' \in Int /\ updates' \in 0..UpdatesPerRead
      BY <1>1, <1>2, <1>3, <1>4, <1>5
    <2> QED BY <1>1, <1>2, <1>8, <2>1 DEF BallTypeOK, BallType
  <1>10. Wrapped' BY <1>1, <1>7, <1>8 DEF BallInv, Wrapped
  <1>11. Ahead'
    <2>1. turned - seen <= updates * reach /\ seen - turned <= updates * reach
      BY DEF BallInv, Ahead, reach
    <2>2. (updates + 1) * reach = updates * reach + reach /\ updates * reach \in Int
      BY <1>2, <1>3
    <2>3. /\ (turned + t) - seen <= (updates + 1) * reach
          /\ seen - (turned + t) <= (updates + 1) * reach
      BY <1>2, <1>3, <1>4, <2>1, <2>2
    <2> QED BY <1>1, <1>8, <2>3 DEF Ahead, reach
  <1>12. Carried'
    <2> SUFFICES ASSUME ball.policy # "ClampDrop"
                 PROVE fed + FromKeys(ball) = LeftPending(ball) + Turn(ball', turned + t)
      BY <1>1, <1>8 DEF Carried
    <2>1. Turn(ball', turned + t) = Turn(ball, turned) + m
      BY <1>2, <1>3, <1>8 DEF Turn, t
    <2>2. Turn(ball, turned) \in Int BY <1>2 DEF Turn
    <2>3. fed = ball.pending + Turn(ball, turned) BY DEF BallInv, Carried
    <2> QED BY <1>2, <1>3, <2>1, <2>2, <2>3
  <1> QED BY <1>9, <1>10, <1>11, <1>12 DEF BallInv

(* The game samples the counter and is where the ball is.                    *)
LEMMA ReadKeeps ==
  ASSUME BallInv, GameReads
  PROVE BallInv' /\ seen' = turned'
  <1> DEFINE reach == Reach(ball.policy)
  <1>1. /\ sampled' = ball.counter /\ seen' = seen + Reading /\ updates' = 0
        /\ ball' = ball /\ turned' = turned /\ fed' = fed
    BY DEF GameReads
  <1>2. /\ ball \in BallType /\ seen \in Int /\ turned \in Int /\ fed \in Int
        /\ updates \in 0..UpdatesPerRead /\ ball.counter \in 0..Width - 1
        /\ ball.policy \in Policies
    BY DEF BallInv, BallTypeOK, BallType
  <1>3. /\ reach \in Nat /\ UpdatesPerRead \in Nat /\ Width \in Nat
        /\ 2 * (UpdatesPerRead * reach) < Width
    BY <1>2, UpdateMoves, WidthAssumption, SamplingAssumption
  <1>4. turned - seen <= updates * reach /\ seen - turned <= updates * reach
    BY DEF BallInv, Ahead
  <1> HIDE DEF reach
  <1>5. updates * reach <= UpdatesPerRead * reach /\ updates * reach \in Nat
    <2>1. UpdatesPerRead - updates \in Nat /\ updates \in Nat BY <1>2, <1>3
    <2>2. (UpdatesPerRead - updates) * reach \in Nat /\ updates * reach \in Nat
      BY <1>3, <2>1
    <2>3. (UpdatesPerRead - updates) * reach = UpdatesPerRead * reach - updates * reach
      BY <1>2, <1>3
    <2> QED BY <1>2, <1>3, <2>2, <2>3
  <1>6. 2 * (turned - seen) < Width /\ 2 * (seen - turned) < Width
    BY <1>2, <1>3, <1>4, <1>5
  <1>7. Reading = turned - seen
    BY <1>2, <1>6, Recovered DEF Reading, BallInv, Wrapped
  <1>8. seen' = turned BY <1>1, <1>2, <1>7
  <1>9. BallTypeOK'
    BY <1>1, <1>2, <1>3, <1>8 DEF BallInv, BallTypeOK
  <1>10. Wrapped' BY <1>1, <1>8 DEF BallInv, Wrapped
  <1>11. Ahead'
    <2>1. 0 * reach = 0 /\ turned - turned = 0 BY <1>2, <1>3
    <2> QED BY <1>1, <1>8, <2>1 DEF Ahead, reach
  <1>12. Carried' BY <1>1 DEF BallInv, Carried
  <1> QED BY <1>1, <1>8, <1>9, <1>10, <1>11, <1>12 DEF BallInv

(* Every step keeps the invariant.                                           *)
LEMMA BallStepKeeps == BallInv /\ [BallNext]_ballVars => BallInv'
  <1> SUFFICES ASSUME BallInv, [BallNext]_ballVars PROVE BallInv' OBVIOUS
  <1>1. ball \in BallType /\ fed \in Int /\ ball.pending \in Int
    BY DEF BallInv, BallTypeOK, BallType
  <1>2. ASSUME NEW d \in Deltas, add_delta(d) PROVE BallInv'
    <2>1. d \in Int BY StepAssumption
    <2>2. /\ ball' = [ball EXCEPT !.pending = @ + d] /\ fed' = fed + d
          /\ UNCHANGED <<sampled, seen, turned, updates>>
      BY <1>2 DEF add_delta
    <2>3. ball.pending + d \in Int BY <1>1, <2>1
    <2>4. /\ ball' \in BallType /\ ball'.counter = ball.counter
          /\ ball'.policy = ball.policy /\ ball'.invert = ball.invert
          /\ ball'.pending = ball.pending + d
      BY <1>1, <2>2, <2>3 DEF BallType
    <2>5. fed' \in Int /\ fed' - fed = ball'.pending - ball.pending
      BY <1>1, <2>1, <2>2, <2>4
    <2> QED BY <2>2, <2>4, <2>5, StillKeeps
  <1>3. ASSUME NEW pos \in BOOLEAN, NEW held \in BOOLEAN, set_held(pos, held) PROVE BallInv'
    <2>1. /\ ball' = IF pos THEN [ball EXCEPT !.posHeld = held] ELSE [ball EXCEPT !.negHeld = held]
          /\ UNCHANGED <<sampled, seen, turned, fed, updates>>
      BY <1>3 DEF set_held
    <2>2. /\ ball' \in BallType /\ ball'.counter = ball.counter
          /\ ball'.policy = ball.policy /\ ball'.invert = ball.invert
          /\ ball'.pending = ball.pending
      BY <1>1, <2>1 DEF BallType
    <2>3. fed' \in Int /\ fed' - fed = ball'.pending - ball.pending BY <1>1, <2>1, <2>2
    <2> QED BY <2>1, <2>2, <2>3, StillKeeps
  <1>4. ASSUME NEW direction \in Directions, set_velocity(direction) PROVE BallInv'
    <2>1. /\ ball' = [ball EXCEPT !.velocity = direction]
          /\ UNCHANGED <<sampled, seen, turned, fed, updates>>
      BY <1>4 DEF set_velocity
    <2>2. /\ ball' \in BallType /\ ball'.counter = ball.counter
          /\ ball'.policy = ball.policy /\ ball'.invert = ball.invert
          /\ ball'.pending = ball.pending
      BY <1>1, <2>1 DEF BallType
    <2>3. fed' \in Int /\ fed' - fed = ball'.pending - ball.pending BY <1>1, <2>1, <2>2
    <2> QED BY <2>1, <2>2, <2>3, StillKeeps
  <1>5. CASE Update BY <1>5, UpdateKeeps
  <1>6. CASE GameReads BY <1>6, ReadKeeps
  <1>7. CASE ReleaseAll
    <2>1. /\ ball' = release_all(ball) /\ fed' = fed - ball.pending
          /\ UNCHANGED <<sampled, seen, turned, updates>>
      BY <1>7 DEF ReleaseAll
    <2>2. /\ ball' \in BallType /\ ball'.counter = ball.counter
          /\ ball'.policy = ball.policy /\ ball'.invert = ball.invert
          /\ ball'.pending = 0
      <3>1. 0 \in Int /\ 0 \in Directions BY DEF Directions
      <3>2. ball' = [ball EXCEPT !.pending = 0, !.negHeld = FALSE, !.posHeld = FALSE,
                                 !.velocity = 0]
        BY <2>1 DEF release_all
      <3> QED BY <1>1, <3>1, <3>2 DEF BallType
    <2>3. fed' \in Int /\ fed' - fed = ball'.pending - ball.pending BY <1>1, <2>1, <2>2
    <2> QED BY <2>1, <2>2, <2>3, StillKeeps
  <1>8. CASE UNCHANGED ballVars
    BY <1>8 DEF ballVars, BallInv, BallTypeOK, Wrapped, Ahead, Carried, Turn
  <1> QED BY <1>2, <1>3, <1>4, <1>5, <1>6, <1>7, <1>8 DEF BallNext

-----------------------------------------------------------------------------
(* The invariant holds throughout.                                           *)
THEOREM BallInvariant == BallSpec => []BallInv
  <1> QED BY BallInitKeeps, BallStepKeeps, PTL DEF BallSpec

(* The counter stays within its width, whatever turns the ball.              *)
THEOREM BallTyped == BallSpec => []BallTypeOK
  <1> QED BY BallInvariant, PTL DEF BallInv

(* A game that samples in time follows the ball, and carrying policies lose  *)
(* no motion, for every width, step and rate of updates.                     *)
THEOREM GamesFollow == BallSpec => []GameFollowsBall
  <1>1. BallInv => GameFollowsBall
    <2> SUFFICES ASSUME BallInv PROVE GameFollowsBall OBVIOUS
    <2>1. ASSUME updates = 0 PROVE seen = turned
      <3>1. seen \in Int /\ turned \in Int /\ ball \in BallType
        BY DEF BallInv, BallTypeOK, BallType
      <3>2. Reach(ball.policy) \in Nat BY <3>1, UpdateMoves
      <3>3. 0 * Reach(ball.policy) = 0 BY <3>2
      <3> QED BY <2>1, <3>1, <3>3 DEF BallInv, Ahead
    <2> QED BY <2>1 DEF BallInv, Carried, GameFollowsBall
  <1> QED BY <1>1, BallInvariant, PTL
=============================================================================
