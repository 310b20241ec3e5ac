------------------------------- MODULE GpsTime -------------------------------
(***************************************************************************)
(* calcTimeFromEpoch (simpleDGps.cpp), the first step of calcSatPos: how   *)
(* old an ephemeris is.  Both its arguments are times of week, which wrap  *)
(* every Week seconds; the code undoes at most one wrap.                   *)
(***************************************************************************)
EXTENDS Integers

CONSTANTS
  HalfWeek,     (* 302400 in the code                                      *)
  MaxTime,      (* bound: the clock of an instance                         *)
  MaxLead       (* bound: how far the reference time of an ephemeris may   *)
                (* lie before or after the moment it is received           *)

ASSUME TimeConstants ==
  HalfWeek \in Nat \ {0} /\ MaxTime \in Nat /\ MaxLead \in Nat

Week == 2 * HalfWeek
TimeOfWeek(time) == time % Week

(* The branches use the strict comparisons of the code.                    *)
calcTimeFromEpochOneSided(t, t_ref) ==
  IF t - t_ref > HalfWeek THEN t - t_ref - Week ELSE t - t_ref
calcTimeFromEpoch(t, t_ref) ==
  LET d == t - t_ref
  IN  CASE d > HalfWeek  -> d - Week
        [] d < -HalfWeek -> d + Week
        [] OTHER         -> d

VARIABLES
  clock,    (* GPS time, never wrapped                                     *)
  t_oe,     (* GPS time the ephemeris in use refers to, never wrapped;     *)
            (* ephem->t_oe is its time of week                             *)
  t_k       (* what the last calcSatPos took for clock - t_oe, and both    *)

vars == <<clock, t_oe, t_k>>

Answer(now, ref) ==
  [age |-> calcTimeFromEpoch(TimeOfWeek(now), TimeOfWeek(ref)), now |-> now, ref |-> ref]

Init == clock \in 0 .. Week /\ t_oe = clock /\ t_k = Answer(clock, clock)

Tick ==
  /\ clock < MaxTime
  /\ clock' = clock + 1
  /\ UNCHANGED <<t_oe, t_k>>

(* The receiver hands over another ephemeris, ahead of time or late.       *)
NewEphemeris ==
  /\ \E lead \in -MaxLead .. MaxLead : clock + lead >= 0 /\ t_oe' = clock + lead
  /\ UNCHANGED <<clock, t_k>>

calcSatPos ==
  /\ t_k' = Answer(clock, t_oe)
  /\ UNCHANGED <<clock, t_oe>>

Next == Tick \/ NewEphemeris \/ calcSatPos

Spec == Init /\ [][Next]_vars
-----------------------------------------------------------------------------
(* Named parts of AgeCorrect.  While an ephemeris is less than half a week  *)
(* old or ahead, its age comes out right on both sides of any week rollover, *)
(* although only times of week are known.                                   *)
AgeExact ==
  -HalfWeek < t_k.now - t_k.ref /\ t_k.now - t_k.ref < HalfWeek =>
    t_k.age = t_k.now - t_k.ref

(* Used longer, an ephemeris never seems older than half a week, nor is its *)
(* age wrong by anything but whole weeks.                                   *)
AgeWithinHalfWeek ==
  /\ -HalfWeek <= t_k.age /\ t_k.age <= HalfWeek
  /\ (t_k.age - (t_k.now - t_k.ref)) % Week = 0

(* The age of an ephemeris, found from times of week alone, is right across *)
(* any week rollover as far as half a week goes, and folded into it beyond. *)
AgeCorrect == AgeExact /\ AgeWithinHalfWeek
=============================================================================
